--------------------------- MODULE IngestionJobs ---------------------------
(***************************************************************************)
(* Governed ingestion jobs: IngestionJobService over the PostgreSQL        *)
(* repository.  The repository ships no worker loop, so the callers here   *)
(* are the ones its interface is made for: workers (one call at a time     *)
(* under one worker_id), operators who cancel or reclaim, and planners who *)
(* enqueue.                                                                *)
(*                                                                         *)
(* A call of the service takes its `now' first, then reads the row, and    *)
(* only then writes: an UPDATE of the whole row guarded by a WHERE clause, *)
(* plus one event, in one commit.  Other calls may come in between.        *)
(*                                                                         *)
(* A job is a number: its rank in the order (priority desc, scheduled_at,  *)
(* created_at, job_id) in which claim_next looks for work.                 *)
(***************************************************************************)
EXTENDS Integers, Sequences

CONSTANTS
    Jobs,           \* ranks of the planned jobs (idempotency keys)
    Workers,        \* worker identifiers
    Operators,      \* callers of cancel and reclaim_expired
    Planners,       \* callers of enqueue
    NoWorker,       \* lease_owner IS NULL
    MaxAttempts,    \* max_attempts
    LeaseDuration,  \* lease_duration
    Extension,      \* heartbeat_extension
    BaseDelay,      \* retry_base_delay
    MaxDelay,       \* retry_max_delay
    MaxTime,        \* bound: the last instant of the clock
    MaxBeats        \* bound: heartbeats that are stored

ASSUME JobsAreRanks == Jobs \subseteq Nat \ {0}
ASSUME CallersApart == /\ Workers \cap Operators = {}
                       /\ Workers \cap Planners = {}
                       /\ Operators \cap Planners = {}
                       /\ NoWorker \notin Workers \cup Operators \cup Planners
ASSUME AttemptsPositive == MaxAttempts \in Nat \ {0}
ASSUME DelaysPositive == /\ LeaseDuration \in Nat \ {0}
                         /\ Extension \in Nat \ {0}
                         /\ BaseDelay \in Nat \ {0}
                         /\ MaxDelay \in Nat \ {0}
                         /\ BaseDelay <= MaxDelay
ASSUME TimeBounds == MaxTime \in Nat /\ MaxBeats \in Nat

VARIABLES
    row,            \* row[j]: the ingestion_jobs row of j
    log,            \* log[j]: the ingestion_job_events rows of j
    clock,          \* the time every caller reads
    call,           \* call[c]: the service call that c is in
    beats           \* heartbeats stored so far

vars == <<row, log, clock, call, beats>>

---------------------------------------------------------------------------
(* Rows, events and calls.                                                 *)

NoTime == -1
Time   == Int

Terminal == {"succeeded", "failed", "cancelled"}
Status   == {"absent", "pending", "running"} \cup Terminal
Kind     == {"enqueued", "claimed", "heartbeat", "retried", "reclaimed"} \cup Terminal

(* `since' is the later of created_at and started_at: finished_at must not *)
(* precede it.                                                             *)
Row == [status : Status, attempts : Nat, owner : Workers \cup {NoWorker},
        lease : Time, next : Time, sched : Time, since : Time]

NoRow == [status |-> "absent", attempts |-> 0, owner |-> NoWorker,
          lease |-> NoTime, next |-> NoTime, sched |-> NoTime, since |-> NoTime]

Event == [kind : Kind, attempt : Nat]

Owned   == {"heartbeat", "succeed", "fail_or_retry"}
Op      == Owned \cup {"claim_next", "cancel", "reclaim_expired", "enqueue", "none"}
Callers == Workers \cup Operators \cup Planners

Call == [at : {"idle", "begun", "write"}, op : Op, job : Jobs \cup {0},
         now : Time, copy : Row]

Idle == [at |-> "idle", op |-> "none", job |-> 0, now |-> NoTime, copy |-> NoRow]

(* What IngestionJob.__post_init__ and the CHECK constraints demand. *)
RowOK(r) ==
    /\ (r.status = "running") <=> (r.owner # NoWorker)
    /\ (r.status = "running") <=> (r.lease # NoTime)
    /\ r.next # NoTime => r.status = "pending"
    /\ r.status = "pending" => ((r.attempts > 0) <=> (r.next # NoTime))
    /\ r.status \in {"running", "succeeded", "failed"} => r.attempts >= 1
    /\ r.attempts <= MaxAttempts

(* The type invariant: every stored row is one that _job_from_row accepts. *)
TypeOK == /\ row \in [Jobs -> Row]
          /\ \A j \in Jobs : RowOK(row[j])
          /\ log \in [Jobs -> Seq(Event)]
          /\ clock \in 0..MaxTime
          /\ call \in [Callers -> Call]
          /\ beats \in 0..MaxBeats

Init == /\ row = [j \in Jobs |-> NoRow]
        /\ log = [j \in Jobs |-> <<>>]
        /\ clock = 0
        /\ call = [c \in Callers |-> Idle]
        /\ beats = 0

---------------------------------------------------------------------------
(* The transitions of the IngestionJob model.                              *)

(* retry_base_delay doubled for every earlier attempt, up to the maximum.  *)
Backoff(attempts) ==
    LET delay == BaseDelay * 2^(attempts - 1)
    IN  IF delay \in 1..MaxDelay THEN delay ELSE MaxDelay

(* Slip: the lease of the finished attempt stays in the row. *)
UnleasedKeepsLease(r, s) == [r EXCEPT !.status = s, !.owner = NoWorker,
                                      !.next = NoTime]

Unleased(r, s) == [r EXCEPT !.status = s, !.owner = NoWorker, !.lease = NoTime,
                            !.next = NoTime]

(* IngestionJob.claim *)
Claimed(r, w, now) ==
    [r EXCEPT !.status = "running", !.attempts = @ + 1, !.owner = w,
              !.lease = now + LeaseDuration, !.next = NoTime,
              !.since = IF r.attempts = 0 THEN now ELSE @]

HoldsLease(r, w, now) == r.status = "running" /\ r.owner = w /\ r.lease > now

(* The model accepts the call: otherwise it raises InvalidModelError. *)
Accepts(op, r, c, now) ==
    CASE op = "heartbeat"       -> HoldsLease(r, c, now)
      [] op \in {"succeed", "fail_or_retry"} ->
            HoldsLease(r, c, now) /\ now >= r.since
      [] op = "cancel"          -> r.status = "pending" /\ now >= r.since
      [] op = "reclaim_expired" -> r.status = "running" /\ r.lease <= now
      [] OTHER                  -> FALSE

(* Slip: an off-by-one in the comparison with max_attempts. *)
UpdatedOffByOne(op, r, now) ==
    CASE op = "heartbeat" -> [r EXCEPT !.lease = @ + Extension]
      [] op = "succeed"   -> Unleased(r, "succeeded")
      [] op \in {"fail_or_retry", "reclaim_expired"} ->
            IF r.attempts > MaxAttempts
            THEN Unleased(r, "failed")
            ELSE [Unleased(r, "pending") EXCEPT !.next = now + BaseDelay]
      [] OTHER            -> Unleased(r, "cancelled")

(* The row the call wants to store. *)
Updated(op, r, now) ==
    CASE op = "heartbeat" -> [r EXCEPT !.lease = @ + Extension]
      [] op = "succeed"   -> Unleased(r, "succeeded")
      [] op = "fail_or_retry" ->
            IF r.attempts >= MaxAttempts
            THEN Unleased(r, "failed")
            ELSE [Unleased(r, "pending") EXCEPT !.next = now + Backoff(r.attempts)]
      [] op = "reclaim_expired" ->
            IF r.attempts >= MaxAttempts
            THEN Unleased(r, "failed")
            ELSE [Unleased(r, "pending") EXCEPT !.next = now + BaseDelay]
      [] OTHER            -> Unleased(r, "cancelled")

(* Slip: the last failure is logged as one more retry. *)
EventKindRetried(op, r) ==
    CASE op = "heartbeat"     -> "heartbeat"
      [] op = "succeed"       -> "succeeded"
      [] op = "fail_or_retry" -> "retried"
      [] op = "reclaim_expired" -> "reclaimed"
      [] OTHER                -> "cancelled"

(* The event that goes with it. *)
EventKind(op, r) ==
    CASE op = "heartbeat"     -> "heartbeat"
      [] op = "succeed"       -> "succeeded"
      [] op = "fail_or_retry" -> IF r.attempts >= MaxAttempts THEN "failed" ELSE "retried"
      [] op = "reclaim_expired" -> "reclaimed"
      [] OTHER                -> "cancelled"

---------------------------------------------------------------------------
(* Calls.                                                                  *)

(* The caller is back, whatever the call returned or raised. *)
Return(c) == call' = [call EXCEPT ![c] = Idle]

Begin(c, op, j) ==
    /\ call[c].at = "idle"
    /\ call' = [call EXCEPT ![c] = [Idle EXCEPT !.at = "begun", !.op = op,
                                                !.job = j, !.now = clock]]
    /\ UNCHANGED <<row, log, clock, beats>>

(* Read the row and apply the transition to the copy. *)
Read(c) ==
    /\ call[c].at = "begun"
    /\ call[c].op \in Owned \cup {"cancel", "reclaim_expired"}
    /\ \/ /\ Accepts(call[c].op, row[call[c].job], c, call[c].now)
          /\ call' = [call EXCEPT ![c].at = "write", ![c].copy = row[call[c].job]]
       \/ /\ ~Accepts(call[c].op, row[call[c].job], c, call[c].now)
          /\ Return(c)
    /\ UNCHANGED <<row, log, clock, beats>>

(* Slip: the UPDATE names the job and its status, not the lease. *)
MatchesStatusOnly(c, r) ==
    r.status = IF call[c].op = "cancel" THEN "pending" ELSE "running"

(* Slip: the UPDATE of an owner does not say whose lease it means. *)
MatchesUnowned(c, r) ==
    LET k == call[c] IN
    CASE k.op \in Owned -> r.status = "running" /\ r.lease > k.now
      [] k.op = "reclaim_expired" ->
            r.status = "running" /\ r.lease = k.copy.lease /\ r.lease <= k.now
      [] OTHER -> r.status = "pending"

(* Slip: a cancellation only makes sure that the job does not run. *)
MatchesNotRunning(c, r) ==
    LET k == call[c] IN
    CASE k.op \in Owned -> HoldsLease(r, c, k.now) /\ r.lease = k.copy.lease
      [] k.op = "reclaim_expired" ->
            r.status = "running" /\ r.lease = k.copy.lease /\ r.lease <= k.now
      [] OTHER -> r.status # "running"

(* The WHERE clauses of save_owned, save_pending and save_reclaimed. *)
Matches(c, r) ==
    LET k == call[c] IN
    CASE k.op \in Owned -> HoldsLease(r, c, k.now) /\ r.lease = k.copy.lease
      [] k.op = "reclaim_expired" ->
            r.status = "running" /\ r.lease = k.copy.lease /\ r.lease <= k.now
      [] OTHER -> r.status = "pending"

Store(j, r, kind) ==
    /\ row' = [row EXCEPT ![j] = r]
    /\ log' = [log EXCEPT ![j] = Append(@, [kind |-> kind, attempt |-> r.attempts])]

(* UPDATE ... WHERE, the event, and commit; or no row matched. *)
Write(c) ==
    LET k == call[c] IN
    /\ k.at = "write"
    /\ k.op # "enqueue"
    /\ \/ /\ Matches(c, row[k.job])
          /\ k.op = "heartbeat" => beats < MaxBeats
          /\ Store(k.job, Updated(k.op, k.copy, k.now), EventKind(k.op, k.copy))
          /\ beats' = IF k.op = "heartbeat" THEN beats + 1 ELSE beats
       \/ /\ ~Matches(c, row[k.job])
          /\ UNCHANGED <<row, log, beats>>
    /\ Return(c)
    /\ UNCHANGED clock

---------------------------------------------------------------------------
(* claim_next: SELECT ... FOR UPDATE SKIP LOCKED LIMIT 1, then the UPDATE, *)
(* all under the row lock.                                                 *)

Due(j, now) == /\ row[j].status = "pending"
               /\ row[j].sched <= now
               /\ row[j].next <= now          \* NoTime is in the past

(* Another transaction may hold the lock on the row of j. *)
MayBeLocked(j, c) == \E d \in Callers \ {c} :
                        /\ call[d].at # "idle"
                        /\ call[d].job = j \/ call[d].op = "claim_next"

Claim(w) ==
    LET now == call[w].now IN
    /\ call[w].at = "begun"
    /\ call[w].op = "claim_next"
    /\ \/ \E j \in Jobs :
            /\ Due(j, now)
            /\ \A k \in Jobs : k < j /\ Due(k, now) => MayBeLocked(k, w)
            /\ row[j].attempts < MaxAttempts
            /\ Store(j, Claimed(row[j], w, now), "claimed")
       \/ /\ \A j \in Jobs : Due(j, now) => MayBeLocked(j, w)
          /\ UNCHANGED <<row, log>>
    /\ Return(w)
    /\ UNCHANGED <<clock, beats>>

---------------------------------------------------------------------------
(* enqueue.                                                                *)

(* No row has the idempotency key yet. *)
Look(c) ==
    /\ call[c].at = "begun"
    /\ call[c].op = "enqueue"
    /\ \/ /\ row[call[c].job].status = "absent"
          /\ call' = [call EXCEPT ![c].at = "write"]
       \/ /\ row[call[c].job].status # "absent"
          /\ Return(c)
    /\ UNCHANGED <<row, log, clock, beats>>

(* add inserts the row, scheduled for now or for later.  A planner that    *)
(* lost the race to insert is handed the winner; both computed the same    *)
(* job_id, so it goes on and appends its own event.                        *)
Add(c) ==
    LET j == call[c].job  now == call[c].now IN
    /\ call[c].at = "write"
    /\ call[c].op = "enqueue"
    /\ \/ /\ row[j].status = "absent"
          /\ \E s \in {now, now + 1} :
                Store(j, [NoRow EXCEPT !.status = "pending", !.sched = s,
                                       !.since = now], "enqueued")
       \/ /\ row[j].status # "absent"
          /\ log' = [log EXCEPT ![j] = Append(@, [kind |-> "enqueued", attempt |-> 0])]
          /\ UNCHANGED row
    /\ Return(c)
    /\ UNCHANGED <<clock, beats>>

---------------------------------------------------------------------------

(* The database is gone, or the caller is: the transaction rolls back. *)
Abandon(c) == /\ call[c].at # "idle"
              /\ Return(c)
              /\ UNCHANGED <<row, log, clock, beats>>

Tick == /\ clock < MaxTime
        /\ clock' = clock + 1
        /\ UNCHANGED <<row, log, call, beats>>

WorkerStep(w) == \/ Begin(w, "claim_next", 0)
                 \/ \E op \in Owned, j \in Jobs : Begin(w, op, j)
                 \/ Claim(w)

OperatorStep(o) == \E op \in {"cancel", "reclaim_expired"}, j \in Jobs : Begin(o, op, j)

PlannerStep(c) == Look(c) \/ Add(c) \/ \E j \in Jobs : Begin(c, "enqueue", j)

Next == \/ \E w \in Workers : WorkerStep(w)
        \/ \E o \in Operators : OperatorStep(o)
        \/ \E c \in Planners : PlannerStep(c)
        \/ \E c \in Workers \cup Operators : Read(c) \/ Write(c)
        \/ \E c \in Callers : Abandon(c)
        \/ Tick

Spec == Init /\ [][Next]_vars

---------------------------------------------------------------------------
(* Properties.                                                             *)

(* c is about to overwrite a whole row with the result of an operation. *)
Overwrites(c, ops) == /\ call[c].at = "write"
                      /\ call[c].op \in ops
                      /\ Matches(c, row[call[c].job])

(* The fence of a worker: when save_owned would succeed, the row is still  *)
(* exactly the row the call computed from, so overwriting all of it loses  *)
(* no concurrent update.                                                   *)
OwnedWritesFenced ==
    \A c \in Workers : Overwrites(c, Owned) => row[call[c].job] = call[c].copy

(* No pending job has used up its attempts.  claim_next takes the first    *)
(* due row and raises on such a one, so it would block the whole queue.    *)
PendingClaimable ==
    \A j \in Jobs : row[j].status = "pending" => row[j].attempts < MaxAttempts

(* A job ends once: whatever call arrives late, its row never changes      *)
(* again.                                                                  *)
EndsOnce == [][\A j \in Jobs : row[j].status \in Terminal => row'[j] = row[j]]_vars

(* The owner of j keeps it, or its own call gives it up, or it is late. *)
KeepsLease(j) ==
    /\ row[j].status = "running"
    /\ row'[j].owner # row[j].owner
    => \/ call[row[j].owner].at = "write" /\ call'[row[j].owner] = Idle
       \/ row[j].lease <= clock

(* A worker is only ever deprived of its job by its own call or after its  *)
(* lease ran out: no reclaim computed from a stale read or a stale `now'   *)
(* takes work from a worker in time.                                       *)
LeaseRespected == [][\A j \in Jobs : KeepsLease(j)]_vars

(* The status that the last event of a log stands for. *)
StatusAfter(e) ==
    CASE e.kind \in {"claimed", "heartbeat"} -> {"running"}
      [] e.kind \in {"enqueued", "retried"}  -> {"pending"}
      [] e.kind = "reclaimed" ->
            IF e.attempt >= MaxAttempts THEN {"failed"} ELSE {"pending"}
      [] OTHER -> {e.kind}

(* The event log tells the story of the row: a job has events exactly when *)
(* it has a row, and the last of them names the status and the attempt     *)
(* that the row holds, whatever calls interleave.                          *)
LogTellsRow ==
    \A j \in Jobs :
       /\ log[j] = <<>> <=> row[j].status = "absent"
       /\ log[j] # <<>> =>
             LET last == log[j][Len(log[j])]
             IN  row[j].status \in StatusAfter(last) /\ row[j].attempts = last.attempt

(* However many planners race, a job is enqueued once. *)
EnqueuedOnce ==
    \A j \in Jobs : \A i \in DOMAIN log[j] : log[j][i].kind = "enqueued" <=> i = 1
=============================================================================
