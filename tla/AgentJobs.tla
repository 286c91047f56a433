---------------------------- MODULE AgentJobs ----------------------------
(***************************************************************************)
(* The asynchronous agent-job runtime: AgentJobService, its repository,    *)
(* its bounded thread-pool dispatcher and the advisory-lock lease of the   *)
(* recovery supervisor.                                                    *)
(*                                                                         *)
(* A process of Procs is one API process.  It has Workers (the threads of  *)
(* the executor), one recovery thread, and one HTTP thread per job being   *)
(* submitted.  All of them share the local sets `scheduled' and            *)
(* `interrupted' and the database rows.  Every step below is one database  *)
(* transaction or one critical section of a lock in the code.              *)
(*                                                                         *)
(* A job is a number: its rank in the order (created_at, job_id) by which  *)
(* list_queued sorts.                                                      *)
(***************************************************************************)
EXTENDS Integers, Sequences, FiniteSets

CONSTANTS
    Jobs,          \* ranks of the jobs that clients submit
    Procs,         \* API processes
    Workers,       \* executor threads of a process (worker_limit)
    MaxPending,    \* permits of the dispatcher's semaphore (pending_limit)
    BatchSize,     \* recovery_batch_size
    NoProc,        \* nobody holds the advisory lock
    LeaseLoss,     \* TRUE: PostgreSQL may drop the lock-bearing session
    ClockSteps,    \* TRUE: the wall clock may step back during an execution
    MaxOutages,    \* bound: how often a dependency is unavailable
    MaxRestarts    \* bound: how often a process crashes or is shut down

ASSUME JobsAssumption == Jobs \subseteq Nat \ {0}
ASSUME ProcsAssumption == NoProc \notin Procs
ASSUME WorkersAssumption == IsFiniteSet(Workers)
ASSUME PendingAssumption == MaxPending \in Nat \ {0}
ASSUME BatchAssumption == BatchSize \in Nat \ {0}
ASSUME FlagAssumption == LeaseLoss \in BOOLEAN /\ ClockSteps \in BOOLEAN
ASSUME BoundAssumption == MaxOutages \in Nat /\ MaxRestarts \in Nat

VARIABLES
    status,        \* the agent_jobs rows
    events,        \* the agent_job_events rows, kinds only, in sequence order
    lock,          \* the process whose session holds the advisory lock
    phase,         \* where each process is between startup and exit
    failed,        \* _supervisor_failed
    scheduled,     \* _scheduled_job_ids
    interrupted,   \* _interrupted_job_ids
    free,          \* permits left in the dispatcher's semaphore
    queue,         \* callbacks the executor has accepted and not started
    wpc, wjob,     \* what each executor thread is doing, and for which job
    lpc, todo, cur,\* what the recovery thread is doing, and over which jobs
    spc, sproc,    \* what the HTTP thread submitting a job is doing, and where
    outages,       \* dependency failures so far
    restarts       \* crashes and shutdowns so far

db     == <<status, events>>
super  == <<lock, phase, failed>>
pool   == <<scheduled, free, queue>>
worker == <<wpc, wjob>>
loop   == <<lpc, todo, cur>>
submit == <<spc, sproc>>
bounds == <<outages, restarts>>
vars == <<status, events, lock, phase, failed, scheduled, interrupted, free,
           queue, wpc, wjob, lpc, todo, cur, spc, sproc, outages, restarts>>

Life == INSTANCE AgentJobLifecycle WITH status <- status, events <- events

NoJob == 0

Phase == {"down", "starting", "up", "closing", "draining", "released"}
WPc   == {"idle", "get", "claim", "run", "mark", "unsched", "release"}
LPc   == {"off", "boot", "list", "check", "admit", "wait", "requeue", "discard"}
SPc   == {"new", "check", "admit", "reject", "done"}

(* The type invariant of the runtime. *)
TypeOK ==
    /\ status \in [Jobs -> Life!Status]
    /\ events \in [Jobs -> Seq(Life!Kind)]
    /\ lock \in Procs \cup {NoProc}
    /\ phase \in [Procs -> Phase]
    /\ failed \in [Procs -> BOOLEAN]
    /\ scheduled \in [Procs -> SUBSET Jobs]
    /\ interrupted \in [Procs -> SUBSET Jobs]
    /\ free \in [Procs -> Nat]
    /\ queue \in [Procs -> Seq(Jobs)]
    /\ wpc \in [Procs -> [Workers -> WPc]]
    /\ wjob \in [Procs -> [Workers -> Jobs \cup {NoJob}]]
    /\ lpc \in [Procs -> LPc]
    /\ todo \in [Procs -> SUBSET Jobs]
    /\ cur \in [Procs -> Jobs \cup {NoJob}]
    /\ spc \in [Jobs -> SPc]
    /\ sproc \in [Jobs -> Procs \cup {NoProc}]
    /\ outages \in 0..MaxOutages
    /\ restarts \in 0..MaxRestarts

Init ==
    /\ Life!Init
    /\ lock = NoProc
    /\ phase = [p \in Procs |-> "down"]
    /\ failed = [p \in Procs |-> FALSE]
    /\ scheduled = [p \in Procs |-> {}]
    /\ interrupted = [p \in Procs |-> {}]
    /\ free = [p \in Procs |-> MaxPending]
    /\ queue = [p \in Procs |-> <<>>]
    /\ wpc = [p \in Procs |-> [w \in Workers |-> "idle"]]
    /\ wjob = [p \in Procs |-> [w \in Workers |-> NoJob]]
    /\ lpc = [p \in Procs |-> "off"]
    /\ todo = [p \in Procs |-> {}]
    /\ cur = [p \in Procs |-> NoJob]
    /\ spc = [j \in Jobs |-> "new"]
    /\ sproc = [j \in Jobs |-> NoProc]
    /\ outages = 0
    /\ restarts = 0

---------------------------------------------------------------------------
(* The environment of a database or probe call.                            *)

(* The call raises AgentJobUnavailableError, or the readiness probe of the *)
(* evidence store answers no.                                              *)
Fault == /\ outages < MaxOutages
         /\ outages' = outages + 1

NoFault == UNCHANGED outages

InStatus(s) == {j \in Jobs : status[j] = s}

---------------------------------------------------------------------------
(* _schedule and the dispatcher.  The lease and the probe are looked at    *)
(* with no lock held; the job is admitted in a later critical section.     *)

Checkable(p, j) == ~failed[p] /\ j \notin scheduled[p]

(* The first half of _schedule returns None. *)
CheckRefuses(p, j) ==
    \/ /\ ~Checkable(p, j)
       /\ UNCHANGED failed
       /\ NoFault
    \/ /\ Checkable(p, j)
       /\ lock # p
       /\ failed' = IF phase[p] = "starting" THEN failed
                                              ELSE [failed EXCEPT ![p] = TRUE]
       /\ NoFault
    \/ /\ Checkable(p, j)
       /\ lock = p
       /\ UNCHANGED failed
       /\ Fault

CheckPasses(p, j) == /\ Checkable(p, j)
                     /\ lock = p
                     /\ UNCHANGED failed
                     /\ NoFault

(* Slip: dispatch forgets to acquire a permit first. *)
HasRoomNoPermit(p) == phase[p] \in {"starting", "up", "closing"}

(* BoundedThreadPoolAgentJobDispatcher.dispatch would accept. *)
HasRoom(p) == /\ phase[p] \in {"starting", "up", "closing"}
              /\ free[p] > 0

(* Slip: the second half of _schedule does not look at the set again. *)
AdmitNoRecheck(p, j) == /\ HasRoom(p)
                        /\ scheduled' = [scheduled EXCEPT ![p] = @ \cup {j}]
                        /\ free' = [free EXCEPT ![p] = @ - 1]
                        /\ queue' = [queue EXCEPT ![p] = Append(@, j)]

(* The second half of _schedule admits one callback for j. *)
Admit(p, j) == /\ j \notin scheduled[p]
               /\ HasRoom(p)
               /\ scheduled' = [scheduled EXCEPT ![p] = @ \cup {j}]
               /\ free' = [free EXCEPT ![p] = @ - 1]
               /\ queue' = [queue EXCEPT ![p] = Append(@, j)]

(* ... returns None, another thread admitted j first. *)
AlreadyAdmitted(p, j) == j \in scheduled[p] /\ UNCHANGED pool

(* ... returns False: the dispatcher is closed or has no permit left. *)
Saturated(p, j) == j \notin scheduled[p] /\ ~HasRoom(p) /\ UNCHANGED pool

---------------------------------------------------------------------------
(* An executor thread running _run(_execute_scheduled(job)).               *)

Goto(p, w, l) == wpc' = [wpc EXCEPT ![p][w] = l]

(* The executor hands the oldest accepted callback to an idle thread. *)
WTake(p, w) ==
    /\ wpc[p][w] = "idle"
    /\ queue[p] # <<>>
    /\ queue' = [queue EXCEPT ![p] = Tail(@)]
    /\ wjob' = [wjob EXCEPT ![p][w] = Head(queue[p])]
    /\ Goto(p, w, "get")
    /\ UNCHANGED <<db, super, scheduled, interrupted, free, loop, submit, bounds>>

(* execute: read the row, and stop if the job has already ended. *)
WGet(p, w) ==
    /\ wpc[p][w] = "get"
    /\ \/ /\ status[wjob[p][w]] \in Life!Terminal
          /\ Goto(p, w, "unsched")
          /\ NoFault
       \/ /\ status[wjob[p][w]] \notin Life!Terminal
          /\ Goto(p, w, "claim")
          /\ NoFault
       \/ /\ Fault
          /\ Goto(p, w, "mark")
    /\ UNCHANGED <<db, super, pool, interrupted, wjob, loop, submit, restarts>>

(* execute: claim_with_event.  The row lock makes one claimer win; the     *)
(* others stop, by None when the job runs and by AgentJobTransitionError   *)
(* when it ended.  An outage may hit before or after the commit.           *)
WClaim(p, w) ==
    /\ wpc[p][w] = "claim"
    /\ \/ /\ Life!Claim(wjob[p][w])
          /\ \/ Goto(p, w, "run") /\ NoFault
             \/ Goto(p, w, "mark") /\ Fault
       \/ /\ UNCHANGED db
          /\ Goto(p, w, "mark")
          /\ Fault
       \/ /\ status[wjob[p][w]] # "queued" \/ ClockSteps
          /\ UNCHANGED db
          /\ Goto(p, w, "unsched")
          /\ NoFault
    /\ UNCHANGED <<super, pool, interrupted, wjob, loop, submit, restarts>>

(* execute: the conversation returns or raises, and complete_with_event or *)
(* fail_with_event stores the outcome if the row still says running.  A    *)
(* clock behind started_at makes the new row invalid (ValueError).         *)
WFinish(p, w) ==
    /\ wpc[p][w] = "run"
    /\ \/ \E o \in Life!Terminal :
             /\ Life!Finish(wjob[p][w], o)
             /\ \/ Goto(p, w, "unsched") /\ NoFault
                \/ Goto(p, w, "mark") /\ Fault
       \/ /\ UNCHANGED db
          /\ Goto(p, w, "mark")
          /\ Fault
       \/ /\ status[wjob[p][w]] # "running" \/ ClockSteps
          /\ UNCHANGED db
          /\ Goto(p, w, "unsched")
          /\ NoFault
    /\ UNCHANGED <<super, pool, interrupted, wjob, loop, submit, restarts>>

(* Slip: the outage is swallowed and nobody is told. *)
WMarkSwallowed(p, w) ==
    /\ wpc[p][w] = "mark"
    /\ Goto(p, w, "unsched")
    /\ UNCHANGED <<db, super, pool, interrupted, wjob, loop, submit, bounds>>

(* _execute_scheduled: an outage leaves the job to the recovery thread. *)
WMark(p, w) ==
    /\ wpc[p][w] = "mark"
    /\ interrupted' = [interrupted EXCEPT ![p] = @ \cup {wjob[p][w]}]
    /\ Goto(p, w, "unsched")
    /\ UNCHANGED <<db, super, pool, wjob, loop, submit, bounds>>

(* Slip: the job stays in _scheduled_job_ids after its callback. *)
WUnschedMissing(p, w) ==
    /\ wpc[p][w] = "unsched"
    /\ Goto(p, w, "release")
    /\ UNCHANGED <<db, super, pool, interrupted, wjob, loop, submit, bounds>>

(* _execute_scheduled, finally: the job may be admitted again. *)
WUnsched(p, w) ==
    /\ wpc[p][w] = "unsched"
    /\ scheduled' = [scheduled EXCEPT ![p] = @ \ {wjob[p][w]}]
    /\ Goto(p, w, "release")
    /\ UNCHANGED <<db, super, interrupted, free, queue, wjob, loop, submit, bounds>>

(* Slip: the permit is not returned. *)
WReleaseLeaks(p, w) ==
    /\ wpc[p][w] = "release"
    /\ wjob' = [wjob EXCEPT ![p][w] = NoJob]
    /\ Goto(p, w, "idle")
    /\ UNCHANGED <<db, super, pool, interrupted, loop, submit, bounds>>

(* _run, finally: the permit goes back to the semaphore. *)
WRelease(p, w) ==
    /\ wpc[p][w] = "release"
    /\ free' = [free EXCEPT ![p] = @ + 1]
    /\ wjob' = [wjob EXCEPT ![p][w] = NoJob]
    /\ Goto(p, w, "idle")
    /\ UNCHANGED <<db, super, scheduled, interrupted, queue, loop, submit, bounds>>

---------------------------------------------------------------------------
(* The recovery thread, and the startup pass that precedes it.             *)

At(p, l) == lpc' = [lpc EXCEPT ![p] = l]

(* A startup that raises closes the dispatcher and gives the lease back. *)
BootFails(p) == /\ phase' = [phase EXCEPT ![p] = "draining"]
                /\ queue' = [queue EXCEPT ![p] = <<>>]
                /\ At(p, "off")

(* Slip: the answer of pg_try_advisory_lock is ignored. *)
StartAnyway(p) ==
    /\ phase[p] = "down"
    /\ lock' = p
    /\ phase' = [phase EXCEPT ![p] = "starting"]
    /\ At(p, "boot")
    /\ UNCHANGED <<db, failed, pool, interrupted, worker, todo, cur, submit, bounds>>

(* start_recovery_supervisor: only the lock holder goes on. *)
Start(p) ==
    /\ phase[p] = "down"
    /\ lock = NoProc
    /\ lock' = p
    /\ phase' = [phase EXCEPT ![p] = "starting"]
    /\ At(p, "boot")
    /\ UNCHANGED <<db, failed, pool, interrupted, worker, todo, cur, submit, bounds>>

(* _recover_interrupted_jobs: one batch, in one transaction; a short batch *)
(* is the last.                                                            *)
Boot(p) ==
    /\ lpc[p] = "boot"
    /\ \/ \E B \in SUBSET InStatus("running") :
             /\ \/ Cardinality(B) = BatchSize
                \/ B = InStatus("running") /\ Cardinality(B) < BatchSize
             /\ Life!Recover(B)
             /\ \/ /\ At(p, IF Cardinality(B) < BatchSize THEN "list" ELSE "boot")
                   /\ UNCHANGED <<phase, queue>>
                   /\ NoFault
                \/ BootFails(p) /\ Fault
       \/ UNCHANGED db /\ BootFails(p) /\ Fault
    /\ UNCHANGED <<lock, failed, scheduled, free, interrupted, worker, todo, cur,
                   submit, restarts>>

(* list_queued: the first recovery_batch_size queued rows. *)
Listed == {j \in InStatus("queued") :
              Cardinality({k \in InStatus("queued") : k < j}) < BatchSize}

(* _dispatch_queued_once reads its batch. *)
LoopList(p) ==
    /\ lpc[p] = "list"
    /\ \/ /\ todo' = [todo EXCEPT ![p] = Listed]
          /\ At(p, "check")
          /\ UNCHANGED <<phase, queue>>
          /\ NoFault
       \/ /\ phase[p] = "starting"
          /\ BootFails(p)
          /\ UNCHANGED todo
          /\ Fault
       \/ /\ phase[p] # "starting"
          /\ At(p, "wait")
          /\ UNCHANGED <<phase, queue, todo>>
          /\ Fault
    /\ UNCHANGED <<db, lock, failed, scheduled, free, interrupted, worker, cur,
                   submit, restarts>>

Earliest(j, S) == j \in S /\ \A k \in S : j <= k

(* _dispatch_queued_once: _schedule, first half, for the next listed job. *)
LoopCheck(p) ==
    /\ lpc[p] = "check"
    /\ \E j \in Jobs :
         /\ Earliest(j, todo[p])
         /\ \/ /\ CheckRefuses(p, j)
               /\ todo' = [todo EXCEPT ![p] = @ \ {j}]
               /\ UNCHANGED lpc
            \/ /\ CheckPasses(p, j)
               /\ At(p, "admit")
               /\ UNCHANGED todo
    /\ UNCHANGED <<db, lock, phase, pool, interrupted, worker, cur, submit, restarts>>

(* _dispatch_queued_once: _schedule, second half; False ends the pass. *)
LoopAdmit(p) ==
    /\ lpc[p] = "admit"
    /\ \E j \in Jobs :
         /\ Earliest(j, todo[p])
         /\ \/ /\ Admit(p, j) \/ AlreadyAdmitted(p, j)
               /\ todo' = [todo EXCEPT ![p] = @ \ {j}]
            \/ /\ Saturated(p, j)
               /\ todo' = [todo EXCEPT ![p] = {}]
    /\ At(p, "check")
    /\ UNCHANGED <<db, super, interrupted, worker, cur, submit, bounds>>

(* The pass is over.  After the startup pass the process becomes ready. *)
LoopPassDone(p) ==
    /\ lpc[p] = "check"
    /\ todo[p] = {}
    /\ At(p, "wait")
    /\ phase' = [phase EXCEPT ![p] = IF @ = "starting" THEN "up" ELSE @]
    /\ UNCHANGED <<db, lock, failed, pool, interrupted, worker, todo, cur, submit,
                   bounds>>

(* Slip: the marks are taken away when they are copied. *)
LoopWakeTakes(p) ==
    /\ lpc[p] = "wait"
    /\ phase[p] = "up"
    /\ \/ /\ lock = p
          /\ todo' = [todo EXCEPT ![p] = interrupted[p]]
          /\ interrupted' = [interrupted EXCEPT ![p] = {}]
          /\ At(p, "requeue")
          /\ UNCHANGED failed
       \/ /\ lock # p
          /\ failed' = [failed EXCEPT ![p] = TRUE]
          /\ At(p, "off")
          /\ UNCHANGED <<todo, interrupted>>
    /\ UNCHANGED <<db, lock, phase, pool, worker, cur, submit, bounds>>

(* _recovery_loop: the scan interval elapsed.  A lost lease ends the       *)
(* thread; otherwise the interrupted jobs are copied under the lock.       *)
LoopWake(p) ==
    /\ lpc[p] = "wait"
    /\ phase[p] = "up"
    /\ \/ /\ lock = p
          /\ todo' = [todo EXCEPT ![p] = interrupted[p]]
          /\ At(p, "requeue")
          /\ UNCHANGED failed
       \/ /\ lock # p
          /\ failed' = [failed EXCEPT ![p] = TRUE]
          /\ At(p, "off")
          /\ UNCHANGED todo
    /\ UNCHANGED <<db, lock, phase, pool, interrupted, worker, cur, submit, bounds>>

(* _recovery_loop: the stop event is set. *)
LoopStop(p) ==
    /\ lpc[p] = "wait"
    /\ phase[p] \in {"closing", "draining", "released"}
    /\ At(p, "off")
    /\ UNCHANGED <<db, super, pool, interrupted, worker, todo, cur, submit, bounds>>

(* _recover_local_interruptions_once: requeue_running_job_with_event for   *)
(* one job of the copy.  An outage abandons the pass.                      *)
LoopRequeue(p) ==
    /\ lpc[p] = "requeue"
    /\ \E j \in todo[p] :
         \/ /\ Life!Recover({j}) \/ (status[j] # "running" /\ UNCHANGED db)
            /\ At(p, "discard")
            /\ cur' = [cur EXCEPT ![p] = j]
            /\ UNCHANGED todo
            /\ NoFault
         \/ /\ Life!Recover({j}) \/ UNCHANGED db
            /\ At(p, "wait")
            /\ todo' = [todo EXCEPT ![p] = {}]
            /\ UNCHANGED cur
            /\ Fault
    /\ UNCHANGED <<super, pool, interrupted, worker, submit, restarts>>

(* ... and then, in another critical section, forget the interruption. *)
LoopDiscard(p) ==
    /\ lpc[p] = "discard"
    /\ interrupted' = [interrupted EXCEPT ![p] = @ \ {cur[p]}]
    /\ todo' = [todo EXCEPT ![p] = @ \ {cur[p]}]
    /\ cur' = [cur EXCEPT ![p] = NoJob]
    /\ At(p, "requeue")
    /\ UNCHANGED <<db, super, pool, worker, submit, bounds>>

(* Nothing left to requeue: go on to the queued jobs. *)
LoopRequeued(p) ==
    /\ lpc[p] = "requeue"
    /\ todo[p] = {}
    /\ At(p, "list")
    /\ UNCHANGED <<db, super, pool, interrupted, worker, todo, cur, submit, bounds>>

---------------------------------------------------------------------------
(* An HTTP thread inside submit.                                           *)

SGoto(j, l) == spc' = [spc EXCEPT ![j] = l]

(* create.  A request that fails before the commit is sent again by the    *)
(* client; one that fails after it finds its row there and schedules       *)
(* nothing.                                                                *)
SCreate(j, p) ==
    /\ spc[j] = "new"
    /\ phase[p] = "up"
    /\ \/ /\ Life!Create(j)
          /\ \/ SGoto(j, "check") /\ sproc' = [sproc EXCEPT ![j] = p] /\ NoFault
             \/ SGoto(j, "done") /\ UNCHANGED sproc /\ Fault
       \/ UNCHANGED <<db, submit>> /\ Fault
    /\ UNCHANGED <<super, pool, interrupted, worker, loop, restarts>>

SCheck(j) ==
    /\ spc[j] = "check"
    /\ \/ CheckRefuses(sproc[j], j) /\ SGoto(j, "done")
       \/ CheckPasses(sproc[j], j) /\ SGoto(j, "admit")
    /\ UNCHANGED <<db, lock, phase, pool, interrupted, worker, loop, sproc, restarts>>

SAdmit(j) ==
    /\ spc[j] = "admit"
    /\ \/ /\ Admit(sproc[j], j) \/ AlreadyAdmitted(sproc[j], j)
          /\ SGoto(j, "done")
       \/ /\ Saturated(sproc[j], j)
          /\ SGoto(j, "reject")
    /\ UNCHANGED <<db, super, interrupted, worker, loop, sproc, bounds>>

(* reject_with_event, which loses safely to a claim. *)
SReject(j) ==
    /\ spc[j] = "reject"
    /\ \/ Life!Reject(j) /\ NoFault
       \/ Life!Reject(j) /\ Fault
       \/ UNCHANGED db /\ Fault
       \/ /\ status[j] # "queued" \/ ClockSteps
          /\ UNCHANGED db
          /\ NoFault
    /\ SGoto(j, "done")
    /\ UNCHANGED <<super, pool, interrupted, worker, loop, sproc, restarts>>

---------------------------------------------------------------------------
(* Process and lease life cycle.                                           *)

MayRestart == /\ restarts < MaxRestarts
              /\ restarts' = restarts + 1

Unlock(p) == lock' = IF lock = p THEN NoProc ELSE lock

(* The memory of p is gone, with every thread in it. *)
Forget(p) ==
    /\ phase' = [phase EXCEPT ![p] = "down"]
    /\ failed' = [failed EXCEPT ![p] = FALSE]
    /\ scheduled' = [scheduled EXCEPT ![p] = {}]
    /\ interrupted' = [interrupted EXCEPT ![p] = {}]
    /\ free' = [free EXCEPT ![p] = MaxPending]
    /\ queue' = [queue EXCEPT ![p] = <<>>]
    /\ wpc' = [wpc EXCEPT ![p] = [w \in Workers |-> "idle"]]
    /\ wjob' = [wjob EXCEPT ![p] = [w \in Workers |-> NoJob]]
    /\ lpc' = [lpc EXCEPT ![p] = "off"]
    /\ todo' = [todo EXCEPT ![p] = {}]
    /\ cur' = [cur EXCEPT ![p] = NoJob]
    /\ spc' = [j \in Jobs |-> IF sproc[j] = p THEN "done" ELSE spc[j]]
    /\ UNCHANGED <<db, sproc, outages>>

Crash(p) == /\ phase[p] # "down"
            /\ MayRestart
            /\ Unlock(p)
            /\ Forget(p)

(* close: set the stop event ... *)
Close(p) ==
    /\ phase[p] = "up"
    /\ MayRestart
    /\ phase' = [phase EXCEPT ![p] = "closing"]
    /\ UNCHANGED <<db, lock, failed, pool, interrupted, worker, loop, submit, outages>>

(* ... wait for the recovery thread, but no longer than the shutdown       *)
(* timeout, then refuse new callbacks and cancel the ones not started ...  *)
CloseDispatcher(p) ==
    /\ phase[p] = "closing"
    /\ phase' = [phase EXCEPT ![p] = "draining"]
    /\ queue' = [queue EXCEPT ![p] = <<>>]
    /\ UNCHANGED <<db, lock, failed, scheduled, free, interrupted, worker, loop,
                   submit, bounds>>

(* Slip: shutdown does not wait for the running callbacks. *)
ReleaseLeaseEarly(p) ==
    /\ phase[p] = "draining"
    /\ Unlock(p)
    /\ phase' = [phase EXCEPT ![p] = "released"]
    /\ UNCHANGED <<db, failed, pool, interrupted, worker, loop, submit, bounds>>

(* ... and release the lease once the running callbacks have returned. *)
ReleaseLease(p) ==
    /\ phase[p] = "draining"
    /\ \A w \in Workers : wpc[p][w] = "idle"
    /\ Unlock(p)
    /\ phase' = [phase EXCEPT ![p] = "released"]
    /\ UNCHANGED <<db, failed, pool, interrupted, worker, loop, submit, bounds>>

Exit(p) == /\ phase[p] = "released"
           /\ Forget(p)
           /\ UNCHANGED <<lock, restarts>>

(* PostgreSQL ends the session that holds the advisory lock. *)
LoseLease(p) ==
    /\ LeaseLoss
    /\ lock = p
    /\ lock' = NoProc
    /\ UNCHANGED <<db, phase, failed, pool, interrupted, worker, loop, submit, bounds>>

(* recovery_ready, as the readiness endpoint evaluates it. *)
Readiness(p) ==
    /\ phase[p] = "up"
    /\ ~failed[p]
    /\ lock # p
    /\ failed' = [failed EXCEPT ![p] = TRUE]
    /\ UNCHANGED <<db, lock, phase, pool, interrupted, worker, loop, submit, bounds>>

---------------------------------------------------------------------------

WStep(p, w) == \/ WTake(p, w) \/ WGet(p, w) \/ WClaim(p, w) \/ WFinish(p, w)
               \/ WMark(p, w) \/ WUnsched(p, w) \/ WRelease(p, w)

LoopStep(p) == \/ Boot(p) \/ LoopList(p) \/ LoopCheck(p) \/ LoopAdmit(p)
               \/ LoopPassDone(p) \/ LoopWake(p) \/ LoopStop(p)
               \/ LoopRequeue(p) \/ LoopDiscard(p) \/ LoopRequeued(p)

SStep(j) == SCheck(j) \/ SAdmit(j) \/ SReject(j)

CloseStep(p) == CloseDispatcher(p) \/ ReleaseLease(p) \/ Exit(p)

ProcStep(p) == \/ Start(p) \/ LoopStep(p) \/ CloseStep(p)
               \/ Crash(p) \/ Close(p) \/ LoseLease(p) \/ Readiness(p)

Next == \/ \E p \in Procs : ProcStep(p)
        \/ \E p \in Procs, w \in Workers : WStep(p, w)
        \/ \E j \in Jobs : SStep(j)
        \/ \E j \in Jobs, p \in Procs : SCreate(j, p)

Spec == Init /\ [][Next]_vars

(***************************************************************************)
(* Fairness: every thread of a live process is eventually scheduled, the   *)
(* conversation always returns (it runs under a deadline), and the         *)
(* container restart policy brings a stopped process back.  Requests,      *)
(* crashes, shutdowns and the loss of the lease are never forced.          *)
(***************************************************************************)
Fairness == /\ \A p \in Procs : WF_vars(Start(p) \/ LoopStep(p) \/ CloseStep(p))
            /\ \A p \in Procs, w \in Workers : WF_vars(WStep(p, w))
            /\ \A j \in Jobs : WF_vars(SStep(j))

FairSpec == Spec /\ Fairness

---------------------------------------------------------------------------
(* Properties.                                                             *)

(* The dispatcher of a process is open. *)
Serving == {"starting", "up", "closing"}

(* A callback of process p holds its job between being admitted and taking *)
(* the job out of _scheduled_job_ids.                                      *)
Busy == {"get", "claim", "run", "mark", "unsched"}
Pending(p) == {queue[p][i] : i \in DOMAIN queue[p]}
InHand(p)  == {wjob[p][w] : w \in {v \in Workers : wpc[p][v] \in Busy}}

Occupied(p) == {w \in Workers : wpc[p][w] # "idle"}

OneCallback(p) ==
    /\ phase[p] \in Serving => scheduled[p] = Pending(p) \cup InHand(p)
    /\ Pending(p) \cap InHand(p) = {}
    /\ \A i, k \in DOMAIN queue[p] : queue[p][i] = queue[p][k] => i = k
    /\ \A w, v \in Workers :
          (wpc[p][w] \in Busy /\ wpc[p][v] \in Busy /\ w # v)
             => wjob[p][w] # wjob[p][v]

(* _scheduled_job_ids does its work: while the dispatcher is open, a job   *)
(* is in it exactly when one callback for it is in flight, and there is    *)
(* never a second one.  A job left behind in the set could never be        *)
(* scheduled again; one missing from it could be scheduled twice.          *)
OneCallbackPerJob == \A p \in Procs : OneCallback(p)

(* No job is executed by two threads at once, in one process or in two:    *)
(* the advisory lock, the scheduled set and the draining of callbacks      *)
(* before the lock is released keep the executions of a job apart.         *)
SingleExecution ==
    \A p, q \in Procs : \A w, v \in Workers :
       /\ wpc[p][w] = "run"
       /\ wpc[q][v] = "run"
       /\ wjob[p][w] = wjob[q][v]
       => p = q /\ w = v

(* The dispatcher neither leaks nor invents permits: those left, the       *)
(* waiting callbacks and the busy threads always add up to pending_limit.  *)
PermitsAccounted ==
    \A p \in Procs : phase[p] \in Serving =>
       free[p] + Len(queue[p]) + Cardinality(Occupied(p)) = MaxPending

(* Live work is not put back to the queue under the thread that executes   *)
(* it, not by the startup pass of another process and not by the recovery  *)
(* thread, unless an earlier outage of the same job left a mark in         *)
(* _interrupted_job_ids that no pass has taken away yet.                   *)
LiveWorkKept ==
    [][\A p \in Procs : \A w \in Workers : LET j == wjob[p][w] IN
          /\ wpc[p][w] = "run"
          /\ status[j] = "running"
          /\ status'[j] = "queued"
          => \E q \in Procs : j \in interrupted[q]]_vars

(* Somebody will still bring j to an end: a thread has it, or the recovery *)
(* thread of p knows that it was interrupted.                              *)
Followed(p, j) ==
    \/ j \in interrupted[p]
    \/ \E q \in Procs : \E w \in Workers :
          wjob[q][w] = j /\ wpc[q][w] \in {"run", "mark"}

(* No running job is orphaned while a supervisor serves: a thread of it    *)
(* still has the job, or the recovery thread knows it was interrupted.     *)
NoOrphan ==
    \A p \in Procs : phase[p] = "up" =>
       \A j \in Jobs : status[j] = "running" => Followed(p, j)

(* The startup recovery of p is behind it and its supervisor works. *)
Serves(p) == phase[p] \in {"starting", "up"} /\ lpc[p] # "boot"

Orphan(p, j) == Serves(p) /\ status[j] = "running" /\ ~Followed(p, j)

(* The recovery thread takes away a mark, between whose requeue and this   *)
(* step the job was claimed and interrupted once more.                     *)
SharedMark(p, j) ==
    /\ lpc[p] = "discard" /\ lpc'[p] = "requeue"
    /\ cur[p] = j
    /\ status[j] = "running"

(* A thread drops a job whose outcome the stored instants refuse. *)
RefusedOutcome(j) ==
    /\ ClockSteps
    /\ \E p \in Procs : \E w \in Workers :
          wjob[p][w] = j /\ wpc[p][w] = "run" /\ wpc'[p][w] = "unsched"

(* However many outages, crashes and clock steps there are, a running job  *)
(* is left behind in two ways only: two interruptions shared one mark, or  *)
(* the clock stepped back behind started_at.  A process that has finished  *)
(* its startup recovery begins with no job left behind.                    *)
OrphansExplained ==
    [][\A p \in Procs : \A j \in Jobs :
          Orphan(p, j)' => Orphan(p, j) \/ SharedMark(p, j) \/ RefusedOutcome(j)]_vars

(* The event log that SSE clients replay always tells the story the row    *)
(* tells, and ends at most once (see AgentJobLifecycle).                   *)
EventLogCoherent == Life!LogCoherent

(* A job that was stored ends: restarts, outages and saturation only       *)
(* delay it.                                                               *)
StoredJobsEnd ==
    \A j \in Jobs : (status[j] # "absent") ~> (status[j] \in Life!Terminal)
=============================================================================
