------------------------- MODULE AgentJobsProofs -------------------------
(***************************************************************************)
(* Proofs about the agent-job runtime, for any sets of jobs, processes and *)
(* executor threads and any limits.                                        *)
(***************************************************************************)
EXTENDS AgentJobs, FiniteSetTheorems, TLAPS

USE DEF NoJob

(* A thread that is not idle has a job, an HTTP thread inside submit runs  *)
(* in a process.                                                           *)
ThreadsPlaced ==
    /\ \A p \in Procs, w \in Workers : wpc[p][w] # "idle" => wjob[p][w] \in Jobs
    /\ \A j \in Jobs : spc[j] \in {"check", "admit", "reject"} => sproc[j] \in Procs

LEMMA OutageTypes ==
    ASSUME outages \in 0..MaxOutages, Fault \/ NoFault
    PROVE  outages' \in 0..MaxOutages
BY BoundAssumption DEF Fault, NoFault

LEMMA WriteTypes ==
    ASSUME status \in [Jobs -> Life!Status], events \in [Jobs -> Seq(Life!Kind)],
           NEW j \in Jobs, NEW s \in Life!Status, NEW k \in Life!Kind,
           Life!Write(j, s, k)
    PROVE  /\ status' \in [Jobs -> Life!Status]
           /\ events' \in [Jobs -> Seq(Life!Kind)]
BY DEF Life!Write

LEMMA GotoTypes ==
    ASSUME wpc \in [Procs -> [Workers -> WPc]], NEW p \in Procs, NEW w \in Workers,
           NEW l \in WPc, Goto(p, w, l)
    PROVE  /\ wpc' \in [Procs -> [Workers -> WPc]]
           /\ wpc'[p][w] = l
           /\ \A q \in Procs, v \in Workers : <<q, v>> # <<p, w>> => wpc'[q][v] = wpc[q][v]
BY DEF Goto

(* Every step of the runtime is a step of one of its threads. *)
LEMMA WorkerTypes ==
    ASSUME TypeOK, ThreadsPlaced, NEW p \in Procs, NEW w \in Workers, WStep(p, w)
    PROVE  TypeOK' /\ ThreadsPlaced'
<1> USE DEF TypeOK, ThreadsPlaced, db, super, pool, loop, submit, bounds
<1>0. \A l \in WPc : Goto(p, w, l) =>
          /\ wpc' \in [Procs -> [Workers -> WPc]]
          /\ wpc'[p][w] = l
          /\ \A q \in Procs, v \in Workers : wpc'[q][v] # "idle" => wpc[q][v] # "idle" \/ (q = p /\ v = w)
   BY GotoTypes
<1>a. {"get", "claim", "run", "mark", "unsched", "release", "idle"} \subseteq WPc
   BY DEF WPc
<1>1. CASE WTake(p, w) BY <1>0, <1>a, <1>1 DEF WTake
<1>2. CASE WGet(p, w)
  <2>1. outages' \in 0..MaxOutages BY <1>2, OutageTypes DEF WGet
  <2>3. wpc' \in [Procs -> [Workers -> WPc]] BY <1>0, <1>a, <1>2 DEF WGet
  <2>4. ThreadsPlaced' BY <1>0, <1>a, <1>2 DEF WGet
  <2> QED BY <1>2, <2>1, <2>3, <2>4 DEF WGet
<1>3. CASE WClaim(p, w) 
  <2>1. outages' \in 0..MaxOutages BY <1>3, OutageTypes DEF WClaim
  <2>2. /\ status' \in [Jobs -> Life!Status]
        /\ events' \in [Jobs -> Seq(Life!Kind)]
     BY <1>3, WriteTypes DEF WClaim, Life!Claim, Life!Status, Life!Kind
  <2>3. wpc' \in [Procs -> [Workers -> WPc]] BY <1>0, <1>a, <1>3 DEF WClaim
  <2>4. ThreadsPlaced' BY <1>0, <1>a, <1>3 DEF WClaim
  <2> QED BY <1>3, <2>1, <2>2, <2>3, <2>4 DEF WClaim
<1>4. CASE WFinish(p, w)
  <2>1. outages' \in 0..MaxOutages BY <1>4, OutageTypes DEF WFinish
  <2>2. /\ status' \in [Jobs -> Life!Status]
        /\ events' \in [Jobs -> Seq(Life!Kind)]
     BY <1>4, WriteTypes DEF WFinish, Life!Finish, Life!Status, Life!Kind, Life!Terminal
  <2>3. wpc' \in [Procs -> [Workers -> WPc]] BY <1>0, <1>a, <1>4 DEF WFinish
  <2>4. ThreadsPlaced' BY <1>0, <1>a, <1>4 DEF WFinish
  <2> QED BY <1>4, <2>1, <2>2, <2>3, <2>4 DEF WFinish
<1>5. CASE WMark(p, w) BY <1>0, <1>a, <1>5 DEF WMark
<1>6. CASE WUnsched(p, w) BY <1>0, <1>a, <1>6 DEF WUnsched
<1>7. CASE WRelease(p, w) BY <1>0, <1>a, <1>7 DEF WRelease
<1> QED BY <1>1, <1>2, <1>3, <1>4, <1>5, <1>6, <1>7 DEF WStep

LEMMA RecoverTypes ==
    ASSUME status \in [Jobs -> Life!Status], events \in [Jobs -> Seq(Life!Kind)],
           NEW S, Life!Recover(S)
    PROVE  /\ status' \in [Jobs -> Life!Status]
           /\ events' \in [Jobs -> Seq(Life!Kind)]
<1>1. status' \in [Jobs -> Life!Status] BY DEF Life!Recover, Life!Status
<1>2. events' \in [Jobs -> Seq(Life!Kind)] BY DEF Life!Recover, Life!Kind
<1> QED BY <1>1, <1>2

LEMMA ScheduleTypes ==
    ASSUME TypeOK, NEW p \in Procs, NEW j \in Jobs
    PROVE  /\ CheckRefuses(p, j) \/ CheckPasses(p, j) =>
                 /\ failed' \in [Procs -> BOOLEAN]
                 /\ outages' \in 0..MaxOutages
           /\ Admit(p, j) \/ AlreadyAdmitted(p, j) \/ Saturated(p, j) =>
                 /\ scheduled' \in [Procs -> SUBSET Jobs]
                 /\ free' \in [Procs -> Nat]
                 /\ queue' \in [Procs -> Seq(Jobs)]
<1>1. ASSUME CheckRefuses(p, j) \/ CheckPasses(p, j)
      PROVE  failed' \in [Procs -> BOOLEAN] /\ outages' \in 0..MaxOutages
  <2>1. outages' \in 0..MaxOutages
     BY <1>1, OutageTypes DEF TypeOK, CheckRefuses, CheckPasses
  <2>2. failed' \in [Procs -> BOOLEAN]
     BY <1>1 DEF TypeOK, CheckRefuses, CheckPasses
  <2> QED BY <2>1, <2>2
<1>2. ASSUME Admit(p, j) \/ AlreadyAdmitted(p, j) \/ Saturated(p, j)
      PROVE  /\ scheduled' \in [Procs -> SUBSET Jobs]
             /\ free' \in [Procs -> Nat]
             /\ queue' \in [Procs -> Seq(Jobs)]
  <2>1. CASE Admit(p, j) BY <2>1 DEF TypeOK, Admit, HasRoom
  <2>2. CASE AlreadyAdmitted(p, j) \/ Saturated(p, j)
     BY <2>2 DEF TypeOK, AlreadyAdmitted, Saturated, pool
  <2> QED BY <1>2, <2>1, <2>2
<1> QED BY <1>1, <1>2

LEMMA AtTypes ==
    ASSUME lpc \in [Procs -> LPc], NEW p \in Procs, NEW l \in LPc, At(p, l)
    PROVE  lpc' \in [Procs -> LPc] /\ lpc'[p] = l
BY DEF At

LEMMA BootFailsTypes ==
    ASSUME TypeOK, NEW p \in Procs, BootFails(p)
    PROVE  /\ lpc' \in [Procs -> LPc]
           /\ phase' \in [Procs -> Phase]
           /\ queue' \in [Procs -> Seq(Jobs)]
BY DEF TypeOK, BootFails, At, LPc, Phase

LEMMA TodoTypes ==
    ASSUME todo \in [Procs -> SUBSET Jobs], NEW p \in Procs, NEW S \in SUBSET Jobs,
           todo' = [todo EXCEPT ![p] = S]
    PROVE  todo' \in [Procs -> SUBSET Jobs]
OBVIOUS

LEMMA LoopTypes ==
    ASSUME TypeOK, ThreadsPlaced, NEW p \in Procs, LoopStep(p)
    PROVE  TypeOK' /\ ThreadsPlaced'
<1>0. wpc' = wpc /\ wjob' = wjob /\ spc' = spc /\ sproc' = sproc
   BY DEF LoopStep, Boot, LoopList, LoopCheck, LoopAdmit, LoopPassDone, LoopWake,
          LoopStop, LoopRequeue, LoopDiscard, LoopRequeued, worker, submit
<1>1. ThreadsPlaced' BY <1>0 DEF ThreadsPlaced
<1>a. LPc = {"off", "boot", "list", "check", "admit", "wait", "requeue", "discard"}
   BY DEF LPc
<1>b. \A l \in LPc : At(p, l) => lpc' \in [Procs -> LPc] BY AtTypes DEF TypeOK
<1>c. \A S \in SUBSET Jobs :
          todo' = [todo EXCEPT ![p] = S] => todo' \in [Procs -> SUBSET Jobs]
   BY TodoTypes DEF TypeOK
<1>d. todo[p] \subseteq Jobs BY DEF TypeOK
<1> USE <1>a, <1>b, <1>c, <1>d
        DEF TypeOK, db, super, pool, worker, loop, submit, bounds
<1>2. CASE Boot(p)
  <2>1. outages' \in 0..MaxOutages BY <1>2, OutageTypes DEF Boot
  <2>2. /\ status' \in [Jobs -> Life!Status]
        /\ events' \in [Jobs -> Seq(Life!Kind)]
     BY <1>2, RecoverTypes DEF Boot
  <2>3. /\ lpc' \in [Procs -> LPc]
        /\ phase' \in [Procs -> Phase]
        /\ queue' \in [Procs -> Seq(Jobs)]
     BY <1>2, BootFailsTypes DEF Boot
  <2> QED BY <1>1, <1>2, <2>1, <2>2, <2>3 DEF Boot
<1>3. CASE LoopList(p)
  <2>1. outages' \in 0..MaxOutages BY <1>3, OutageTypes DEF LoopList
  <2>2. todo' \in [Procs -> SUBSET Jobs] 
    <3>1. Listed \in SUBSET Jobs BY DEF Listed, InStatus
    <3> QED BY <1>3, <3>1 DEF LoopList
  <2>3. /\ lpc' \in [Procs -> LPc]
        /\ phase' \in [Procs -> Phase]
        /\ queue' \in [Procs -> Seq(Jobs)]
     BY <1>3, BootFailsTypes DEF LoopList
  <2> QED BY <1>1, <1>3, <2>1, <2>2, <2>3 DEF LoopList
<1>4. CASE LoopCheck(p)
  <2>1. failed' \in [Procs -> BOOLEAN] /\ outages' \in 0..MaxOutages
     BY <1>4, ScheduleTypes DEF LoopCheck
  <2>2. lpc' \in [Procs -> LPc] /\ todo' \in [Procs -> SUBSET Jobs]
     BY <1>4 DEF LoopCheck
  <2> QED BY <1>1, <1>4, <2>1, <2>2 DEF LoopCheck
<1>5. CASE LoopAdmit(p)
  <2>1. /\ scheduled' \in [Procs -> SUBSET Jobs]
        /\ free' \in [Procs -> Nat]
        /\ queue' \in [Procs -> Seq(Jobs)]
     BY <1>5, ScheduleTypes DEF LoopAdmit
  <2>2. lpc' \in [Procs -> LPc] /\ todo' \in [Procs -> SUBSET Jobs]
     BY <1>5 DEF LoopAdmit
  <2> QED BY <1>1, <1>5, <2>1, <2>2 DEF LoopAdmit
<1>6. CASE LoopPassDone(p)
  <2>1. phase' \in [Procs -> Phase] BY <1>6 DEF LoopPassDone, Phase
  <2> QED BY <1>1, <1>6, <2>1 DEF LoopPassDone
<1>7. CASE LoopWake(p) BY <1>1, <1>7 DEF LoopWake
<1>8. CASE LoopStop(p) BY <1>1, <1>8 DEF LoopStop
<1>9. CASE LoopRequeue(p)
  <2>1. outages' \in 0..MaxOutages BY <1>9, OutageTypes DEF LoopRequeue
  <2>2. /\ status' \in [Jobs -> Life!Status]
        /\ events' \in [Jobs -> Seq(Life!Kind)]
     BY <1>9, RecoverTypes DEF LoopRequeue
  <2>3. /\ lpc' \in [Procs -> LPc]
        /\ todo' \in [Procs -> SUBSET Jobs]
        /\ cur' \in [Procs -> Jobs \cup {NoJob}]
     BY <1>9 DEF LoopRequeue
  <2> QED BY <1>1, <1>9, <2>1, <2>2, <2>3 DEF LoopRequeue
<1>10. CASE LoopDiscard(p) BY <1>1, <1>10 DEF LoopDiscard
<1>11. CASE LoopRequeued(p) BY <1>1, <1>11 DEF LoopRequeued
<1> QED BY <1>2, <1>3, <1>4, <1>5, <1>6, <1>7, <1>8, <1>9, <1>10, <1>11 DEF LoopStep

LEMMA SubmitTypes ==
    ASSUME TypeOK, ThreadsPlaced, NEW j \in Jobs,
           SStep(j) \/ \E p \in Procs : SCreate(j, p)
    PROVE  TypeOK' /\ ThreadsPlaced'
<1> USE DEF TypeOK, SGoto, db, super, pool, worker, loop, submit, bounds, SPc
<1>1. CASE \E p \in Procs : SCreate(j, p)
  <2>1. PICK p \in Procs : SCreate(j, p) BY <1>1
  <2>2. outages' \in 0..MaxOutages BY <2>1, OutageTypes DEF SCreate
  <2>3. /\ status' \in [Jobs -> Life!Status]
        /\ events' \in [Jobs -> Seq(Life!Kind)]
     BY <2>1, WriteTypes DEF SCreate, Life!Create, Life!Status, Life!Kind
  <2>4. spc' \in [Jobs -> SPc] BY <2>1 DEF SCreate
  <2>6. sproc' \in [Jobs -> Procs \cup {NoProc}] BY <2>1 DEF SCreate
  <2>5. ThreadsPlaced' BY <2>1 DEF SCreate, ThreadsPlaced
  <2> QED BY <2>1, <2>2, <2>3, <2>4, <2>5, <2>6 DEF SCreate
<1>2. CASE SCheck(j)
  <2>0. sproc[j] \in Procs BY <1>2 DEF SCheck, ThreadsPlaced
  <2>1. failed' \in [Procs -> BOOLEAN] /\ outages' \in 0..MaxOutages
     BY <1>2, <2>0, ScheduleTypes DEF SCheck
  <2>2. spc' \in [Jobs -> SPc] BY <1>2 DEF SCheck
  <2>3. ThreadsPlaced' BY <1>2, <2>0 DEF SCheck, ThreadsPlaced
  <2> QED BY <1>2, <2>1, <2>2, <2>3 DEF SCheck
<1>3. CASE SAdmit(j)
  <2>0. sproc[j] \in Procs BY <1>3 DEF SAdmit, ThreadsPlaced
  <2>1. /\ scheduled' \in [Procs -> SUBSET Jobs]
        /\ free' \in [Procs -> Nat]
        /\ queue' \in [Procs -> Seq(Jobs)]
     BY <1>3, <2>0, ScheduleTypes DEF SAdmit
  <2>2. spc' \in [Jobs -> SPc] BY <1>3 DEF SAdmit
  <2>3. ThreadsPlaced' BY <1>3, <2>0 DEF SAdmit, ThreadsPlaced
  <2> QED BY <1>3, <2>1, <2>2, <2>3 DEF SAdmit
<1>4. CASE SReject(j)
  <2>1. outages' \in 0..MaxOutages BY <1>4, OutageTypes DEF SReject
  <2>2. /\ status' \in [Jobs -> Life!Status]
        /\ events' \in [Jobs -> Seq(Life!Kind)]
     BY <1>4, WriteTypes DEF SReject, Life!Reject, Life!Status, Life!Kind, Life!Terminal
  <2>3. spc' \in [Jobs -> SPc] BY <1>4 DEF SReject
  <2>4. ThreadsPlaced' BY <1>4 DEF SReject, ThreadsPlaced
  <2> QED BY <1>4, <2>1, <2>2, <2>3, <2>4 DEF SReject
<1> QED BY <1>1, <1>2, <1>3, <1>4 DEF SStep

LEMMA ForgetTypes ==
    ASSUME TypeOK, ThreadsPlaced, NEW p \in Procs, Forget(p),
           lock' \in Procs \cup {NoProc}, restarts' \in 0..MaxRestarts
    PROVE  TypeOK' /\ ThreadsPlaced'
<1>1. TypeOK'
   BY PendingAssumption DEF TypeOK, Forget, db, Phase, WPc, LPc, SPc
<1>2. ThreadsPlaced'
   BY DEF TypeOK, ThreadsPlaced, Forget
<1> QED BY <1>1, <1>2

LEMMA ProcessTypes ==
    ASSUME TypeOK, ThreadsPlaced, NEW p \in Procs,
           \/ Start(p) \/ CloseStep(p) \/ Crash(p)
           \/ Close(p) \/ LoseLease(p) \/ Readiness(p)
    PROVE  TypeOK' /\ ThreadsPlaced'
<1>0. MayRestart => restarts' \in 0..MaxRestarts
   BY BoundAssumption DEF TypeOK, MayRestart
<1>1. CASE Crash(p) BY <1>0, <1>1, ForgetTypes DEF Crash, Unlock, TypeOK
<1>2. CASE Exit(p) BY <1>2, ForgetTypes DEF Exit, TypeOK
<1> USE DEF TypeOK, ThreadsPlaced, db, super, pool, worker, loop, submit, bounds,
            At, Phase, LPc
<1>3. CASE Start(p) BY <1>3 DEF Start
<1>4. CASE CloseDispatcher(p) BY <1>4 DEF CloseDispatcher
<1>5. CASE ReleaseLease(p) BY <1>5 DEF ReleaseLease, Unlock
<1>6. CASE Close(p) BY <1>0, <1>6 DEF Close
<1>7. CASE LoseLease(p) BY <1>7 DEF LoseLease
<1>8. CASE Readiness(p) BY <1>8 DEF Readiness
<1> QED BY <1>1, <1>2, <1>3, <1>4, <1>5, <1>6, <1>7, <1>8 DEF CloseStep

---------------------------------------------------------------------------
(***************************************************************************)
(* The inductive invariant behind SingleExecution.  OneCallbackPerJob      *)
(* keeps the callbacks of one process apart; the rest keeps the processes  *)
(* apart: a process has callbacks only between taking the advisory lock    *)
(* and releasing it, and without lease loss it holds the lock all along.   *)
(***************************************************************************)

(* What a process that does not serve has left. *)
Quiet(p) ==
    /\ phase[p] = "down" => scheduled[p] = {}
    /\ phase[p] \notin Serving => queue[p] = <<>>
    /\ phase[p] \in {"down", "released"} => \A w \in Workers : wpc[p][w] = "idle"

(* The startup pass belongs to startup, and serving and draining happen    *)
(* under the lock.                                                         *)
UnderLock(p) ==
    /\ lpc[p] = "boot" => phase[p] = "starting"
    /\ ~LeaseLoss => (phase[p] \in Serving \cup {"draining"} => lock = p)

ProcInv(p) == OneCallback(p) /\ Quiet(p) /\ UnderLock(p)

IndInv == TypeOK /\ ThreadsPlaced /\ \A p \in Procs : ProcInv(p)

(* A step that leaves the callbacks of q alone and does not open its       *)
(* dispatcher keeps them apart.                                            *)
LEMMA CallbacksUntouched ==
    ASSUME NEW q \in Procs, OneCallback(q),
           scheduled'[q] = scheduled[q], queue'[q] = queue[q],
           wpc'[q] = wpc[q], wjob'[q] = wjob[q],
           phase'[q] \in Serving => phase[q] \in Serving
    PROVE  OneCallback(q)'
BY DEF OneCallback, Pending, InHand

LEMMA QuietUntouched ==
    ASSUME NEW q \in Procs, Quiet(q),
           scheduled'[q] = scheduled[q], queue'[q] = queue[q],
           wpc'[q] = wpc[q], phase'[q] = phase[q]
    PROVE  Quiet(q)'
BY DEF Quiet

(* Moving a busy thread between the steps of execute changes nothing. *)
LEMMA StaysBusy ==
    ASSUME IndInv, NEW p \in Procs, NEW w \in Workers, NEW l \in Busy,
           wpc[p][w] \in Busy, Goto(p, w, l),
           UNCHANGED <<scheduled, queue, wjob, phase, lock, lpc>>
    PROVE  \A q \in Procs : ProcInv(q)'
<1> SUFFICES ASSUME NEW q \in Procs PROVE ProcInv(q)'
    OBVIOUS
<1>0. ProcInv(q) BY DEF IndInv
<1>1. \A v \in Workers : /\ wpc[q][v] \in Busy <=> wpc'[q][v] \in Busy
                         /\ wpc[q][v] = "idle" <=> wpc'[q][v] = "idle"
   BY DEF IndInv, TypeOK, Goto, Busy
<1>2. InHand(q)' = InHand(q) BY <1>1 DEF InHand
<1>3. OneCallback(q)' BY <1>0, <1>1, <1>2 DEF ProcInv, OneCallback, Pending
<1>4. Quiet(q)' BY <1>0, <1>1 DEF ProcInv, Quiet
<1>5. UnderLock(q)' BY <1>0 DEF ProcInv, UnderLock
<1> QED BY <1>3, <1>4, <1>5 DEF ProcInv

LEMMA TakeInv ==
    ASSUME IndInv, NEW p \in Procs, NEW w \in Workers, WTake(p, w)
    PROVE  \A q \in Procs : ProcInv(q)'
<1> USE DEF super, pool, loop
<1>0. \A q \in Procs : ProcInv(q) BY DEF IndInv
<1>1. /\ wpc[p][w] = "idle" /\ queue[p] # <<>>
      /\ wpc' = [wpc EXCEPT ![p][w] = "get"]
      /\ wjob' = [wjob EXCEPT ![p][w] = Head(queue[p])]
      /\ queue' = [queue EXCEPT ![p] = Tail(@)]
      /\ UNCHANGED <<lock, phase, scheduled, lpc>>
   BY DEF WTake, Goto
<1>2. /\ wpc \in [Procs -> [Workers -> WPc]]
      /\ wjob \in [Procs -> [Workers -> Jobs \cup {NoJob}]]
      /\ queue \in [Procs -> Seq(Jobs)]
   BY DEF IndInv, TypeOK
<1>3. ASSUME NEW q \in Procs, q # p PROVE ProcInv(q)'
  <2>1. wpc'[q] = wpc[q] /\ wjob'[q] = wjob[q] /\ queue'[q] = queue[q]
     BY <1>1, <1>2, <1>3
  <2> QED BY <1>0, <1>1, <1>3, <2>1, CallbacksUntouched, QuietUntouched
          DEF ProcInv, UnderLock
<1>4. OneCallback(p)'
  <2> DEFINE h == Head(queue[p])
  <2>1. OneCallback(p) BY <1>0 DEF ProcInv
  <2>2. /\ queue[p] \in Seq(Jobs) /\ Len(queue[p]) > 0 /\ h = queue[p][1]
        /\ queue'[p] = Tail(queue[p])
        /\ \A i \in DOMAIN queue'[p] : i + 1 \in DOMAIN queue[p] /\ queue'[p][i] = queue[p][i+1]
        /\ \A i \in DOMAIN queue[p] : i # 1 => i - 1 \in DOMAIN queue'[p]
        /\ 1 \in DOMAIN queue[p] /\ \A i \in DOMAIN queue'[p] : i \in Nat /\ i >= 1
        /\ \A i \in DOMAIN queue[p] : i \in Nat
     BY <1>1, <1>2
  <2>3. Pending(p) = Pending(p)' \cup {h}
     <3>1. ASSUME NEW x \in Pending(p) PROVE x \in Pending(p)' \cup {h}
       <4>1. PICK i \in DOMAIN queue[p] : x = queue[p][i] BY DEF Pending
       <4>2. CASE i = 1 BY <2>2, <4>1, <4>2
       <4>3. CASE i # 1
         <5>1. i - 1 \in DOMAIN queue'[p] BY <2>2, <4>3
         <5>2. x = queue'[p][i - 1] BY <2>2, <4>1, <5>1
         <5> QED BY <5>1, <5>2 DEF Pending
       <4> QED BY <4>2, <4>3
     <3>2. Pending(p)' \subseteq Pending(p) BY <2>2 DEF Pending
     <3>3. h \in Pending(p) BY <2>2 DEF Pending
     <3> QED BY <3>1, <3>2, <3>3
  <2>4. h \notin Pending(p)'
     <3>1. \A i \in DOMAIN queue'[p] : i + 1 # 1 BY <2>2
     <3> QED BY <2>1, <2>2, <3>1 DEF Pending, OneCallback
  <2>5. /\ wpc'[p][w] = "get" /\ wjob'[p][w] = h
        /\ \A v \in Workers : v # w => wpc'[p][v] = wpc[p][v] /\ wjob'[p][v] = wjob[p][v]
     BY <1>1, <1>2
  <2>6. InHand(p)' = InHand(p) \cup {h}
     BY <1>1, <2>5 DEF InHand, Busy
  <2>7. h \in Pending(p) /\ h \notin InHand(p) BY <2>1, <2>3 DEF OneCallback
  <2>8. \A i, k \in DOMAIN queue'[p] : queue'[p][i] = queue'[p][k] => i = k
     <3> SUFFICES ASSUME NEW i \in DOMAIN queue'[p], NEW k \in DOMAIN queue'[p],
                         queue'[p][i] = queue'[p][k]
                  PROVE  i = k
         OBVIOUS
     <3>1. i + 1 = k + 1 BY <2>1, <2>2 DEF OneCallback
     <3> QED BY <2>2, <3>1
  <2>9. \A u, v \in Workers :
           (wpc'[p][u] \in Busy /\ wpc'[p][v] \in Busy /\ u # v)
              => wjob'[p][u] # wjob'[p][v]
     BY <2>1, <2>5, <2>7 DEF OneCallback, InHand
  <2>10. Pending(p)' \cap InHand(p)' = {}
     BY <2>1, <2>3, <2>4, <2>6 DEF OneCallback
  <2>11. phase'[p] \in Serving => scheduled'[p] = Pending(p)' \cup InHand(p)'
     BY <1>1, <2>1, <2>3, <2>6 DEF OneCallback
  <2> QED BY <2>8, <2>9, <2>10, <2>11 DEF OneCallback
<1>5. Quiet(p)' /\ UnderLock(p)'
   BY <1>0, <1>1, <1>2 DEF ProcInv, Quiet, UnderLock, Serving
<1> QED BY <1>3, <1>4, <1>5 DEF ProcInv

LEMMA UnschedInv ==
    ASSUME IndInv, NEW p \in Procs, NEW w \in Workers, WUnsched(p, w)
    PROVE  \A q \in Procs : ProcInv(q)'
<1> USE DEF super, pool, loop
<1>0. \A q \in Procs : ProcInv(q) BY DEF IndInv
<1>1. /\ wpc[p][w] = "unsched"
      /\ wpc' = [wpc EXCEPT ![p][w] = "release"]
      /\ scheduled' = [scheduled EXCEPT ![p] = @ \ {wjob[p][w]}]
      /\ UNCHANGED <<lock, phase, queue, wjob, lpc>>
   BY DEF WUnsched, Goto
<1>2. /\ wpc \in [Procs -> [Workers -> WPc]]
      /\ scheduled \in [Procs -> SUBSET Jobs]
   BY DEF IndInv, TypeOK
<1>3. ASSUME NEW q \in Procs, q # p PROVE ProcInv(q)'
  <2>1. wpc'[q] = wpc[q] /\ scheduled'[q] = scheduled[q]
     BY <1>1, <1>2, <1>3
  <2> QED BY <1>0, <1>1, <1>3, <2>1, CallbacksUntouched, QuietUntouched
          DEF ProcInv, UnderLock
<1>4. OneCallback(p)'
  <2> DEFINE j == wjob[p][w]
  <2>1. OneCallback(p) BY <1>0 DEF ProcInv
  <2>2. /\ wpc'[p][w] = "release"
        /\ \A v \in Workers : v # w => wpc'[p][v] = wpc[p][v]
        /\ scheduled'[p] = scheduled[p] \ {j}
     BY <1>1, <1>2
  <2>3. wpc[p][w] \in Busy /\ "release" \notin Busy BY <1>1 DEF Busy
  <2>4. InHand(p)' = InHand(p) \ {j}
     BY <1>1, <2>1, <2>2, <2>3 DEF InHand, OneCallback
  <2>5. j \in InHand(p) BY <2>3 DEF InHand
  <2>6. Pending(p)' = Pending(p) BY <1>1 DEF Pending
  <2>7. phase'[p] \in Serving => scheduled'[p] = Pending(p)' \cup InHand(p)'
     BY <1>1, <2>1, <2>2, <2>4, <2>5, <2>6 DEF OneCallback
  <2>8. Pending(p)' \cap InHand(p)' = {} BY <2>1, <2>4, <2>6 DEF OneCallback
  <2>9. \A u, v \in Workers :
           (wpc'[p][u] \in Busy /\ wpc'[p][v] \in Busy /\ u # v)
              => wjob'[p][u] # wjob'[p][v]
     BY <1>1, <2>1, <2>2, <2>3 DEF OneCallback
  <2> QED BY <1>1, <2>1, <2>7, <2>8, <2>9 DEF OneCallback
<1>5. Quiet(p)' /\ UnderLock(p)'
  <2>1. phase[p] \notin {"down", "released"}
     BY <1>0, <1>1 DEF ProcInv, Quiet
  <2> QED BY <1>0, <1>1, <2>1 DEF ProcInv, Quiet, UnderLock
<1> QED BY <1>3, <1>4, <1>5 DEF ProcInv

LEMMA ReleaseInv ==
    ASSUME IndInv, NEW p \in Procs, NEW w \in Workers, WRelease(p, w)
    PROVE  \A q \in Procs : ProcInv(q)'
<1> USE DEF super, pool, loop
<1> SUFFICES ASSUME NEW q \in Procs PROVE ProcInv(q)'
    OBVIOUS
<1>0. ProcInv(q) BY DEF IndInv
<1>1. /\ wpc[p][w] = "release"
      /\ wpc' = [wpc EXCEPT ![p][w] = "idle"]
      /\ wjob' = [wjob EXCEPT ![p][w] = NoJob]
      /\ UNCHANGED <<lock, phase, scheduled, queue, lpc>>
   BY DEF WRelease, Goto
<1>2. /\ wpc \in [Procs -> [Workers -> WPc]]
      /\ wjob \in [Procs -> [Workers -> Jobs \cup {NoJob}]]
   BY DEF IndInv, TypeOK
<1>3. \A v \in Workers : wpc'[q][v] \in Busy =>
                            wpc[q][v] \in Busy /\ wjob'[q][v] = wjob[q][v]
   BY <1>1, <1>2 DEF Busy
<1>4. \A v \in Workers : wpc[q][v] \in Busy => wpc'[q][v] \in Busy
   BY <1>1, <1>2 DEF Busy
<1>5. InHand(q)' = InHand(q) BY <1>3, <1>4 DEF InHand
<1>6. OneCallback(q)' BY <1>0, <1>1, <1>3, <1>5 DEF ProcInv, OneCallback, Pending
<1>7. Quiet(q)' BY <1>0, <1>1, <1>2 DEF ProcInv, Quiet
<1>8. UnderLock(q)' BY <1>0, <1>1 DEF ProcInv, UnderLock
<1> QED BY <1>6, <1>7, <1>8 DEF ProcInv

LEMMA WorkerInv ==
    ASSUME IndInv, NEW p \in Procs, NEW w \in Workers, WStep(p, w)
    PROVE  IndInv'
<1>1. TypeOK' /\ ThreadsPlaced' BY WorkerTypes DEF IndInv
<1>2. ASSUME WGet(p, w) \/ WClaim(p, w) \/ WFinish(p, w) \/ WMark(p, w)
      PROVE  \A q \in Procs : ProcInv(q)'
  <2>1. UNCHANGED <<scheduled, queue, wjob, phase, lock, lpc>>
     BY <1>2 DEF WGet, WClaim, WFinish, WMark, super, pool, loop
  <2>2. \E l \in Busy : Goto(p, w, l)
     BY <1>2 DEF WGet, WClaim, WFinish, WMark, Busy
  <2>3. wpc[p][w] \in Busy
     BY <1>2 DEF WGet, WClaim, WFinish, WMark, Busy
  <2> QED BY <2>1, <2>2, <2>3, StaysBusy
<1>3. \A q \in Procs : ProcInv(q)'
   BY <1>2, TakeInv, UnschedInv, ReleaseInv DEF WStep
<1> QED BY <1>1, <1>3 DEF IndInv

(* Admitting j appends one callback; j had none. *)
LEMMA AdmitInv ==
    ASSUME IndInv, NEW p \in Procs, NEW j \in Jobs, Admit(p, j),
           UNCHANGED <<lock, phase, wpc, wjob>>,
           \A q \in Procs : lpc'[q] = "boot" => lpc[q] = "boot"
    PROVE  \A q \in Procs : ProcInv(q)'
<1>0. \A q \in Procs : ProcInv(q) BY DEF IndInv
<1>1. /\ j \notin scheduled[p] /\ phase[p] \in Serving
      /\ scheduled' = [scheduled EXCEPT ![p] = @ \cup {j}]
      /\ queue' = [queue EXCEPT ![p] = Append(@, j)]
   BY DEF Admit, HasRoom, Serving
<1>2. scheduled \in [Procs -> SUBSET Jobs] /\ queue \in [Procs -> Seq(Jobs)]
   BY DEF IndInv, TypeOK
<1>3. ASSUME NEW q \in Procs, q # p PROVE ProcInv(q)'
  <2>1. queue'[q] = queue[q] /\ scheduled'[q] = scheduled[q]
     BY <1>1, <1>2, <1>3
  <2> QED BY <1>0, <1>3, <2>1, CallbacksUntouched, QuietUntouched
          DEF ProcInv, UnderLock
<1>4. OneCallback(p)'
  <2> DEFINE n == Len(queue[p])
  <2>1. OneCallback(p) BY <1>0 DEF ProcInv
  <2>2. /\ n \in Nat /\ DOMAIN queue[p] = 1..n /\ DOMAIN queue'[p] = 1..(n+1)
        /\ queue'[p][n+1] = j
        /\ \A i \in 1..n : queue'[p][i] = queue[p][i]
     BY <1>1, <1>2
  <2>3. Pending(p)' = Pending(p) \cup {j}
    <3>1. Pending(p) \cup {j} \subseteq Pending(p)' BY <2>2 DEF Pending
    <3>2. ASSUME NEW i \in 1..(n+1) PROVE queue'[p][i] \in Pending(p) \cup {j}
      <4>1. CASE i \in 1..n BY <2>2, <4>1 DEF Pending
      <4>2. CASE i = n + 1 BY <2>2, <4>2
      <4> QED BY <2>2, <4>1, <4>2
    <3> QED BY <2>2, <3>1, <3>2 DEF Pending
  <2>4. InHand(p)' = InHand(p) BY DEF InHand
  <2>5. j \notin Pending(p) /\ j \notin InHand(p) BY <1>1, <2>1 DEF OneCallback
  <2>6. \A i, k \in DOMAIN queue'[p] : queue'[p][i] = queue'[p][k] => i = k
    <3> SUFFICES ASSUME NEW i \in 1..(n+1), NEW k \in 1..(n+1),
                        queue'[p][i] = queue'[p][k]
                 PROVE  i = k
        BY <2>2
    <3>1. \A x \in 1..n : queue'[p][x] # j BY <2>2, <2>5 DEF Pending
    <3>2. CASE i \in 1..n /\ k \in 1..n BY <2>1, <2>2, <3>2 DEF OneCallback
    <3>3. CASE i = n + 1 \/ k = n + 1 BY <2>2, <3>1, <3>3
    <3> QED BY <2>2, <3>2, <3>3
  <2>7. scheduled'[p] = Pending(p)' \cup InHand(p)'
     BY <1>1, <1>2, <2>1, <2>3, <2>4 DEF OneCallback
  <2>8. Pending(p)' \cap InHand(p)' = {} BY <2>1, <2>3, <2>4, <2>5 DEF OneCallback
  <2> QED BY <2>1, <2>6, <2>7, <2>8 DEF OneCallback
<1>5. Quiet(p)' /\ UnderLock(p)'
   BY <1>0, <1>1 DEF ProcInv, Quiet, UnderLock, Serving
<1> QED BY <1>3, <1>4, <1>5 DEF ProcInv

(* A step that touches no callback, no process phase and not the lock. *)
LEMMA ElsewhereInv ==
    ASSUME IndInv, UNCHANGED <<lock, phase, scheduled, queue, wpc, wjob>>,
           \A q \in Procs : lpc'[q] = "boot" => lpc[q] = "boot"
    PROVE  \A q \in Procs : ProcInv(q)'
<1>0. \A q \in Procs : ProcInv(q) BY DEF IndInv
<1> QED BY <1>0, CallbacksUntouched, QuietUntouched DEF ProcInv, UnderLock

(* Closing the dispatcher of p cancels its waiting callbacks. *)
LEMMA DrainInv ==
    ASSUME IndInv, NEW p \in Procs, phase[p] \in Serving,
           phase' = [phase EXCEPT ![p] = "draining"],
           queue' = [queue EXCEPT ![p] = <<>>],
           UNCHANGED <<lock, scheduled, wpc, wjob>>,
           lpc' = lpc \/ lpc' = [lpc EXCEPT ![p] = "off"],
           lpc'[p] # "boot"
    PROVE  \A q \in Procs : ProcInv(q)'
<1>0. \A q \in Procs : ProcInv(q) BY DEF IndInv
<1>1. /\ phase'[p] = "draining" /\ queue'[p] = <<>>
      /\ \A q \in Procs : q # p => /\ phase'[q] = phase[q] /\ queue'[q] = queue[q]
                                   /\ lpc'[q] = lpc[q]
   BY DEF IndInv, TypeOK
<1>2. ASSUME NEW q \in Procs, q # p PROVE ProcInv(q)'
   BY <1>0, <1>1, <1>2, CallbacksUntouched, QuietUntouched DEF ProcInv, UnderLock
<1>3. OneCallback(p)'
  <2>1. DOMAIN queue'[p] = {} BY <1>1
  <2>2. Pending(p)' = {} BY <2>1 DEF Pending
  <2>3. phase'[p] \notin Serving BY <1>1 DEF Serving
  <2> QED BY <1>0, <2>1, <2>2, <2>3 DEF ProcInv, OneCallback
<1>4. Quiet(p)' BY <1>1 DEF Quiet
<1>5. UnderLock(p)' BY <1>0, <1>1 DEF ProcInv, UnderLock
<1> QED BY <1>2, <1>3, <1>4, <1>5 DEF ProcInv

LEMMA LoopInv ==
    ASSUME IndInv, NEW p \in Procs, LoopStep(p)
    PROVE  IndInv'
<1>0. lpc \in [Procs -> LPc] /\ \A q \in Procs : UnderLock(q)
   BY DEF IndInv, TypeOK, ProcInv
<1>1. TypeOK' /\ ThreadsPlaced' BY LoopTypes DEF IndInv
<1>2. ASSUME LoopCheck(p) \/ LoopWake(p) \/ LoopStop(p) \/ LoopRequeue(p)
             \/ LoopDiscard(p) \/ LoopRequeued(p)
      PROVE  \A q \in Procs : ProcInv(q)'
  <2>1. UNCHANGED <<lock, phase, scheduled, queue, wpc, wjob>>
     BY <1>2 DEF LoopCheck, LoopWake, LoopStop, LoopRequeue, LoopDiscard,
                 LoopRequeued, super, pool, worker
  <2>2. \A q \in Procs : lpc'[q] = "boot" => lpc[q] = "boot"
     BY <1>0, <1>2 DEF LoopCheck, LoopWake, LoopStop, LoopRequeue, LoopDiscard,
                       LoopRequeued, At
  <2> QED BY <2>1, <2>2, ElsewhereInv
<1>3. ASSUME LoopAdmit(p) PROVE \A q \in Procs : ProcInv(q)'
  <2>1. UNCHANGED <<lock, phase, wpc, wjob>> BY <1>3 DEF LoopAdmit, super, worker
  <2>2. \A q \in Procs : lpc'[q] = "boot" => lpc[q] = "boot"
     BY <1>0, <1>3 DEF LoopAdmit, At
  <2>3. (\E j \in Jobs : Admit(p, j)) \/ UNCHANGED <<scheduled, queue>>
     BY <1>3 DEF LoopAdmit, AlreadyAdmitted, Saturated, pool
  <2> QED BY <2>1, <2>2, <2>3, AdmitInv, ElsewhereInv
<1>4. ASSUME LoopPassDone(p) PROVE \A q \in Procs : ProcInv(q)'
  <2>1. /\ UNCHANGED <<lock, scheduled, queue, wpc, wjob>>
        /\ lpc' = [lpc EXCEPT ![p] = "wait"]
        /\ phase' = [phase EXCEPT ![p] = IF @ = "starting" THEN "up" ELSE @]
     BY <1>4 DEF LoopPassDone, pool, worker, At
  <2>2. \A q \in Procs : ProcInv(q) /\ phase \in [Procs -> Phase] BY DEF IndInv, TypeOK
  <2>3. \A q \in Procs : /\ lpc'[q] = "boot" => lpc[q] = "boot" /\ phase'[q] = phase[q]
                         /\ phase'[q] = phase[q] \/ (phase[q] = "starting" /\ phase'[q] = "up")
     BY <1>0, <2>1, <2>2
  <2> SUFFICES ASSUME NEW q \in Procs PROVE ProcInv(q)'
      OBVIOUS
  <2>4. OneCallback(q)' BY <2>1, <2>2, <2>3, CallbacksUntouched DEF ProcInv, Serving
  <2>5. Quiet(q)' BY <2>1, <2>2, <2>3 DEF ProcInv, Quiet, Serving
  <2>6. UnderLock(q)' BY <2>1, <2>2, <2>3 DEF ProcInv, UnderLock, Serving
  <2> QED BY <2>4, <2>5, <2>6 DEF ProcInv
<1>5. ASSUME Boot(p) \/ LoopList(p) PROVE \A q \in Procs : ProcInv(q)'
  <2>1. UNCHANGED <<lock, scheduled, wpc, wjob>>
     BY <1>5 DEF Boot, LoopList, worker
  <2>2. \/ phase[p] = "starting" /\ BootFails(p)
        \/ /\ UNCHANGED <<phase, queue>>
           /\ \A q \in Procs : lpc'[q] = "boot" => lpc[q] = "boot"
     BY <1>0, <1>5 DEF Boot, LoopList, UnderLock, At
  <2>3. CASE phase[p] = "starting" /\ BootFails(p)
     BY <1>0, <2>1, <2>3, DrainInv DEF BootFails, At, Serving, LPc
  <2> QED BY <2>1, <2>2, <2>3, ElsewhereInv
<1> QED BY <1>1, <1>2, <1>3, <1>4, <1>5 DEF LoopStep, IndInv

LEMMA SubmitInv ==
    ASSUME IndInv, NEW j \in Jobs, SStep(j) \/ \E p \in Procs : SCreate(j, p)
    PROVE  IndInv'
<1>1. TypeOK' /\ ThreadsPlaced' BY SubmitTypes DEF IndInv
<1>2. UNCHANGED <<lock, phase, wpc, wjob, lpc>>
   BY DEF SStep, SCreate, SCheck, SAdmit, SReject, super, worker, loop
<1>3. CASE SAdmit(j)
  <2>1. sproc[j] \in Procs BY <1>3 DEF SAdmit, IndInv, ThreadsPlaced
  <2>2. Admit(sproc[j], j) \/ UNCHANGED <<scheduled, queue>>
     BY <1>3 DEF SAdmit, AlreadyAdmitted, Saturated, pool
  <2> QED BY <1>1, <1>2, <2>1, <2>2, AdmitInv, ElsewhereInv DEF IndInv
<1>4. CASE ~SAdmit(j)
  <2>1. UNCHANGED <<scheduled, queue>>
     BY <1>4 DEF SStep, SCreate, SCheck, SReject, pool
  <2> QED BY <1>1, <1>2, <2>1, ElsewhereInv DEF IndInv
<1> QED BY <1>3, <1>4

(* A process that exits takes its callbacks with it. *)
LEMMA ForgetInv ==
    ASSUME IndInv, NEW p \in Procs, Forget(p),
           \A q \in Procs : q # p /\ lock = q => lock' = q
    PROVE  \A q \in Procs : ProcInv(q)'
<1>0. \A q \in Procs : ProcInv(q) BY DEF IndInv
<1>1. /\ phase'[p] = "down" /\ scheduled'[p] = {} /\ queue'[p] = <<>>
      /\ \A w \in Workers : wpc'[p][w] = "idle"
      /\ lpc'[p] = "off"
      /\ \A q \in Procs : q # p =>
            /\ phase'[q] = phase[q] /\ scheduled'[q] = scheduled[q]
            /\ queue'[q] = queue[q] /\ wpc'[q] = wpc[q]
            /\ wjob'[q] = wjob[q] /\ lpc'[q] = lpc[q]
   BY DEF Forget, IndInv, TypeOK
<1>2. ASSUME NEW q \in Procs, q # p PROVE ProcInv(q)'
   BY <1>0, <1>1, <1>2, CallbacksUntouched, QuietUntouched DEF ProcInv, UnderLock
<1>3. OneCallback(p)'
  <2>1. DOMAIN queue'[p] = {} BY <1>1
  <2>2. Pending(p)' = {} BY <2>1 DEF Pending
  <2>3. \A w \in Workers : wpc'[p][w] \notin Busy BY <1>1 DEF Busy
  <2>4. phase'[p] \notin Serving BY <1>1 DEF Serving
  <2> QED BY <2>1, <2>2, <2>3, <2>4 DEF OneCallback
<1>4. Quiet(p)' BY <1>1 DEF Quiet
<1>5. UnderLock(p)' BY <1>1 DEF UnderLock, Serving
<1> QED BY <1>2, <1>3, <1>4, <1>5 DEF ProcInv

LEMMA ProcessInv ==
    ASSUME IndInv, NEW p \in Procs,
           \/ Start(p) \/ CloseStep(p) \/ Crash(p)
           \/ Close(p) \/ LoseLease(p) \/ Readiness(p)
    PROVE  IndInv'
<1>0. /\ \A q \in Procs : ProcInv(q)
      /\ phase \in [Procs -> Phase] /\ lpc \in [Procs -> LPc]
      /\ queue \in [Procs -> Seq(Jobs)] /\ lock \in Procs \cup {NoProc}
   BY DEF IndInv, TypeOK
<1>1. TypeOK' /\ ThreadsPlaced' BY ProcessTypes DEF IndInv
<1>2. ASSUME Crash(p) \/ Exit(p) PROVE \A q \in Procs : ProcInv(q)'
   BY <1>2, ForgetInv DEF Crash, Exit, Unlock
<1>3. ASSUME Start(p) PROVE \A q \in Procs : ProcInv(q)'
  <2>1. /\ phase[p] = "down" /\ lock = NoProc /\ lock' = p
        /\ phase'[p] = "starting" /\ lpc'[p] = "boot"
        /\ \A q \in Procs : q # p => phase'[q] = phase[q] /\ lpc'[q] = lpc[q]
        /\ UNCHANGED <<scheduled, queue, wpc, wjob>>
     BY <1>0, <1>3 DEF Start, pool, worker, At
  <2>2. ASSUME NEW q \in Procs, q # p PROVE ProcInv(q)'
    <3>1. ~LeaseLoss => phase[q] \notin Serving \cup {"draining"}
       BY <1>0, <2>1, <2>2, ProcsAssumption DEF ProcInv, UnderLock
    <3> QED BY <1>0, <2>1, <2>2, <3>1, CallbacksUntouched, QuietUntouched
            DEF ProcInv, UnderLock
  <2>3. /\ scheduled[p] = {} /\ queue[p] = <<>>
        /\ \A w \in Workers : wpc[p][w] = "idle"
     BY <1>0, <2>1 DEF ProcInv, Quiet, Serving
  <2>4. OneCallback(p)'
    <3>1. DOMAIN queue'[p] = {} BY <2>1, <2>3
    <3>2. Pending(p)' = {} BY <3>1 DEF Pending
    <3>3. \A w \in Workers : wpc'[p][w] \notin Busy BY <2>1, <2>3 DEF Busy
    <3>4. InHand(p)' = {} BY <3>3 DEF InHand
    <3> QED BY <2>1, <2>3, <3>1, <3>2, <3>3, <3>4 DEF OneCallback
  <2>5. Quiet(p)' BY <2>1 DEF Quiet, Serving
  <2>6. UnderLock(p)' BY <2>1 DEF UnderLock
  <2> QED BY <2>2, <2>4, <2>5, <2>6 DEF ProcInv
<1>4. ASSUME CloseDispatcher(p) PROVE \A q \in Procs : ProcInv(q)'
  <2>1. lpc[p] # "boot" BY <1>0, <1>4 DEF CloseDispatcher, ProcInv, UnderLock
  <2> QED BY <1>4, <2>1, DrainInv DEF CloseDispatcher, worker, loop, Serving
<1>5. ASSUME Close(p) PROVE \A q \in Procs : ProcInv(q)'
  <2>1. /\ phase[p] = "up" /\ phase'[p] = "closing"
        /\ \A q \in Procs : q # p => phase'[q] = phase[q]
        /\ UNCHANGED <<lock, scheduled, queue, wpc, wjob, lpc>>
     BY <1>0, <1>5 DEF Close, pool, worker, loop
  <2>2. ASSUME NEW q \in Procs, q # p PROVE ProcInv(q)'
     BY <1>0, <2>1, <2>2, CallbacksUntouched, QuietUntouched DEF ProcInv, UnderLock
  <2>3. OneCallback(p)' BY <1>0, <2>1, CallbacksUntouched DEF ProcInv, Serving
  <2>4. Quiet(p)' /\ UnderLock(p)'
     BY <1>0, <2>1 DEF ProcInv, Quiet, UnderLock, Serving
  <2> QED BY <2>2, <2>3, <2>4 DEF ProcInv
<1>6. ASSUME ReleaseLease(p) PROVE \A q \in Procs : ProcInv(q)'
  <2>1. /\ phase[p] = "draining" /\ phase'[p] = "released"
        /\ \A w \in Workers : wpc[p][w] = "idle"
        /\ \A q \in Procs : q # p => phase'[q] = phase[q] /\ (lock = q => lock' = q)
        /\ UNCHANGED <<scheduled, queue, wpc, wjob, lpc>>
     BY <1>0, <1>6 DEF ReleaseLease, Unlock, pool, worker, loop
  <2>2. ASSUME NEW q \in Procs, q # p PROVE ProcInv(q)'
     BY <1>0, <2>1, <2>2, CallbacksUntouched, QuietUntouched DEF ProcInv, UnderLock
  <2>3. OneCallback(p)' BY <1>0, <2>1, CallbacksUntouched DEF ProcInv, Serving
  <2>4. Quiet(p)' BY <1>0, <2>1 DEF ProcInv, Quiet, Serving
  <2>5. UnderLock(p)' BY <1>0, <2>1 DEF ProcInv, UnderLock, Serving
  <2> QED BY <2>2, <2>3, <2>4, <2>5 DEF ProcInv
<1>7. ASSUME LoseLease(p) PROVE \A q \in Procs : ProcInv(q)'
  <2>1. LeaseLoss /\ UNCHANGED <<phase, scheduled, queue, wpc, wjob, lpc>>
     BY <1>7 DEF LoseLease, pool, worker, loop
  <2> QED BY <1>0, <2>1, CallbacksUntouched, QuietUntouched DEF ProcInv, UnderLock
<1>8. ASSUME Readiness(p) PROVE \A q \in Procs : ProcInv(q)'
   BY <1>8, ElsewhereInv DEF Readiness, pool, worker, loop
<1> QED BY <1>1, <1>2, <1>3, <1>4, <1>5, <1>6, <1>7, <1>8 DEF CloseStep, IndInv

(* The inductive invariant of the runtime: types, and for each process the *)
(* exact correspondence between its scheduled set, its executor queue and  *)
(* the jobs its threads hold, also while it starts, drains or has lost the *)
(* lease.                                                                  *)
THEOREM IndInvHolds == Spec => []IndInv
<1>1. Init => IndInv
  <2> SUFFICES ASSUME Init PROVE IndInv
      OBVIOUS
  <2>1. TypeOK /\ ThreadsPlaced
     BY PendingAssumption, BoundAssumption
     DEF Init, Life!Init, TypeOK, ThreadsPlaced, Life!Status, Life!Kind, Phase, WPc, LPc, SPc
  <2>2. ASSUME NEW p \in Procs PROVE ProcInv(p)
    <3>1. /\ phase[p] = "down" /\ scheduled[p] = {} /\ queue[p] = <<>> /\ lpc[p] = "off"
          /\ \A w \in Workers : wpc[p][w] = "idle"
       BY DEF Init
    <3>2. DOMAIN queue[p] = {} BY <3>1
    <3>3. Pending(p) = {} BY <3>2 DEF Pending
    <3>4. OneCallback(p) BY <3>1, <3>2, <3>3 DEF OneCallback, Serving, Busy
    <3> QED BY <3>1, <3>4 DEF ProcInv, Quiet, UnderLock, Serving
  <2> QED BY <2>1, <2>2 DEF IndInv
<1>2. IndInv /\ [Next]_vars => IndInv'
  <2> SUFFICES ASSUME IndInv, [Next]_vars PROVE IndInv'
      OBVIOUS
  <2>1. CASE UNCHANGED vars
    <3>1. TypeOK' /\ ThreadsPlaced' BY <2>1 DEF vars, IndInv, TypeOK, ThreadsPlaced
    <3> QED BY <2>1, <3>1, ElsewhereInv DEF vars, IndInv
  <2>2. CASE \E p \in Procs : ProcStep(p) BY <2>2, ProcessInv, LoopInv DEF ProcStep
  <2>3. CASE \E p \in Procs, w \in Workers : WStep(p, w) BY <2>3, WorkerInv
  <2>4. CASE \E j \in Jobs : SStep(j) BY <2>4, SubmitInv
  <2>5. CASE \E j \in Jobs, p \in Procs : SCreate(j, p) BY <2>5, SubmitInv
  <2> QED BY <2>1, <2>2, <2>3, <2>4, <2>5 DEF Next
<1> QED BY <1>1, <1>2, PTL DEF Spec

(* Type correctness of the whole runtime: rows, events, lock, threads. *)
THEOREM TypeCorrect == Spec => []TypeOK
<1>1. IndInv => TypeOK BY DEF IndInv
<1> QED BY <1>1, IndInvHolds, PTL

(* _scheduled_job_ids holds exactly the jobs with a callback in flight,    *)
(* one callback each, whatever is lost or restarted.                       *)
THEOREM CallbacksUnique == Spec => []OneCallbackPerJob
<1>1. IndInv => OneCallbackPerJob BY DEF IndInv, ProcInv, OneCallbackPerJob
<1> QED BY <1>1, IndInvHolds, PTL

(* As long as PostgreSQL keeps the lock-bearing session, no job is ever    *)
(* executed by two threads at once, across any number of API processes,    *)
(* crashes and shutdowns.                                                  *)
THEOREM ExecutionsApart == ASSUME ~LeaseLoss PROVE Spec => []SingleExecution
<1>1. IndInv => SingleExecution
  <2> SUFFICES ASSUME IndInv, NEW p \in Procs, NEW q \in Procs,
                      NEW w \in Workers, NEW v \in Workers,
                      wpc[p][w] = "run", wpc[q][v] = "run", wjob[p][w] = wjob[q][v]
               PROVE  p = q /\ w = v
      BY DEF SingleExecution
  <2>1. /\ ProcInv(p) /\ ProcInv(q)
        /\ phase[p] \in Phase /\ phase[q] \in Phase
     BY DEF IndInv, TypeOK
  <2>2. lock = p BY <2>1 DEF ProcInv, Quiet, UnderLock, Phase, Serving
  <2>3. lock = q BY <2>1 DEF ProcInv, Quiet, UnderLock, Phase, Serving
  <2>4. w = v BY <2>1, <2>2, <2>3 DEF ProcInv, OneCallback, Busy
  <2> QED BY <2>2, <2>3, <2>4
<1> QED BY <1>1, IndInvHolds, PTL

---------------------------------------------------------------------------
(***************************************************************************)
(* The runtime implements the job life cycle: every step of a thread, a    *)
(* process or the database changes the rows and events as one life-cycle   *)
(* step does, or not at all.                                               *)
(***************************************************************************)

LEMMA WorkerImplements ==
    ASSUME IndInv, NEW p \in Procs, NEW w \in Workers, WStep(p, w)
    PROVE  Life!Next \/ UNCHANGED Life!vars
<1>1. wpc[p][w] # "idle" => wjob[p][w] \in Jobs BY DEF IndInv, ThreadsPlaced
<1>2. CASE WClaim(p, w)
  <2>1. wjob[p][w] \in Jobs BY <1>1, <1>2 DEF WClaim
  <2> QED BY <1>2, <2>1 DEF WClaim, Life!Next, Life!vars, db
<1>3. CASE WFinish(p, w)
  <2>1. wjob[p][w] \in Jobs BY <1>1, <1>3 DEF WFinish
  <2> QED BY <1>3, <2>1 DEF WFinish, Life!Next, Life!vars, db
<1>4. CASE ~WClaim(p, w) /\ ~WFinish(p, w)
   BY <1>4 DEF WStep, WTake, WGet, WMark, WUnsched, WRelease, Life!vars, db
<1> QED BY <1>2, <1>3, <1>4

LEMMA ProcessImplements ==
    ASSUME IndInv, NEW p \in Procs, ProcStep(p)
    PROVE  Life!Next \/ UNCHANGED Life!vars
<1>1. CASE Boot(p)
  <2>1. InStatus("running") \subseteq Jobs BY DEF InStatus
  <2> QED BY <1>1, <2>1 DEF Boot, Life!Next, Life!vars, db
<1>2. CASE LoopRequeue(p)
  <2>1. todo[p] \subseteq Jobs BY DEF IndInv, TypeOK
  <2>2. \A j \in todo[p] : {j} \in SUBSET Jobs BY <2>1
  <2> QED BY <1>2, <2>2 DEF LoopRequeue, Life!Next, Life!vars, db
<1>3. CASE ~Boot(p) /\ ~LoopRequeue(p)
   BY <1>3 DEF ProcStep, LoopStep, CloseStep, Start, LoopList, LoopCheck, LoopAdmit,
               LoopPassDone, LoopWake, LoopStop, LoopDiscard, LoopRequeued, Crash,
               Close, CloseDispatcher, ReleaseLease, Exit, Forget, LoseLease,
               Readiness, Life!vars, db
<1> QED BY <1>1, <1>2, <1>3

LEMMA SubmitImplements ==
    ASSUME NEW j \in Jobs, SStep(j) \/ \E p \in Procs : SCreate(j, p)
    PROVE  Life!Next \/ UNCHANGED Life!vars
BY DEF SStep, SCreate, SCheck, SAdmit, SReject, Life!Next, Life!vars, db

(* The detailed runtime refines AgentJobLifecycle: it changes rows and     *)
(* events by its transitions only.                                         *)
LEMMA Implementation == Spec => Life!Spec
<1>1. Init => Life!Init BY DEF Init
<1>2. IndInv /\ [Next]_vars => [Life!Next]_(Life!vars)
  <2> SUFFICES ASSUME IndInv, [Next]_vars PROVE Life!Next \/ UNCHANGED Life!vars
      OBVIOUS
  <2>1. CASE UNCHANGED vars BY <2>1 DEF vars, Life!vars
  <2>2. CASE Next
     BY <2>2, WorkerImplements, ProcessImplements, SubmitImplements DEF Next
  <2> QED BY <2>1, <2>2
<1> QED BY <1>1, <1>2, IndInvHolds, PTL DEF Spec, Life!Spec

---------------------------------------------------------------------------
(* The event log.                                                          *)

(* Appending a kind that may follow the last one keeps a log coherent. *)
LEMMA AppendCoherent ==
    ASSUME NEW j \in Jobs, events[j] \in Seq(Life!Kind), Life!LogCoherent,
           NEW k \in Life!Kind, events'[j] = Append(events[j], k),
           status'[j] = Life!Reported(k), Life!Reported(k) # "absent",
           \/ events[j] = <<>> /\ k = "queued"
           \/ events[j] # <<>> /\ k \in Life!Follows(events[j][Len(events[j])])
    PROVE  /\ (status'[j] = "absent") <=> (events'[j] = <<>>)
           /\ events'[j] # <<>> =>
                 /\ events'[j][1] = "queued"
                 /\ status'[j] = Life!Reported(events'[j][Len(events'[j])])
           /\ \A i \in 1..(Len(events'[j]) - 1) :
                 events'[j][i+1] \in Life!Follows(events'[j][i])
<1> DEFINE n == Len(events[j])
<1>1. /\ n \in Nat /\ Len(events'[j]) = n + 1 /\ events'[j][n+1] = k
      /\ \A i \in 1..n : events'[j][i] = events[j][i]
      /\ events'[j] # <<>>
      /\ events[j] # <<>> => n > 0
      /\ events[j] = <<>> => n = 0
   OBVIOUS
<1>2. events'[j][1] = "queued" BY <1>1 DEF Life!LogCoherent
<1>3. ASSUME NEW i \in 1..n PROVE events'[j][i+1] \in Life!Follows(events'[j][i])
  <2>1. CASE i = n BY <1>1, <1>3, <2>1
  <2>2. CASE i # n
    <3>1. i \in 1..(n-1) /\ i + 1 \in 1..n BY <1>1, <1>3, <2>2
    <3> QED BY <1>1, <3>1 DEF Life!LogCoherent
  <2> QED BY <2>1, <2>2
<1> QED BY <1>1, <1>2, <1>3

(* The status of a job tells which events may come next. *)
LEMMA LastEvent ==
    ASSUME Life!TypeOK, Life!LogCoherent, NEW j \in Jobs, status[j] # "absent"
    PROVE  /\ events[j] # <<>>
           /\ status[j] = "queued" =>
                 Life!Follows(events[j][Len(events[j])]) = {"running", "failed"}
           /\ status[j] = "running" =>
                 Life!Follows(events[j][Len(events[j])]) = Life!Terminal \cup {"recovered"}
<1> DEFINE k == events[j][Len(events[j])]
<1>1. events[j] # <<>> BY DEF Life!LogCoherent
<1>2. status[j] = Life!Reported(k) BY <1>1 DEF Life!LogCoherent
<1>3. k \in Life!Kind BY <1>1 DEF Life!TypeOK
<1>4. status[j] = "queued" => k \in {"queued", "recovered"}
   BY <1>2, <1>3 DEF Life!Reported
<1>5. status[j] = "running" => k = "running" BY <1>2, <1>3 DEF Life!Reported
<1>6. "running" \notin {"queued", "recovered"} OBVIOUS
<1> QED BY <1>1, <1>4, <1>5, <1>6 DEF Life!Follows

LEMMA LogStep ==
    ASSUME Life!TypeOK, Life!LogCoherent, Life!Next \/ UNCHANGED Life!vars
    PROVE  Life!LogCoherent'
<1> DEFINE Coherent(j) ==
       /\ (status'[j] = "absent") <=> (events'[j] = <<>>)
       /\ events'[j] # <<>> =>
             /\ events'[j][1] = "queued"
             /\ status'[j] = Life!Reported(events'[j][Len(events'[j])])
       /\ \A i \in 1..(Len(events'[j]) - 1) :
             events'[j][i+1] \in Life!Follows(events'[j][i])
<1>0. SUFFICES \A j \in Jobs : Coherent(j) BY DEF Life!LogCoherent
<1>1. ASSUME NEW j \in Jobs, status'[j] = status[j], events'[j] = events[j]
      PROVE  Coherent(j)
   BY <1>1 DEF Life!LogCoherent
<1>2. ASSUME NEW j \in Jobs, NEW s, NEW k \in Life!Kind, Life!Write(j, s, k),
             s = Life!Reported(k), s # "absent",
             \/ events[j] = <<>> /\ k = "queued"
             \/ events[j] # <<>> /\ k \in Life!Follows(events[j][Len(events[j])])
      PROVE  \A i \in Jobs : Coherent(i)
  <2>1. /\ status'[j] = s /\ events'[j] = Append(events[j], k)
        /\ \A i \in Jobs : i # j => status'[i] = status[i] /\ events'[i] = events[i]
     BY <1>2 DEF Life!Write, Life!TypeOK
  <2>2. events[j] \in Seq(Life!Kind) BY DEF Life!TypeOK
  <2>4. status'[j] = Life!Reported(k) /\ Life!Reported(k) # "absent" BY <1>2, <2>1
  <2>5. events'[j] = Append(events[j], k) BY <2>1
  <2>6. \/ events[j] = <<>> /\ k = "queued"
        \/ events[j] # <<>> /\ k \in Life!Follows(events[j][Len(events[j])])
     BY <1>2
  <2>3. Coherent(j) BY <2>2, <2>4, <2>5, <2>6, AppendCoherent, Zenon
  <2> QED BY <1>1, <2>1, <2>3
<1>3. CASE \E j \in Jobs : Life!Create(j)
  <2>1. PICK j \in Jobs : Life!Create(j) BY <1>3
  <2>2. events[j] = <<>> BY <2>1 DEF Life!Create, Life!LogCoherent
  <2> QED BY <1>2, <2>1, <2>2 DEF Life!Create, Life!Reported, Life!Kind
<1>4. CASE \E j \in Jobs : Life!Claim(j)
  <2>1. PICK j \in Jobs : Life!Claim(j) BY <1>4
  <2>2. events[j] # <<>> /\ "running" \in Life!Follows(events[j][Len(events[j])])
     BY <2>1, LastEvent DEF Life!Claim
  <2> QED BY <1>2, <2>1, <2>2 DEF Life!Claim, Life!Reported, Life!Kind
<1>5. CASE \E j \in Jobs : Life!Reject(j)
  <2>1. PICK j \in Jobs : Life!Reject(j) BY <1>5
  <2>2. events[j] # <<>> /\ "failed" \in Life!Follows(events[j][Len(events[j])])
     BY <2>1, LastEvent DEF Life!Reject
  <2> QED BY <1>2, <2>1, <2>2 DEF Life!Reject, Life!Reported, Life!Kind, Life!Terminal
<1>6. CASE \E j \in Jobs, o \in Life!Terminal : Life!Finish(j, o)
  <2>1. PICK j \in Jobs, o \in Life!Terminal : Life!Finish(j, o) BY <1>6
  <2>2. events[j] # <<>> /\ o \in Life!Follows(events[j][Len(events[j])])
     BY <2>1, LastEvent DEF Life!Finish
  <2> QED BY <1>2, <2>1, <2>2 DEF Life!Finish, Life!Reported, Life!Kind, Life!Terminal
<1>7. CASE \E S \in SUBSET Jobs : Life!Recover(S)
  <2>1. PICK S \in SUBSET Jobs : Life!Recover(S) BY <1>7
  <2> SUFFICES ASSUME NEW j \in Jobs PROVE Coherent(j)
      OBVIOUS
  <2>2. CASE j \notin S
    <3>1. status'[j] = status[j] /\ events'[j] = events[j] BY <2>1, <2>2 DEF Life!Recover
    <3> QED BY <1>1, <3>1
  <2>3. CASE j \in S
    <3>1. /\ status[j] = "running" /\ status'[j] = "queued"
          /\ events'[j] = Append(events[j], "recovered")
       BY <2>1, <2>3 DEF Life!Recover
    <3>2. events[j] # <<>> /\ "recovered" \in Life!Follows(events[j][Len(events[j])])
       BY <3>1, LastEvent
    <3>3. events[j] \in Seq(Life!Kind) BY DEF Life!TypeOK
    <3> QED BY <3>1, <3>2, <3>3, AppendCoherent DEF Life!Reported, Life!Kind
  <2> QED BY <2>2, <2>3
<1>8. CASE UNCHANGED Life!vars BY <1>1, <1>8 DEF Life!vars
<1> QED BY <1>3, <1>4, <1>5, <1>6, <1>7, <1>8 DEF Life!Next

(* The event log of every job follows the life cycle, agrees with the row  *)
(* and has nothing after a terminal event.                                 *)
THEOREM LogCorrect == Spec => []EventLogCoherent
<1>1. Init => EventLogCoherent
   BY DEF Init, Life!Init, EventLogCoherent, Life!LogCoherent
<1>2. IndInv /\ EventLogCoherent /\ [Next]_vars => EventLogCoherent'
  <2> SUFFICES ASSUME IndInv, EventLogCoherent, [Next]_vars PROVE EventLogCoherent'
      OBVIOUS
  <2>1. Life!TypeOK BY DEF IndInv, TypeOK, Life!TypeOK
  <2>2. Life!Next \/ UNCHANGED Life!vars
    <3>1. CASE UNCHANGED vars BY <3>1 DEF vars, Life!vars
    <3>2. CASE Next
       BY <3>2, WorkerImplements, ProcessImplements, SubmitImplements DEF Next
    <3> QED BY <3>1, <3>2
  <2> QED BY <2>1, <2>2, LogStep DEF EventLogCoherent
<1> QED BY <1>1, <1>2, IndInvHolds, PTL DEF Spec

---------------------------------------------------------------------------
(* The permits of the dispatcher's semaphore.                              *)

PermitInv(p) ==
    /\ phase[p] \in Serving =>
          free[p] + Len(queue[p]) + Cardinality(Occupied(p)) = MaxPending
    /\ phase[p] = "down" => free[p] = MaxPending

LEMMA OccupiedFinite ==
    ASSUME NEW p \in Procs
    PROVE  IsFiniteSet(Occupied(p)) /\ Cardinality(Occupied(p)) \in Nat
<1>1. Occupied(p) \subseteq Workers BY DEF Occupied
<1>2. IsFiniteSet(Occupied(p)) BY <1>1, WorkersAssumption, FS_Subset
<1> QED BY <1>2, FS_CardinalityType

(* A step that leaves the permits, the queue and the occupation of the     *)
(* threads of q alone.                                                     *)
LEMMA PermitsUntouched ==
    ASSUME NEW q \in Procs, PermitInv(q), free'[q] = free[q], queue'[q] = queue[q],
           Occupied(q)' = Occupied(q),
           phase'[q] \in Serving => phase[q] \in Serving,
           phase'[q] = "down" => phase[q] = "down"
    PROVE  PermitInv(q)'
BY DEF PermitInv

LEMMA WorkerPermits ==
    ASSUME IndInv, NEW p \in Procs, NEW w \in Workers, WStep(p, w),
           \A q \in Procs : PermitInv(q)
    PROVE  \A q \in Procs : PermitInv(q)'
<1> SUFFICES ASSUME NEW q \in Procs PROVE PermitInv(q)'
    OBVIOUS
<1>0. /\ wpc \in [Procs -> [Workers -> WPc]] /\ queue \in [Procs -> Seq(Jobs)]
      /\ free \in [Procs -> Nat]
   BY DEF IndInv, TypeOK
<1>1. phase' = phase
   BY DEF WStep, WTake, WGet, WClaim, WFinish, WMark, WUnsched, WRelease, super
<1>2. CASE WTake(p, w)
  <2>1. /\ wpc[p][w] = "idle" /\ queue[p] # <<>> /\ free' = free
        /\ wpc' = [wpc EXCEPT ![p][w] = "get"]
        /\ queue' = [queue EXCEPT ![p] = Tail(@)]
     BY <1>2 DEF WTake, Goto
  <2>2. CASE q # p
    <3>1. wpc'[q] = wpc[q] /\ queue'[q] = queue[q] BY <1>0, <2>1, <2>2
    <3>2. Occupied(q)' = Occupied(q) BY <3>1 DEF Occupied
    <3> QED BY <1>1, <2>1, <3>1, <3>2, PermitsUntouched
  <2>3. CASE q = p
    <3>1. Occupied(p)' = Occupied(p) \cup {w} /\ w \notin Occupied(p)
       BY <1>0, <2>1 DEF Occupied
    <3>2. Cardinality(Occupied(p)') = Cardinality(Occupied(p)) + 1
       BY <3>1, OccupiedFinite, FS_AddElement
    <3>3. Len(queue'[p]) = Len(queue[p]) - 1 /\ Len(queue[p]) \in Nat
       BY <1>0, <2>1
    <3>4. free'[p] = free[p] /\ free[p] \in Nat /\ Cardinality(Occupied(p)) \in Nat
       BY <1>0, <2>1, OccupiedFinite
    <3>5. PermitInv(p) OBVIOUS
    <3> QED BY <1>1, <2>3, <3>2, <3>3, <3>4, <3>5 DEF PermitInv
  <2> QED BY <2>2, <2>3
<1>3. CASE WRelease(p, w)
  <2>1. /\ wpc[p][w] = "release" /\ queue' = queue
        /\ wpc' = [wpc EXCEPT ![p][w] = "idle"]
        /\ free' = [free EXCEPT ![p] = @ + 1]
     BY <1>3 DEF WRelease, Goto
  <2>2. CASE q # p
    <3>1. wpc'[q] = wpc[q] /\ free'[q] = free[q] BY <1>0, <2>1, <2>2
    <3>2. Occupied(q)' = Occupied(q) BY <3>1 DEF Occupied
    <3> QED BY <1>1, <2>1, <3>1, <3>2, PermitsUntouched
  <2>3. CASE q = p
    <3>1. Occupied(p)' = Occupied(p) \ {w} /\ w \in Occupied(p)
       BY <1>0, <2>1 DEF Occupied
    <3>2. Cardinality(Occupied(p)') = Cardinality(Occupied(p)) - 1
       BY <3>1, OccupiedFinite, FS_RemoveElement
    <3>3. Len(queue[p]) \in Nat /\ queue'[p] = queue[p] BY <1>0, <2>1
    <3>4. free'[p] = free[p] + 1 /\ free[p] \in Nat /\ Cardinality(Occupied(p)) \in Nat
       BY <1>0, <2>1, OccupiedFinite
    <3>5. PermitInv(p) OBVIOUS
    <3>6. phase[p] # "down" BY <2>1 DEF IndInv, ProcInv, Quiet
    <3>7. free'[p] + Len(queue'[p]) + Cardinality(Occupied(p)')
             = free[p] + Len(queue[p]) + Cardinality(Occupied(p))
       BY <3>2, <3>3, <3>4
    <3> QED BY <1>1, <2>3, <3>5, <3>6, <3>7 DEF PermitInv
  <2> QED BY <2>2, <2>3
<1>4. CASE ~WTake(p, w) /\ ~WRelease(p, w)
  <2>1. free' = free /\ queue' = queue
     BY <1>4 DEF WStep, WGet, WClaim, WFinish, WMark, WUnsched, pool
  <2>2. /\ wpc[p][w] # "idle"
        /\ \E l \in Busy \cup {"release"} : wpc' = [wpc EXCEPT ![p][w] = l]
     BY <1>4 DEF WStep, WGet, WClaim, WFinish, WMark, WUnsched, Goto, Busy
  <2>3. Occupied(q)' = Occupied(q) BY <1>0, <2>2 DEF Occupied, Busy
  <2> QED BY <1>1, <2>1, <2>3, PermitsUntouched
<1> QED BY <1>2, <1>3, <1>4

LEMMA AdmitPermits ==
    ASSUME IndInv, NEW p \in Procs, NEW j \in Jobs, Admit(p, j),
           UNCHANGED <<phase, wpc>>, \A q \in Procs : PermitInv(q)
    PROVE  \A q \in Procs : PermitInv(q)'
<1> SUFFICES ASSUME NEW q \in Procs PROVE PermitInv(q)'
    OBVIOUS
<1>0. queue \in [Procs -> Seq(Jobs)] /\ free \in [Procs -> Nat]
   BY DEF IndInv, TypeOK
<1>1. /\ free' = [free EXCEPT ![p] = @ - 1]
      /\ queue' = [queue EXCEPT ![p] = Append(@, j)]
      /\ phase[p] \in Serving
   BY DEF Admit, HasRoom, Serving
<1>2. Occupied(q)' = Occupied(q) BY DEF Occupied
<1>3. CASE q # p
  <2>1. free'[q] = free[q] /\ queue'[q] = queue[q] BY <1>0, <1>1, <1>3
  <2> QED BY <1>2, <2>1, PermitsUntouched
<1>4. CASE q = p
  <2>1. /\ free'[p] = free[p] - 1 /\ free[p] \in Nat
        /\ Len(queue'[p]) = Len(queue[p]) + 1 /\ Len(queue[p]) \in Nat
        /\ Cardinality(Occupied(p)) \in Nat
     BY <1>0, <1>1, OccupiedFinite
  <2>2. PermitInv(p) OBVIOUS
  <2>3. phase[p] # "down" BY <1>1 DEF Serving
  <2> QED BY <1>1, <1>2, <1>4, <2>1, <2>2, <2>3 DEF PermitInv
<1> QED BY <1>3, <1>4

LEMMA OtherPermits ==
    ASSUME IndInv, \A q \in Procs : PermitInv(q),
           \/ \E p \in Procs : ProcStep(p)
           \/ \E j \in Jobs : SStep(j)
           \/ \E j \in Jobs, p \in Procs : SCreate(j, p)
    PROVE  \A q \in Procs : PermitInv(q)'
<1>0. /\ free \in [Procs -> Nat] /\ queue \in [Procs -> Seq(Jobs)]
      /\ phase \in [Procs -> Phase] /\ wpc \in [Procs -> [Workers -> WPc]]
   BY DEF IndInv, TypeOK
<1>1. CASE \E j \in Jobs : SStep(j) \/ \E p \in Procs : SCreate(j, p)
  <2>1. PICK j \in Jobs : SStep(j) \/ \E p \in Procs : SCreate(j, p) BY <1>1
  <2>2. phase' = phase /\ wpc' = wpc
     BY <2>1 DEF SStep, SCreate, SCheck, SAdmit, SReject, super, worker
  <2>3. (sproc[j] \in Procs /\ Admit(sproc[j], j)) \/ (free' = free /\ queue' = queue)
     BY <2>1 DEF SStep, SCreate, SCheck, SAdmit, SReject, AlreadyAdmitted, Saturated,
                 pool, IndInv, ThreadsPlaced
  <2>4. \A q \in Procs : Occupied(q)' = Occupied(q) BY <2>2 DEF Occupied
  <2> QED BY <2>2, <2>3, <2>4, AdmitPermits, PermitsUntouched
<1>2. ASSUME NEW p \in Procs, LoopStep(p) PROVE \A q \in Procs : PermitInv(q)'
  <2>1. wpc' = wpc
     BY <1>2 DEF LoopStep, Boot, LoopList, LoopCheck, LoopAdmit, LoopPassDone, LoopWake,
                 LoopStop, LoopRequeue, LoopDiscard, LoopRequeued, worker
  <2>2. \A q \in Procs : Occupied(q)' = Occupied(q) BY <2>1 DEF Occupied
  <2>3. CASE LoopAdmit(p)
    <3>1. phase' = phase BY <2>3 DEF LoopAdmit, super
    <3>2. (\E j \in Jobs : Admit(p, j)) \/ (free' = free /\ queue' = queue)
       BY <2>3 DEF LoopAdmit, AlreadyAdmitted, Saturated, pool
    <3> QED BY <2>1, <2>2, <3>1, <3>2, AdmitPermits, PermitsUntouched
  <2>4. CASE ~LoopAdmit(p)
    <3>1. /\ free' = free
          /\ \A q \in Procs : \/ phase'[q] = phase[q] /\ queue'[q] = queue[q]
                              \/ phase'[q] = "draining"
                              \/ /\ phase[q] = "starting" /\ phase'[q] = "up"
                                 /\ queue'[q] = queue[q]
       BY <1>0, <1>2, <2>4 DEF LoopStep, Boot, LoopList, LoopCheck, LoopPassDone,
             LoopWake, LoopStop, LoopRequeue, LoopDiscard, LoopRequeued, BootFails,
             super, pool
    <3> QED BY <2>2, <3>1 DEF PermitInv, Serving
  <2> QED BY <2>3, <2>4
<1>3. ASSUME NEW p \in Procs, Crash(p) \/ Exit(p) PROVE \A q \in Procs : PermitInv(q)'
  <2>1. /\ phase'[p] = "down" /\ free'[p] = MaxPending
        /\ \A q \in Procs : q # p => /\ phase'[q] = phase[q] /\ free'[q] = free[q]
                                     /\ queue'[q] = queue[q] /\ wpc'[q] = wpc[q]
     BY <1>0, <1>3 DEF Crash, Exit, Forget
  <2>2. ASSUME NEW q \in Procs, q # p PROVE PermitInv(q)'
    <3>1. Occupied(q)' = Occupied(q) BY <2>1, <2>2 DEF Occupied
    <3> QED BY <2>1, <2>2, <3>1, PermitsUntouched
  <2>3. PermitInv(p)' BY <2>1 DEF PermitInv, Serving
  <2> QED BY <2>2, <2>3
<1>4. ASSUME NEW p \in Procs, Start(p) PROVE \A q \in Procs : PermitInv(q)'
  <2>1. /\ phase[p] = "down" /\ phase'[p] = "starting"
        /\ \A q \in Procs : q # p => phase'[q] = phase[q]
        /\ free' = free /\ queue' = queue /\ wpc' = wpc
     BY <1>0, <1>4 DEF Start, pool, worker
  <2>2. ASSUME NEW q \in Procs, q # p PROVE PermitInv(q)'
    <3>1. Occupied(q)' = Occupied(q) BY <2>1, <2>2 DEF Occupied
    <3> QED BY <2>1, <2>2, <3>1, PermitsUntouched
  <2>3. queue[p] = <<>> /\ \A w \in Workers : wpc[p][w] = "idle"
     BY <2>1 DEF IndInv, ProcInv, Quiet, Serving
  <2>4. Occupied(p)' = {} /\ Len(queue'[p]) = 0 BY <2>1, <2>3 DEF Occupied
  <2>5. Cardinality(Occupied(p)') = 0 BY <2>4, FS_EmptySet
  <2>6. free'[p] = MaxPending /\ MaxPending \in Nat
     BY <2>1, PendingAssumption DEF PermitInv
  <2>7. PermitInv(p)' BY <2>1, <2>4, <2>5, <2>6 DEF PermitInv
  <2> QED BY <2>2, <2>7
<1>5. ASSUME NEW p \in Procs,
             CloseDispatcher(p) \/ ReleaseLease(p) \/ Close(p) \/ LoseLease(p) \/ Readiness(p)
      PROVE  \A q \in Procs : PermitInv(q)'
  <2>1. /\ free' = free /\ wpc' = wpc
        /\ \A q \in Procs : \/ phase'[q] = phase[q] /\ queue'[q] = queue[q]
                            \/ phase'[q] \in {"draining", "released"}
                            \/ /\ phase[q] = "up" /\ phase'[q] = "closing"
                               /\ queue'[q] = queue[q]
     BY <1>0, <1>5 DEF CloseDispatcher, ReleaseLease, Close, LoseLease, Readiness,
                       pool, worker
  <2>2. \A q \in Procs : Occupied(q)' = Occupied(q) BY <2>1 DEF Occupied
  <2> QED BY <2>1, <2>2 DEF PermitInv, Serving
<1> QED BY <1>1, <1>2, <1>3, <1>4, <1>5 DEF ProcStep, CloseStep

(* While a dispatcher is open its free permits, waiting callbacks and      *)
(* occupied threads add up to pending_limit: none leaks, none is invented. *)
THEOREM PermitsConserved == Spec => []PermitsAccounted
<1>1. Init => \A p \in Procs : PermitInv(p) BY DEF Init, PermitInv, Serving
<1>2. IndInv /\ (\A p \in Procs : PermitInv(p)) /\ [Next]_vars
         => (\A p \in Procs : PermitInv(p))'
  <2> SUFFICES ASSUME IndInv, \A p \in Procs : PermitInv(p), [Next]_vars
               PROVE  \A p \in Procs : PermitInv(p)'
      OBVIOUS
  <2>1. CASE UNCHANGED vars BY <2>1 DEF vars, PermitInv, Occupied
  <2>2. CASE Next BY <2>2, WorkerPermits, OtherPermits DEF Next
  <2> QED BY <2>1, <2>2
<1>3. (\A p \in Procs : PermitInv(p)) => PermitsAccounted
   BY DEF PermitInv, PermitsAccounted
<1> QED BY <1>1, <1>2, <1>3, IndInvHolds, PTL DEF Spec

---------------------------------------------------------------------------
(***************************************************************************)
(* What recovery puts back to the queue, and what it must not forget.      *)
(* Startup recovery is safe because nothing else runs while it does.       *)
(* Later recovery acts on a copy of the interrupted ids, and takes a mark  *)
(* away in a critical section of its own.                                  *)
(***************************************************************************)

(* A startup pass is alone in its process: no callback, no request.        *)
BootAlone ==
    /\ \A p \in Procs : lpc[p] = "boot" =>
          queue[p] = <<>> /\ \A w \in Workers : wpc[p][w] = "idle"
    /\ \A j \in Jobs : spc[j] \in {"check", "admit", "reject"} =>
          phase[sproc[j]] \notin {"down", "starting"}

(* Which parts of the recovery a step of a thread can touch. *)
LEMMA ThreadTouches ==
    ASSUME IndInv, NEW p \in Procs, NEW w \in Workers, WStep(p, w)
    PROVE  /\ UNCHANGED <<lock, phase, lpc, todo, cur, spc, sproc>>
           /\ queue[p] # <<>> \/ wpc[p][w] # "idle"
           /\ \A q \in Procs : q # p => /\ queue'[q] = queue[q] /\ wpc'[q] = wpc[q]
                                        /\ wjob'[q] = wjob[q]
                                        /\ interrupted'[q] = interrupted[q]
           /\ \A v \in Workers : v # w => /\ wpc'[p][v] = wpc[p][v]
                                          /\ wjob'[p][v] = wjob[p][v]
BY DEF IndInv, TypeOK, WStep, WTake, WGet, WClaim, WFinish, WMark, WUnsched, WRelease,
       Goto, super, pool, loop, submit

(* The recovery thread starts no startup pass, and touches no thread.      *)
LEMMA LoopTouches ==
    ASSUME IndInv, NEW p \in Procs, LoopStep(p)
    PROVE  /\ UNCHANGED <<lock, wpc, wjob, spc, sproc>>
           /\ \A q \in Procs : q # p => /\ phase'[q] = phase[q] /\ lpc'[q] = lpc[q]
                                        /\ queue'[q] = queue[q] /\ todo'[q] = todo[q]
                                        /\ cur'[q] = cur[q]
                                        /\ interrupted'[q] = interrupted[q]
           /\ lpc'[p] = "boot" => lpc[p] = "boot"
           /\ phase'[p] # phase[p] => phase'[p] = "draining"
                                      \/ (lpc[p] = "check" /\ phase[p] = "starting" /\ phase'[p] = "up")
           /\ queue'[p] \in {queue[p], <<>>} \/ (lpc[p] = "admit" /\ lpc'[p] = "check")
<1>0. /\ phase \in [Procs -> Phase] /\ lpc \in [Procs -> LPc]
      /\ queue \in [Procs -> Seq(Jobs)] /\ todo \in [Procs -> SUBSET Jobs]
      /\ cur \in [Procs -> Jobs \cup {NoJob}] /\ interrupted \in [Procs -> SUBSET Jobs]
      /\ lpc[p] = "boot" => phase[p] = "starting"
   BY DEF IndInv, TypeOK, ProcInv, UnderLock
<1>1. UNCHANGED <<lock, wpc, wjob, spc, sproc>>
  BY DEF LoopStep, Boot, BootFails, LoopList, LoopCheck, LoopAdmit, LoopPassDone, LoopWake,
         LoopStop, LoopRequeue, LoopDiscard, LoopRequeued, At, super, pool, worker, loop, submit
<1>2. ASSUME NEW q \in Procs, q # p
      PROVE  phase'[q] = phase[q] /\ lpc'[q] = lpc[q] /\ todo'[q] = todo[q]
  BY <1>0, <1>2
     DEF LoopStep, Boot, BootFails, LoopList, LoopCheck, LoopAdmit, LoopPassDone, LoopWake,
         LoopStop, LoopRequeue, LoopDiscard, LoopRequeued, At, super, pool, worker, loop, submit
<1>3. ASSUME NEW q \in Procs, q # p
      PROVE  cur'[q] = cur[q] /\ interrupted'[q] = interrupted[q]
  BY <1>0, <1>3
     DEF LoopStep, Boot, BootFails, LoopList, LoopCheck, LoopAdmit, LoopPassDone, LoopWake,
         LoopStop, LoopRequeue, LoopDiscard, LoopRequeued, At, super, pool, worker, loop, submit
<1>4. CASE LoopAdmit(p)
  <2>1. /\ lpc[p] = "admit" /\ lpc'[p] = "check" /\ phase' = phase
     BY <1>0, <1>4 DEF LoopAdmit, At, super
  <2>2. \A q \in Procs : q # p => queue'[q] = queue[q]
     BY <1>0, <1>4 DEF LoopAdmit, Admit, AlreadyAdmitted, Saturated, pool
  <2> QED BY <1>1, <1>2, <1>3, <2>1, <2>2
<1>5. CASE ~LoopAdmit(p)
  <2>1. /\ \A q \in Procs : q # p => queue'[q] = queue[q]
        /\ queue'[p] = queue[p] \/ queue'[p] = <<>>
     BY <1>0, <1>5
        DEF LoopStep, Boot, BootFails, LoopList, LoopCheck, LoopPassDone, LoopWake, LoopStop, LoopRequeue,
         LoopDiscard, LoopRequeued, super, pool, worker, loop, submit
  <2>2. lpc'[p] = "boot" => lpc[p] = "boot"
     BY <1>0, <1>5
        DEF LoopStep, Boot, BootFails, LoopList, LoopCheck, LoopPassDone, LoopWake, LoopStop, LoopRequeue,
         LoopDiscard, LoopRequeued, super, pool, worker, loop, submit, At
  <2>3. phase'[p] # phase[p] => phase'[p] = "draining"
                               \/ (lpc[p] = "check" /\ phase[p] = "starting" /\ phase'[p] = "up")
     BY <1>0, <1>5
        DEF LoopStep, Boot, BootFails, LoopList, LoopCheck, LoopPassDone, LoopWake, LoopStop, LoopRequeue,
         LoopDiscard, LoopRequeued, super, pool, worker, loop, submit
  <2> QED BY <1>1, <1>2, <1>3, <2>1, <2>2, <2>3
<1> QED BY <1>4, <1>5

(* A request only touches the pool of its own process. *)
LEMMA SubmitTouches ==
    ASSUME IndInv, NEW j \in Jobs, SStep(j) \/ \E p \in Procs : SCreate(j, p)
    PROVE  /\ UNCHANGED <<lock, phase, interrupted, wpc, wjob, lpc, todo, cur>>
           /\ \A q \in Procs : queue'[q] = queue[q]
                               \/ (q = sproc[j] /\ spc[j] = "admit")
           /\ \A k \in Jobs : k # j => spc'[k] = spc[k] /\ sproc'[k] = sproc[k]
           /\ spc'[j] \in {"check", "admit", "reject"} =>
                 \/ spc[j] \in {"check", "admit", "reject"} /\ sproc'[j] = sproc[j]
                 \/ phase[sproc'[j]] = "up"
           /\ \A k \in Jobs : status'[k] = "running" => status[k] = "running"
           /\ \A k \in Jobs : status[k] = "running" => status'[k] = "running"
<1>0. /\ queue \in [Procs -> Seq(Jobs)] /\ spc \in [Jobs -> SPc]
      /\ sproc \in [Jobs -> Procs \cup {NoProc}] /\ status \in [Jobs -> Life!Status]
   BY DEF IndInv, TypeOK
<1> USE DEF SGoto, super, pool, worker, loop, submit, db
<1>1. CASE SCheck(j) BY <1>0, <1>1 DEF SCheck
<1>2. CASE SAdmit(j)
  <2>1. /\ UNCHANGED <<lock, phase, interrupted, wpc, wjob, lpc, todo, cur, status, sproc>>
        /\ spc[j] = "admit" /\ \E l \in SPc : spc' = [spc EXCEPT ![j] = l]
     BY <1>2 DEF SAdmit, SPc
  <2>2. \A q \in Procs : q # sproc[j] => queue'[q] = queue[q]
     BY <1>0, <1>2 DEF SAdmit, Admit, AlreadyAdmitted, Saturated
  <2> QED BY <1>0, <2>1, <2>2
<1>3. CASE SReject(j)
  <2>1. /\ UNCHANGED <<lock, phase, interrupted, wpc, wjob, lpc, todo, cur, queue, sproc>>
        /\ spc[j] = "reject" /\ spc' = [spc EXCEPT ![j] = "done"]
     BY <1>3 DEF SReject
  <2>2. status' = status \/ (status[j] = "queued" /\ status' = [status EXCEPT ![j] = "failed"])
     BY <1>3 DEF SReject, Life!Reject, Life!Write
  <2>3. \A k \in Jobs : status'[k] = "running" <=> status[k] = "running"
     BY <1>0, <2>2
  <2> QED BY <1>0, <2>1, <2>3
<1>4. CASE \E p \in Procs : SCreate(j, p)
  <2>1. PICK p \in Procs : SCreate(j, p) BY <1>4
  <2>2. UNCHANGED <<lock, phase, interrupted, wpc, wjob, lpc, todo, cur, queue>>
     BY <2>1 DEF SCreate
  <2>3. /\ \A k \in Jobs : k # j => spc'[k] = spc[k] /\ sproc'[k] = sproc[k]
     BY <1>0, <2>1 DEF SCreate
  <2>5. spc'[j] \in {"check", "admit", "reject"} => phase[sproc'[j]] = "up"
     BY <1>0, <2>1 DEF SCreate
  <2>4. status' = status \/ (status[j] = "absent" /\ status' = [status EXCEPT ![j] = "queued"])
     BY <2>1 DEF SCreate, Life!Create, Life!Write
  <2>6. \A k \in Jobs : status'[k] = "running" <=> status[k] = "running"
     BY <1>0, <2>4
  <2> QED BY <2>2, <2>3, <2>5, <2>6
<1> QED BY <1>1, <1>2, <1>3, <1>4 DEF SStep

(* Starting, closing, crashing: a process only loses what it had. *)
LEMMA ProcessTouches ==
    ASSUME IndInv, NEW p \in Procs,
           \/ Start(p) \/ CloseStep(p) \/ Crash(p)
           \/ Close(p) \/ LoseLease(p) \/ Readiness(p)
    PROVE  /\ UNCHANGED <<status, outages>>
           /\ \A q \in Procs : q # p =>
                 /\ phase'[q] = phase[q] /\ lpc'[q] = lpc[q] /\ queue'[q] = queue[q]
                 /\ todo'[q] = todo[q] /\ cur'[q] = cur[q]
                 /\ interrupted'[q] = interrupted[q]
                 /\ wpc'[q] = wpc[q] /\ wjob'[q] = wjob[q]
           /\ \/ /\ UNCHANGED <<wpc, wjob, interrupted, todo, cur, spc, sproc>>
                 /\ \/ /\ phase[p] = "down" /\ phase'[p] = "starting" /\ lpc'[p] = "boot"
                       /\ queue' = queue
                    \/ /\ lpc' = lpc /\ queue'[p] \in {queue[p], <<>>}
                       /\ \/ phase'[p] = phase[p]
                          \/ phase'[p] \in {"closing", "draining", "released"}
              \/ /\ phase'[p] = "down" /\ lpc'[p] = "off" /\ queue'[p] = <<>>
                 /\ interrupted'[p] = {}
                 /\ \A w \in Workers : wpc'[p][w] = "idle"
                 /\ sproc' = sproc
                 /\ \A j \in Jobs : spc'[j] = IF sproc[j] = p THEN "done" ELSE spc[j]
<1>0. /\ phase \in [Procs -> Phase] /\ lpc \in [Procs -> LPc]
      /\ queue \in [Procs -> Seq(Jobs)] /\ todo \in [Procs -> SUBSET Jobs]
      /\ cur \in [Procs -> Jobs \cup {NoJob}] /\ interrupted \in [Procs -> SUBSET Jobs]
      /\ wpc \in [Procs -> [Workers -> WPc]]
      /\ wjob \in [Procs -> [Workers -> Jobs \cup {NoJob}]]
   BY DEF IndInv, TypeOK
<1> USE DEF At, db, super, pool, worker, loop, submit, bounds
<1>1. ASSUME Forget(p)
      PROVE  /\ UNCHANGED <<status, outages, sproc>>
             /\ \A q \in Procs : q # p =>
                 /\ phase'[q] = phase[q] /\ lpc'[q] = lpc[q] /\ queue'[q] = queue[q]
                 /\ todo'[q] = todo[q] /\ cur'[q] = cur[q]
                 /\ interrupted'[q] = interrupted[q]
                 /\ wpc'[q] = wpc[q] /\ wjob'[q] = wjob[q]
             /\ phase'[p] = "down" /\ lpc'[p] = "off" /\ queue'[p] = <<>>
             /\ interrupted'[p] = {}
             /\ \A w \in Workers : wpc'[p][w] = "idle"
             /\ \A j \in Jobs : spc'[j] = IF sproc[j] = p THEN "done" ELSE spc[j]
  <2>1. \A q \in Procs : q # p =>
           /\ phase'[q] = phase[q] /\ lpc'[q] = lpc[q] /\ queue'[q] = queue[q]
           /\ todo'[q] = todo[q] /\ cur'[q] = cur[q]
           /\ interrupted'[q] = interrupted[q]
           /\ wpc'[q] = wpc[q] /\ wjob'[q] = wjob[q]
     BY <1>0, <1>1 DEF Forget
  <2>2. /\ phase'[p] = "down" /\ lpc'[p] = "off" /\ queue'[p] = <<>>
        /\ interrupted'[p] = {} /\ \A w \in Workers : wpc'[p][w] = "idle"
     BY <1>0, <1>1 DEF Forget
  <2>3. /\ UNCHANGED <<status, outages, sproc>>
        /\ \A j \in Jobs : spc'[j] = IF sproc[j] = p THEN "done" ELSE spc[j]
     BY <1>1 DEF Forget
  <2> QED BY <2>1, <2>2, <2>3
<1>2. CASE Crash(p) \/ Exit(p) BY <1>1, <1>2 DEF Crash, Exit
<1>3. CASE Start(p) BY <1>0, <1>3 DEF Start
<1>4. CASE CloseDispatcher(p)
  <2>1. UNCHANGED <<status, outages, wpc, wjob, interrupted, todo, cur, spc, sproc, lpc>>
     BY <1>4 DEF CloseDispatcher
  <2>2. phase'[p] = "draining" /\ queue'[p] = <<>>
     BY <1>0, <1>4 DEF CloseDispatcher
  <2>3. \A q \in Procs : q # p => phase'[q] = phase[q] /\ queue'[q] = queue[q]
     BY <1>0, <1>4 DEF CloseDispatcher
  <2> QED BY <2>1, <2>2, <2>3
<1>5. CASE ReleaseLease(p)
  <2>1. /\ UNCHANGED <<status, outages, wpc, wjob, interrupted, todo, cur, spc, sproc, lpc, queue>>
        /\ phase' = [phase EXCEPT ![p] = "released"]
     BY <1>5 DEF ReleaseLease
  <2> QED BY <1>0, <2>1
<1>6. CASE Close(p) BY <1>0, <1>6 DEF Close
<1>7. CASE LoseLease(p) BY <1>0, <1>7 DEF LoseLease
<1>8. CASE Readiness(p) BY <1>0, <1>8 DEF Readiness
<1> QED BY <1>2, <1>3, <1>4, <1>5, <1>6, <1>7, <1>8 DEF CloseStep


LEMMA BootAloneNext ==
    ASSUME IndInv, BootAlone, [Next]_vars PROVE BootAlone'
<1>0. /\ phase \in [Procs -> Phase] /\ spc \in [Jobs -> SPc]
      /\ \A p \in Procs : lpc[p] = "boot" => phase[p] = "starting"
      /\ \A p \in Procs : phase[p] = "down" =>
            queue[p] = <<>> /\ \A w \in Workers : wpc[p][w] = "idle"
      /\ \A j \in Jobs : spc[j] \in {"check", "admit", "reject"} => sproc[j] \in Procs
   BY DEF IndInv, TypeOK, ThreadsPlaced, ProcInv, UnderLock, Quiet, Serving
<1>1. CASE UNCHANGED vars BY <1>1 DEF vars, BootAlone
<1>2. ASSUME NEW p \in Procs, NEW w \in Workers, WStep(p, w) PROVE BootAlone'
  <2>1. /\ UNCHANGED <<phase, lpc, spc, sproc>>
        /\ queue[p] # <<>> \/ wpc[p][w] # "idle"
        /\ \A q \in Procs : q # p => queue'[q] = queue[q] /\ wpc'[q] = wpc[q]
     BY <1>2, ThreadTouches
  <2> QED BY <2>1 DEF BootAlone
<1>3. ASSUME NEW p \in Procs, LoopStep(p) PROVE BootAlone'
  <2>1. /\ UNCHANGED <<wpc, spc, sproc>>
        /\ \A q \in Procs : q # p => phase'[q] = phase[q] /\ lpc'[q] = lpc[q]
                                     /\ queue'[q] = queue[q]
        /\ lpc'[p] = "boot" => lpc[p] = "boot"
        /\ phase'[p] # phase[p] => phase'[p] \in {"draining", "up"}
        /\ queue'[p] \in {queue[p], <<>>} \/ lpc'[p] = "check"
     BY <1>3, LoopTouches
  <2>2. \A q \in Procs : lpc'[q] = "boot" =>
           lpc[q] = "boot" /\ queue'[q] \in {queue[q], <<>>}
     BY <2>1
  <2>3. \A q \in Procs : phase'[q] \in {"down", "starting"} => phase'[q] = phase[q]
     BY <2>1
  <2> QED BY <1>0, <2>1, <2>2, <2>3 DEF BootAlone
<1>4. ASSUME NEW j \in Jobs, SStep(j) \/ \E p \in Procs : SCreate(j, p) PROVE BootAlone'
  <2>1. /\ UNCHANGED <<phase, wpc, lpc>>
        /\ \A q \in Procs : queue'[q] = queue[q] \/ (q = sproc[j] /\ spc[j] = "admit")
        /\ \A k \in Jobs : k # j => spc'[k] = spc[k] /\ sproc'[k] = sproc[k]
        /\ spc'[j] \in {"check", "admit", "reject"} =>
                 \/ spc[j] \in {"check", "admit", "reject"} /\ sproc'[j] = sproc[j]
                 \/ phase[sproc'[j]] = "up"
     BY <1>4, SubmitTouches
  <2>2. \A q \in Procs : lpc[q] = "boot" => queue'[q] = queue[q]
     BY <1>0, <2>1 DEF BootAlone
  <2>3. \A k \in Jobs : spc'[k] \in {"check", "admit", "reject"} =>
           phase'[sproc'[k]] \notin {"down", "starting"}
     BY <2>1 DEF BootAlone
  <2> QED BY <2>1, <2>2, <2>3 DEF BootAlone
<1>5. ASSUME NEW p \in Procs,
             \/ Start(p) \/ CloseStep(p) \/ Crash(p)
             \/ Close(p) \/ LoseLease(p) \/ Readiness(p)
      PROVE  BootAlone'
  <2>1. \A q \in Procs : q # p => /\ phase'[q] = phase[q] /\ lpc'[q] = lpc[q]
                                  /\ queue'[q] = queue[q] /\ wpc'[q] = wpc[q]
     BY <1>5, ProcessTouches
  <2>2. CASE /\ UNCHANGED <<wpc, spc, sproc>>
             /\ phase[p] = "down" /\ phase'[p] = "starting" /\ lpc'[p] = "boot"
             /\ queue' = queue
     BY <1>0, <2>1, <2>2 DEF BootAlone
  <2>3. CASE /\ UNCHANGED <<wpc, spc, sproc, lpc>> /\ queue'[p] \in {queue[p], <<>>}
             /\ \/ phase'[p] = phase[p]
                \/ phase'[p] \in {"closing", "draining", "released"}
     BY <1>0, <2>1, <2>3 DEF BootAlone
  <2>4. CASE /\ lpc'[p] = "off" /\ sproc' = sproc
             /\ \A j \in Jobs : spc'[j] = IF sproc[j] = p THEN "done" ELSE spc[j]
     BY <1>0, <2>1, <2>4 DEF BootAlone
  <2> QED BY <1>5, <2>2, <2>3, <2>4, ProcessTouches
<1> QED BY <1>1, <1>2, <1>3, <1>4, <1>5 DEF Next, ProcStep

(* The processes that are past startup recovery and serve hold the lock.   *)
LEMMA OneServes ==
    ASSUME IndInv, ~LeaseLoss, NEW p \in Procs, NEW q \in Procs,
           phase[p] \in {"starting", "up"} \/ lpc[p] = "boot"
              \/ \E w \in Workers : wpc[p][w] # "idle",
           phase[q] \in {"starting", "up"} \/ lpc[q] = "boot"
              \/ \E w \in Workers : wpc[q][w] # "idle"
    PROVE  p = q
<1>1. ASSUME NEW r \in Procs,
             phase[r] \in {"starting", "up"} \/ lpc[r] = "boot"
                \/ \E w \in Workers : wpc[r][w] # "idle"
      PROVE  lock = r
  <2>1. phase[r] \in Phase /\ Quiet(r) /\ UnderLock(r)
     BY DEF IndInv, TypeOK, ProcInv
  <2>2. phase[r] \notin {"down", "released"} BY <1>1, <2>1 DEF Quiet, UnderLock
  <2> QED BY <2>1, <2>2 DEF UnderLock, Serving, Phase
<1> QED BY <1>1

---------------------------------------------------------------------------
(* Running work is left behind in two ways only. *)

LEMMA ThreadExplained ==
    ASSUME IndInv, ~LeaseLoss, NEW p \in Procs, NEW w \in Workers, WStep(p, w),
           NEW q \in Procs, NEW j \in Jobs, Orphan(q, j)', ~Orphan(q, j)
    PROVE  RefusedOutcome(j)
<1>0. /\ UNCHANGED <<lock, phase, lpc, todo, cur>>
      /\ \A r \in Procs : r # p => /\ wpc'[r] = wpc[r] /\ wjob'[r] = wjob[r]
                                   /\ interrupted'[r] = interrupted[r]
      /\ \A v \in Workers : v # w => wpc'[p][v] = wpc[p][v] /\ wjob'[p][v] = wjob[p][v]
   BY ThreadTouches
<1>1. Serves(q) /\ status'[j] = "running" /\ ~Followed(q, j)'
   BY <1>0 DEF Orphan, Serves
<1>2. /\ status \in [Jobs -> Life!Status]
      /\ wjob \in [Procs -> [Workers -> Jobs \cup {NoJob}]]
      /\ wpc \in [Procs -> [Workers -> WPc]]
      /\ interrupted \in [Procs -> SUBSET Jobs]
      /\ wpc[p][w] # "idle" => wjob[p][w] \in Jobs
   BY DEF IndInv, TypeOK, ThreadsPlaced
<1>3. status[j] = "running" => Followed(q, j) BY <1>1 DEF Orphan
<1>4. CASE WClaim(p, w)
  <2>1. /\ wpc[p][w] = "claim" /\ wjob' = wjob /\ interrupted' = interrupted
        /\ wpc'[p][w] \in {"run", "mark", "unsched"}
     BY <1>2, <1>4 DEF WClaim, Goto
  <2>2. CASE status[j] = "running"
    <3>1. \A r \in Procs : \A v \in Workers :
             wpc[r][v] \in {"run", "mark"} => wpc'[r][v] = wpc[r][v]
       BY <1>0, <2>1
    <3> QED BY <1>1, <1>3, <2>1, <2>2, <3>1 DEF Followed
  <2>3. CASE status[j] # "running"
    <3>1. status' # status BY <1>1, <2>3
    <3>2. /\ \A k \in Jobs : k # wjob[p][w] => status'[k] = status[k]
          /\ wpc'[p][w] \in {"run", "mark"}
       BY <1>2, <1>4, <3>1 DEF WClaim, Life!Claim, Life!Write, db, Goto
    <3>3. wjob'[p][w] = j BY <1>1, <2>1, <2>3, <3>2
    <3> QED BY <1>1, <3>2, <3>3 DEF Followed
  <2> QED BY <2>2, <2>3
<1>5. CASE WFinish(p, w)
  <2>1. /\ wpc[p][w] = "run" /\ wjob' = wjob /\ interrupted' = interrupted
        /\ \A k \in Jobs : status'[k] = "running" => status[k] = "running"
        /\ \/ wpc'[p][w] = "mark"
           \/ status'[wjob[p][w]] # "running"
           \/ wpc'[p][w] = "unsched" /\ ClockSteps
    <3>1. CASE \E o \in Life!Terminal : Life!Finish(wjob[p][w], o)
       BY <1>2, <1>5, <3>1 DEF WFinish, Life!Finish, Life!Write, Life!Terminal
    <3>2. CASE \A o \in Life!Terminal : ~Life!Finish(wjob[p][w], o)
       BY <1>2, <1>5, <3>2 DEF WFinish, db, Goto
    <3> QED BY <3>1, <3>2
  <2>2. Followed(q, j) /\ j \notin interrupted[q]
     BY <1>1, <1>3, <2>1 DEF Followed
  <2>3. PICK r \in Procs, v \in Workers : wjob[r][v] = j /\ wpc[r][v] \in {"run", "mark"}
     BY <2>2 DEF Followed
  <2>4. ~(wjob'[r][v] = j /\ wpc'[r][v] \in {"run", "mark"}) BY <1>1 DEF Followed
  <2>5. r = p /\ v = w BY <1>0, <2>1, <2>3, <2>4
  <2>6. wpc'[p][w] = "unsched" /\ ClockSteps BY <1>1, <2>1, <2>3, <2>4, <2>5
  <2> QED BY <2>1, <2>3, <2>5, <2>6 DEF RefusedOutcome
<1>6. CASE WMark(p, w)
  <2>1. /\ wpc[p][w] = "mark" /\ status' = status /\ wjob' = wjob
        /\ interrupted' = [interrupted EXCEPT ![p] = @ \cup {wjob[p][w]}]
     BY <1>6 DEF WMark, db
  <2>2. p = q BY <1>1, <2>1, OneServes DEF Serves
  <2>3. Followed(q, j) /\ j \notin interrupted[q] /\ j # wjob[p][w]
     BY <1>1, <1>2, <1>3, <2>1, <2>2 DEF Followed
  <2>4. PICK r \in Procs, v \in Workers : wjob[r][v] = j /\ wpc[r][v] \in {"run", "mark"}
     BY <2>3 DEF Followed
  <2>5. wpc'[r][v] = wpc[r][v] BY <1>0, <2>3, <2>4
  <2> QED BY <1>1, <2>1, <2>4, <2>5 DEF Followed
<1>7. CASE ~WClaim(p, w) /\ ~WFinish(p, w) /\ ~WMark(p, w)
  <2>1. /\ wpc[p][w] \notin {"run", "mark"}
        /\ interrupted' = interrupted /\ status' = status
     BY <1>7 DEF WStep, WTake, WGet, WUnsched, WRelease, db
  <2>2. \A r \in Procs : \A v \in Workers : wpc[r][v] \in {"run", "mark"} =>
           wpc'[r][v] = wpc[r][v] /\ wjob'[r][v] = wjob[r][v]
     BY <1>0, <2>1
  <2> QED BY <1>1, <1>3, <2>1, <2>2 DEF Followed
<1> QED BY <1>4, <1>5, <1>6, <1>7

(* What the recovery thread does to rows that run: startup takes them all, *)
(* and leaves nothing running when it goes on; later only the copied ones  *)
(* are taken.                                                              *)
LEMMA LoopRows ==
    ASSUME IndInv, NEW p \in Procs, LoopStep(p)
    PROVE  /\ \A j \in Jobs : status'[j] = "running" => status[j] = "running"
           /\ lpc[p] = "boot" /\ lpc'[p] = "list" =>
                 \A j \in Jobs : status'[j] # "running"
           /\ status' # status => lpc[p] = "boot" \/ (lpc[p] = "requeue" /\ todo[p] # {})
<1>0. /\ status \in [Jobs -> Life!Status] /\ lpc \in [Procs -> LPc]
   BY DEF IndInv, TypeOK
<1>1. ASSUME NEW S, Life!Recover(S)
      PROVE  \A j \in Jobs : status'[j] = IF j \in S THEN "queued" ELSE status[j]
   BY <1>1 DEF Life!Recover
<1>2. CASE Boot(p)
  <2>1. lpc[p] = "boot" BY <1>2 DEF Boot
  <2>2. \A j \in Jobs : status'[j] = "running" => status[j] = "running"
     BY <1>1, <1>2 DEF Boot, db
  <2>3. ASSUME lpc'[p] = "list" PROVE \A j \in Jobs : status'[j] # "running"
    <3>1. PICK B \in SUBSET InStatus("running") :
             /\ \/ Cardinality(B) = BatchSize
                \/ B = InStatus("running") /\ Cardinality(B) < BatchSize
             /\ Life!Recover(B)
             /\ Cardinality(B) < BatchSize
       BY <1>0, <1>2, <2>3 DEF Boot, BootFails, At
    <3>2. B = InStatus("running") BY <3>1, BatchAssumption
    <3> QED BY <1>1, <3>1, <3>2 DEF InStatus
  <2> QED BY <2>1, <2>2, <2>3
<1>3. CASE LoopRequeue(p)
  <2>1. lpc[p] = "requeue" /\ todo[p] # {} BY <1>3 DEF LoopRequeue
  <2>2. \A j \in Jobs : status'[j] = "running" => status[j] = "running"
     BY <1>1, <1>3 DEF LoopRequeue, db
  <2> QED BY <2>1, <2>2
<1>4. CASE ~Boot(p) /\ ~LoopRequeue(p)
  <2>1. lpc[p] # "boot" /\ status' = status
     BY <1>4 DEF LoopStep, LoopList, LoopCheck, LoopAdmit, LoopPassDone, LoopWake,
                 LoopStop, LoopDiscard, LoopRequeued, db
  <2> QED BY <2>1
<1> QED BY <1>2, <1>3, <1>4

LEMMA LoopExplained ==
    ASSUME IndInv, NEW p \in Procs, LoopStep(p),
           NEW q \in Procs, NEW j \in Jobs, Orphan(q, j)'
    PROVE  Orphan(q, j) \/ SharedMark(q, j)
<1>0. /\ UNCHANGED <<lock, wpc, wjob>>
      /\ \A r \in Procs : r # p => /\ phase'[r] = phase[r] /\ lpc'[r] = lpc[r]
                                   /\ interrupted'[r] = interrupted[r]
      /\ lpc'[p] = "boot" => lpc[p] = "boot"
      /\ phase'[p] # phase[p] => phase'[p] = "draining" \/ phase[p] = "starting"
   BY LoopTouches
<1>1. Serves(q)' /\ status'[j] = "running" /\ ~Followed(q, j)' BY DEF Orphan
<1>2. status[j] = "running" BY <1>1, LoopRows
<1>3. CASE interrupted'[q] = interrupted[q] /\ Serves(q)
   BY <1>0, <1>1, <1>2, <1>3 DEF Orphan, Followed
<1>4. CASE q # p BY <1>0, <1>1, <1>3, <1>4 DEF Serves
<1>5. CASE q = p /\ lpc[p] = "boot"
  <2>1. Boot(p)
     BY <1>5 DEF LoopStep, LoopList, LoopCheck, LoopAdmit, LoopPassDone, LoopWake,
                 LoopStop, LoopRequeue, LoopDiscard, LoopRequeued
  <2>2. lpc'[p] \in {"boot", "list"} \/ phase'[p] = "draining"
     BY <2>1 DEF Boot, BootFails, At, IndInv, TypeOK
  <2> QED BY <1>1, <1>5, <2>2, LoopRows DEF Serves
<1>6. CASE q = p /\ lpc[p] # "boot"
  <2>1. Serves(p) BY <1>0, <1>1, <1>6 DEF Serves
  <2>2. CASE LoopDiscard(p)
    <3>1. /\ lpc[p] = "discard" /\ lpc'[p] = "requeue"
          /\ interrupted'[p] = interrupted[p] \ {cur[p]}
       BY <2>2 DEF LoopDiscard, At, IndInv, TypeOK
    <3>2. CASE cur[p] = j BY <1>2, <1>6, <3>1, <3>2 DEF SharedMark
    <3>3. CASE cur[p] # j BY <1>0, <1>1, <1>2, <1>6, <2>1, <3>1, <3>3 DEF Orphan, Followed
    <3> QED BY <3>2, <3>3
  <2>3. CASE ~LoopDiscard(p)
    <3>1. interrupted' = interrupted
       BY <2>3 DEF LoopStep, Boot, LoopList, LoopCheck, LoopAdmit, LoopPassDone,
                   LoopWake, LoopStop, LoopRequeue, LoopRequeued
    <3> QED BY <1>3, <1>6, <2>1, <3>1
  <2> QED BY <2>2, <2>3
<1> QED BY <1>4, <1>5, <1>6

LEMMA ProcessExplained ==
    ASSUME IndInv, ~LeaseLoss, NEW p \in Procs,
           \/ Start(p) \/ CloseStep(p) \/ Crash(p)
           \/ Close(p) \/ LoseLease(p) \/ Readiness(p),
           NEW q \in Procs, NEW j \in Jobs, Orphan(q, j)'
    PROVE  Orphan(q, j)
<1>1. Serves(q)' /\ status'[j] = "running" /\ ~Followed(q, j)' BY DEF Orphan
<1>2. status[j] = "running" BY <1>1, ProcessTouches
<1>3. CASE q # p
  <2>1. /\ Serves(q) /\ interrupted'[q] = interrupted[q]
        /\ \A r \in Procs : r # p => wpc'[r] = wpc[r] /\ wjob'[r] = wjob[r]
     BY <1>1, <1>3, ProcessTouches DEF Serves
  <2>2. \A w \in Workers : wpc[p][w] = "idle"
     BY <1>3, <2>1, OneServes DEF Serves
  <2>3. \A r \in Procs : \A w \in Workers : wpc[r][w] \in {"run", "mark"} => r # p
     BY <2>2
  <2> QED BY <1>1, <1>2, <2>1, <2>3 DEF Orphan, Followed
<1>4. CASE q = p
  <2>1. /\ UNCHANGED <<wpc, wjob, interrupted, lpc>> /\ phase'[p] = phase[p]
     BY <1>1, <1>4, ProcessTouches DEF Serves
  <2> QED BY <1>1, <1>2, <1>4, <2>1 DEF Orphan, Followed, Serves
<1> QED BY <1>3, <1>4

(* _execute_scheduled and the two halves of the local recovery: a running  *)
(* job loses the last that follows it only when the recovery thread drops  *)
(* a mark that two interruptions shared, or when the clock makes its       *)
(* outcome invalid; for any number of outages, crashes and processes.      *)
THEOREM OrphansAccounted ==
    ASSUME ~LeaseLoss PROVE Spec => OrphansExplained
<1>1. ASSUME IndInv, [Next]_vars, NEW q \in Procs, NEW j \in Jobs, Orphan(q, j)'
      PROVE  Orphan(q, j) \/ SharedMark(q, j) \/ RefusedOutcome(j)
  <2>1. CASE UNCHANGED vars
     BY <1>1, <2>1 DEF vars, Orphan, Serves, Followed
  <2>2. ASSUME NEW k \in Jobs, SStep(k) \/ \E p \in Procs : SCreate(k, p)
        PROVE  Orphan(q, j)
     BY <1>1, <2>2, SubmitTouches DEF Orphan, Serves, Followed
  <2> QED BY <1>1, <2>1, <2>2, ThreadExplained, LoopExplained, ProcessExplained
          DEF Next, ProcStep
<1>2. IndInv /\ [Next]_vars =>
         [\A p \in Procs : \A j \in Jobs :
             Orphan(p, j)' => Orphan(p, j) \/ SharedMark(p, j) \/ RefusedOutcome(j)]_vars
   BY <1>1
<1> QED BY <1>2, IndInvHolds, PTL DEF Spec, OrphansExplained

---------------------------------------------------------------------------
(* Live work is put back only through a mark. *)

(* The copy that the recovery thread works off holds marked jobs only. *)
CopyMarked ==
    \A p \in Procs : lpc[p] \in {"requeue", "discard"} => todo[p] \subseteq interrupted[p]

LEMMA CopyNext ==
    ASSUME IndInv, CopyMarked, [Next]_vars PROVE CopyMarked'
<1>0. /\ lpc \in [Procs -> LPc] /\ todo \in [Procs -> SUBSET Jobs]
      /\ interrupted \in [Procs -> SUBSET Jobs]
   BY DEF IndInv, TypeOK
<1>1. CASE UNCHANGED vars BY <1>1 DEF vars, CopyMarked
<1>2. ASSUME NEW p \in Procs, NEW w \in Workers, WStep(p, w) PROVE CopyMarked'
  <2>1. /\ UNCHANGED <<lpc, todo>>
        /\ \A q \in Procs : q # p => interrupted'[q] = interrupted[q]
     BY <1>2, ThreadTouches
  <2>2. interrupted[p] \subseteq interrupted'[p]
     BY <1>0, <1>2 DEF WStep, WTake, WGet, WClaim, WFinish, WMark, WUnsched, WRelease
  <2> QED BY <2>1, <2>2 DEF CopyMarked
<1>3. ASSUME NEW p \in Procs, LoopStep(p) PROVE CopyMarked'
  <2>1. \A q \in Procs : q # p => /\ lpc'[q] = lpc[q] /\ todo'[q] = todo[q]
                                  /\ interrupted'[q] = interrupted[q]
     BY <1>3, LoopTouches
  <2>2. lpc'[p] \in {"requeue", "discard"} => todo'[p] \subseteq interrupted'[p]
    <3>1. CASE LoopWake(p) BY <1>0, <3>1 DEF LoopWake, At
    <3>2. CASE LoopRequeue(p) BY <1>0, <3>2 DEF LoopRequeue, At, CopyMarked
    <3>3. CASE LoopDiscard(p) BY <1>0, <3>3 DEF LoopDiscard, At, CopyMarked
    <3>4. CASE ~LoopWake(p) /\ ~LoopRequeue(p) /\ ~LoopDiscard(p)
      <4>1. lpc'[p] \notin {"requeue", "discard"}
         BY <1>0, <1>3, <3>4
            DEF LoopStep, Boot, BootFails, LoopList, LoopCheck, LoopAdmit, LoopPassDone,
                LoopStop, LoopRequeued, At
      <4> QED BY <4>1
    <3> QED BY <3>1, <3>2, <3>3, <3>4
  <2> QED BY <2>1, <2>2 DEF CopyMarked
<1>4. ASSUME NEW j \in Jobs, SStep(j) \/ \E p \in Procs : SCreate(j, p) PROVE CopyMarked'
   BY <1>4, SubmitTouches DEF CopyMarked
<1>5. ASSUME NEW p \in Procs,
             \/ Start(p) \/ CloseStep(p) \/ Crash(p)
             \/ Close(p) \/ LoseLease(p) \/ Readiness(p)
      PROVE  CopyMarked'
  <2>1. \A q \in Procs : q # p => /\ lpc'[q] = lpc[q] /\ todo'[q] = todo[q]
                                  /\ interrupted'[q] = interrupted[q]
     BY <1>5, ProcessTouches
  <2>2. \/ lpc'[p] \in {"boot", "off"}
        \/ lpc'[p] = lpc[p] /\ UNCHANGED <<todo, interrupted>>
     BY <1>5, ProcessTouches
  <2> QED BY <2>1, <2>2 DEF CopyMarked
<1> QED BY <1>1, <1>2, <1>3, <1>4, <1>5 DEF Next, ProcStep

LEMMA LiveNext ==
    ASSUME IndInv, BootAlone, CopyMarked, ~LeaseLoss, [Next]_vars,
           NEW p \in Procs, NEW w \in Workers, NEW j \in Jobs, wjob[p][w] = j,
           wpc[p][w] = "run", status[j] = "running", status'[j] = "queued"
    PROVE  \E q \in Procs : j \in interrupted[q]
<1>1. ~UNCHANGED status OBVIOUS
<1>2. ASSUME NEW q \in Procs, NEW v \in Workers, WStep(q, v) PROVE FALSE
  <2>0. /\ status \in [Jobs -> Life!Status]
        /\ wpc[q][v] # "idle" => wjob[q][v] \in Jobs
     BY DEF IndInv, TypeOK, ThreadsPlaced
  <2>1. WClaim(q, v) \/ WFinish(q, v)
     BY <1>1, <1>2 DEF WStep, WTake, WGet, WMark, WUnsched, WRelease, db
  <2>2. \A k \in Jobs : status'[k] = "queued" => status[k] = "queued"
     BY <2>0, <2>1
        DEF WClaim, WFinish, Life!Claim, Life!Finish, Life!Write, Life!Terminal, db
  <2> QED BY <2>2
<1>3. ASSUME NEW k \in Jobs, SStep(k) \/ \E q \in Procs : SCreate(k, q) PROVE FALSE
   BY <1>3, SubmitTouches
<1>4. ASSUME NEW q \in Procs, LoopStep(q) PROVE \E r \in Procs : j \in interrupted[r]
  <2>1. CASE lpc[q] = "boot"
    <3>1. p = q BY <2>1, OneServes
    <3> QED BY <2>1, <3>1 DEF BootAlone
  <2>2. CASE lpc[q] # "boot"
    <3>1. LoopRequeue(q)
       BY <1>1, <1>4, <2>2 DEF LoopStep, Boot, LoopList, LoopCheck, LoopAdmit, LoopPassDone,
                LoopWake, LoopStop, LoopDiscard, LoopRequeued, db
    <3>2. PICK k \in todo[q] : Life!Recover({k})
       BY <1>1, <3>1 DEF LoopRequeue, db
    <3>3. k = j BY <3>2 DEF Life!Recover
    <3> QED BY <3>1, <3>3 DEF CopyMarked, LoopRequeue
  <2> QED BY <2>1, <2>2
<1>5. ASSUME NEW q \in Procs,
             \/ Start(q) \/ CloseStep(q) \/ Crash(q)
             \/ Close(q) \/ LoseLease(q) \/ Readiness(q)
      PROVE  FALSE
   BY <1>1, <1>5, ProcessTouches
<1>6. ~UNCHANGED vars BY <1>1 DEF vars
<1> QED BY <1>2, <1>3, <1>4, <1>5, <1>6 DEF Next, ProcStep

(* requeue_running_job_with_event and the startup pass: they take a row    *)
(* whose job some thread is executing only if an outage of that job left a *)
(* mark; in any number of processes, outages, crashes and shutdowns.       *)
THEOREM LiveWorkStays ==
    ASSUME ~LeaseLoss PROVE Spec => LiveWorkKept
<1>1. Init => BootAlone /\ CopyMarked
   BY DEF Init, BootAlone, CopyMarked
<1>2. IndInv /\ BootAlone /\ [Next]_vars => BootAlone' BY BootAloneNext
<1>3. IndInv /\ CopyMarked /\ [Next]_vars => CopyMarked' BY CopyNext
<1>4. IndInv /\ BootAlone /\ CopyMarked /\ [Next]_vars =>
         [\A p \in Procs : \A w \in Workers : LET j == wjob[p][w] IN
             /\ wpc[p][w] = "run"
             /\ status[j] = "running"
             /\ status'[j] = "queued"
             => \E q \in Procs : j \in interrupted[q]]_vars
  <2> SUFFICES ASSUME IndInv, BootAlone, CopyMarked, [Next]_vars,
                      NEW p \in Procs, NEW w \in Workers,
                      wpc[p][w] = "run", status[wjob[p][w]] = "running",
                      status'[wjob[p][w]] = "queued"
               PROVE  \E q \in Procs : wjob[p][w] \in interrupted[q]
      OBVIOUS
  <2>1. wjob[p][w] \in Jobs BY DEF IndInv, ThreadsPlaced
  <2> QED BY <2>1, LiveNext
<1> QED BY <1>1, <1>2, <1>3, <1>4, IndInvHolds, PTL DEF Spec, LiveWorkKept

=============================================================================
