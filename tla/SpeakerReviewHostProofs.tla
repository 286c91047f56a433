----------------------- MODULE SpeakerReviewHostProofs -----------------------
(***************************************************************************)
(* Proofs about SpeakerReviewHost, for any number of crashes and refused   *)
(* calls, wherever and however far apart they hit.                         *)
(*                                                                         *)
(* Host and worker only meet in the run directory, and each has its half   *)
(* of the inductive invariant.  A worker in the middle of its step is on   *)
(* the step after the saved one, of a run that has not ended, and knows    *)
(* how far its part is paid for.  A script in the middle of its own has    *)
(* all earlier receipts, writes no record that is there already, and       *)
(* comes to its receipt only when the run state has taken the step.        *)
(*                                                                         *)
(* A second invariant, Held, is true as long as no fault has hit one of    *)
(* the windows of StopsOnlyInWindows.  From it follows that the scripts    *)
(* take the run to its end wherever else they died.                        *)
(***************************************************************************)
EXTENDS SpeakerReviewHost, TLAPS

(* A part is bought once, by whoever holds its intent, and a record names  *)
(* a batch that was bought.                                                *)
JournalOK ==
    \A p \in Parts :
       /\ Len(batches[p]) <= 1 /\ completed[p] <= Len(batches[p])
       /\ p \notin intent => Len(batches[p]) = 0

(* What the saved steps stand for. *)
StageOK ==
    /\ \A p \in Parts : p <= stage => Recorded(p)
    /\ \A k \in Observes : k <= stage => k \in stored

Working == {"intent", "call", "record", "download", "save"}

WorkerOK ==
    LET k == worker.step IN
    /\ worker.at \in Working => k = stage + 1 /\ ~ended
    /\ worker.at \in {"intent", "call", "record"} => k \in Parts /\ k \notin torn
    /\ worker.at \in {"call", "record"} => k \in intent
    /\ worker.at = "call" => Len(batches[k]) = 0
    /\ worker.at = "record" => Len(batches[k]) = 1 /\ completed[k] = 0
    /\ worker.at = "download" => k \in Observes
    /\ worker.at = "save" => /\ k \in Parts => Recorded(k)
                             /\ k \in Observes => k \in stored
    /\ worker.at = "done" => k <= stage

(* What a script that runs knows of the run, and it stays true. *)
HostOK ==
    LET k == host.step IN
    host.at # "idle" =>
       /\ k <= stage + 1
       /\ k > stage => ~ended
       /\ host.record = "receipt" => k <= stage
       /\ host.at \in {"launch", "wait"} => host.record = "intent"
       /\ host.at = "wait" /\ worker.at # "none" => worker.step = k

(* Of its own records it only writes what is not there, in this order. *)
RecordsOK ==
    LET k == host.step IN
    host.at # "idle" =>
       /\ \A j \in 1 .. k - 1 : Has(j, "receipt")
       /\ host.at = "write" /\ k # 1 => ~Has(k, host.record)
       /\ host.record # "receipt" => ~Has(k, "receipt")
       /\ host.record = "claim" => ~Has(k, "intent")
       /\ k \in {14, 15, 17} /\ host.record # "claim" => Has(k, "claim")
       /\ k \in {6, 14, 15} /\ (host.record = "receipt" \/ host.at \in {"launch", "wait"})
             => Has(k, "intent")
       /\ k = 1 => host.at # "link"

(* A step with several records has them in order; the submission creates   *)
(* its files in place.                                                     *)
FilesOK ==
    /\ \A k \in {14, 15, 17} : Has(k, "intent") => Has(k, "claim")
    /\ \A k \in {6, 14, 15} : Has(k, "receipt") => Has(k, "intent")
    /\ \A k \in Steps : Has(k, "receipt") =>
          k <= stage /\ \A j \in 1 .. k - 1 : Has(j, "receipt")

IndInv ==
    /\ TypeOK
    /\ JournalOK
    /\ StageOK
    /\ WorkerOK
    /\ HostOK
    /\ RecordsOK
    /\ FilesOK


---------------------------------------------------------------------------
(* Steps of the worker.                                                    *)

Places == HostStates \cup WorkerStates
Deaths == [step : Steps, at : Places]

(* The submissions are the parts, and each observation follows one. *)
LEMMA PartsAreSubmits ==
    /\ Parts = Submits /\ Parts \subseteq Steps /\ Observes \subseteq Steps
    /\ \A k \in Observes : k - 1 \in Parts /\ k \notin Parts
    /\ \A p, q \in Parts : q < p => q + 1 \in Observes \/ q + 1 > 17
    /\ Steps \subseteq Nat
BY HostAssumption DEF Submits, Steps, Observes

(* The run moves on with its worker; nobody writes a record. *)
Advances ==
    /\ UNCHANGED <<file, host>>
    /\ \/ stage' = stage /\ ended' = ended
       \/ stage' = stage + 1
    /\ \/ worker'.at = "none"
       \/ worker.at # "none" /\ worker'.step = worker.step

LEMMA RunAdvances ==
    ASSUME IndInv, Advances, TypeOK', JournalOK', StageOK', WorkerOK'
    PROVE  IndInv'
<1>1. stage \in Nat /\ stage' \in Nat /\ stage' >= stage
  BY DEF IndInv, TypeOK, Advances
<1>2. host.step \in Nat /\ Steps \subseteq Nat
  BY DEF IndInv, TypeOK, Steps
<1>3. \A k, r : Has(k, r)' <=> Has(k, r)
  BY DEF Has, Advances
<1>4. HostOK'
  BY <1>1, <1>2 DEF IndInv, HostOK, Advances
<1>5. RecordsOK'
  BY <1>3 DEF IndInv, RecordsOK, Advances
<1>6. FilesOK'
  BY <1>1, <1>2, <1>3 DEF IndInv, FilesOK
<1> QED
  BY <1>4, <1>5, <1>6 DEF IndInv

LEMMA WorkerToTyped ==
    ASSUME TypeOK, NEW a \in WorkerStates, WorkerTo(a)
    PROVE  /\ worker' \in [at : WorkerStates, step : Steps]
           /\ worker'.at = a /\ worker'.step = worker.step
BY DEF TypeOK, WorkerTo, WorkerStates

LEMMA NoWorkerTyped ==
    NoWorker \in [at : WorkerStates, step : Steps] /\ NoWorker.at = "none"
BY DEF NoWorker, WorkerStates, Steps

(* A worker that waits, failed, or is gone: nothing is claimed of it. *)
LEMMA WorkerRests ==
    ASSUME IndInv, UNCHANGED <<stage, ended, stored, file, host>>, spoiled' \in BOOLEAN,
           worker' \in [at : WorkerStates, step : Steps],
           worker'.at \in {"none", "waiting", "failed"},
           worker'.at = "none" \/ (worker.at # "none" /\ worker'.step = worker.step),
           JournalTypeOK', JournalOK', StageOK', died' \in Seq(Deaths),
           Len(died') <= MaxFaults
    PROVE  IndInv'
<1>1. TypeOK'
  BY DEF IndInv, TypeOK, WorkerStates, Deaths, Places
<1>2. WorkerOK'
  BY DEF WorkerOK, Working
<1> QED
  BY <1>1, <1>2, RunAdvances DEF Advances

LEMMA JournalStays ==
    ASSUME JournalTypeOK, JournalOK, StageOK, UNCHANGED <<journal, stage, stored>>
    PROVE  JournalTypeOK' /\ JournalOK' /\ StageOK'
BY DEF JournalTypeOK, JournalOK, StageOK, journal, Recorded

(* Half a record is of a part that had none. *)
LEMMA KillKeeps ==
    ASSUME IndInv, Killed, UNCHANGED <<stage, stored>>
    PROVE  /\ JournalTypeOK' /\ JournalOK' /\ StageOK' /\ spoiled' \in BOOLEAN
           /\ UNCHANGED <<intent, completed, batches>>
           /\ \A p \in Parts : Recorded(p) => Recorded(p)'
           /\ \A p \in Parts : p \in torn' => p \in torn \/ p \in intent
<1>1. CASE UNCHANGED <<journal, spoiled>>
  BY <1>1, JournalStays DEF IndInv, TypeOK, journal, Recorded
<1>2. CASE worker.at = "save" /\ spoiled' = TRUE /\ UNCHANGED journal
  BY <1>2, JournalStays DEF IndInv, TypeOK, journal, Recorded
<1>3. CASE worker.at = "record" /\ TearRecord(worker.step) /\ UNCHANGED spoiled
  <2>1. /\ worker.step \in Parts /\ worker.step = stage + 1 /\ stage \in Nat
        /\ worker.step \in intent /\ completed[worker.step] = 0
        /\ torn' = torn \cup {worker.step}
        /\ UNCHANGED <<intent, completed, batches, spoiled>>
    BY <1>3 DEF TearRecord, IndInv, TypeOK, WorkerOK, Working
  <2>2. JournalTypeOK' /\ JournalOK' /\ spoiled' \in BOOLEAN
    BY <2>1 DEF IndInv, TypeOK, JournalTypeOK, JournalOK
  <2>3. StageOK'
    BY <2>1 DEF IndInv, StageOK, Recorded
  <2> QED
    BY <2>1, <2>2, <2>3 DEF Recorded
<1> QED
  BY <1>1, <1>2, <1>3 DEF Killed

LEMMA ClaimKeepsInv ==
    ASSUME IndInv, Claim PROVE IndInv'
<1> DEFINE k == worker.step
<1>1. /\ worker.at = "intent" /\ k \in Parts /\ k \notin intent
      /\ intent' = intent \cup {k}
      /\ UNCHANGED <<completed, torn, batches, stage, ended, stored, spoiled, file, host, died>>
  BY DEF Claim, ClaimPart, IndInv, WorkerOK
<1>2. /\ worker' \in [at : WorkerStates, step : Steps]
      /\ worker'.at = "call" /\ worker'.step = k
  BY WorkerToTyped DEF Claim, IndInv, WorkerStates
<1>3. TypeOK'
  BY <1>1, <1>2 DEF IndInv, TypeOK, JournalTypeOK, WorkerStates
<1>4. JournalOK' /\ StageOK'
  BY <1>1 DEF IndInv, JournalOK, StageOK, Recorded
<1>5. WorkerOK'
  BY <1>1, <1>2 DEF IndInv, WorkerOK, JournalOK, Working
<1> QED
  BY <1>1, <1>2, <1>3, <1>4, <1>5, RunAdvances DEF Advances

(* The provider takes the batch of a part that was never bought. *)
LEMMA PartBought ==
    ASSUME IndInv, worker.at = "call", ProviderAccepts(worker.step)
    PROVE  /\ JournalTypeOK' /\ JournalOK'
           /\ stage' = stage /\ stored' = stored => StageOK'
           /\ Len(batches'[worker.step]) = 1
           /\ \A p \in Parts \ {worker.step} : batches'[p] = batches[p]
<1> DEFINE k == worker.step
<1>1. /\ k \in Parts /\ Len(batches[k]) = 0 /\ k \in intent
      /\ batches' = [batches EXCEPT ![k] = Append(@, "running")]
      /\ UNCHANGED <<intent, completed, torn>>
      /\ batches \in [Parts -> Seq(BatchStatuses)]
  BY DEF ProviderAccepts, IndInv, WorkerOK, TypeOK, JournalTypeOK
<1>2. "running" \in BatchStatuses /\ batches[k] \in Seq(BatchStatuses)
  BY <1>1 DEF BatchStatuses
<1>3. /\ Append(batches[k], "running") \in Seq(BatchStatuses)
      /\ Len(Append(batches[k], "running")) = 1
  BY <1>1, <1>2
<1>4. /\ batches' \in [Parts -> Seq(BatchStatuses)] /\ Len(batches'[k]) = 1
      /\ \A p \in Parts \ {k} : batches'[p] = batches[p]
  BY <1>1, <1>3
<1>5. JournalTypeOK'
  BY <1>1, <1>4, MaxBatchesAssumption DEF IndInv, TypeOK, JournalTypeOK
<1>6. completed[k] \in Nat /\ completed[k] <= 0
  BY <1>1 DEF IndInv, JournalOK, TypeOK, JournalTypeOK
<1>7. JournalOK'
  BY <1>1, <1>4, <1>6 DEF IndInv, JournalOK
<1> QED
  BY <1>1, <1>4, <1>5, <1>7 DEF IndInv, StageOK, Recorded

LEMMA CallKeepsInv ==
    ASSUME IndInv, CallProvider PROVE IndInv'
<1>1. /\ worker.at = "call" /\ ProviderAccepts(worker.step)
      /\ UNCHANGED <<intent, completed, torn, stage, ended, stored, spoiled, file, host, died>>
  BY DEF CallProvider, ProviderAccepts
<1>2. /\ worker' \in [at : WorkerStates, step : Steps]
      /\ worker'.at = "record" /\ worker'.step = worker.step
  BY WorkerToTyped DEF CallProvider, IndInv, WorkerStates
<1>3. TypeOK'
  BY <1>1, <1>2, PartBought DEF IndInv, TypeOK, WorkerStates
<1>4. completed[worker.step] = 0
  BY <1>1 DEF IndInv, WorkerOK, JournalOK, TypeOK, JournalTypeOK
<1>5. WorkerOK'
  BY <1>1, <1>2, <1>4, PartBought DEF IndInv, WorkerOK, Working, ProviderAccepts
<1> QED
  BY <1>1, <1>2, <1>3, <1>5, PartBought, RunAdvances DEF Advances

LEMMA RecordKeepsInv ==
    ASSUME IndInv, RecordBatch PROVE IndInv'
<1> DEFINE k == worker.step
<1>1. /\ worker.at = "record" /\ k \in Parts /\ k \in intent /\ k \notin torn
      /\ Len(batches[k]) = 1
      /\ completed' = [completed EXCEPT ![k] = Len(batches[k])]
      /\ UNCHANGED <<intent, torn, batches, stage, ended, stored, spoiled, file, host, died>>
      /\ k = stage + 1 /\ ~ended
  BY DEF RecordBatch, RecordPart, IndInv, WorkerOK, Working
<1>2. /\ worker' \in [at : WorkerStates, step : Steps]
      /\ worker'.at = "save" /\ worker'.step = k
  BY WorkerToTyped DEF RecordBatch, IndInv, WorkerStates
<1>3. /\ completed' \in [Parts -> 0 .. MaxBatches] /\ completed'[k] = 1
      /\ \A p \in Parts \ {k} : completed'[p] = completed[p]
  BY <1>1, MaxBatchesAssumption DEF IndInv, TypeOK, JournalTypeOK
<1>4. TypeOK'
  BY <1>1, <1>2, <1>3 DEF IndInv, TypeOK, JournalTypeOK, WorkerStates
<1>5. JournalOK'
  BY <1>1, <1>3 DEF IndInv, JournalOK
<1>6. Recorded(k)' /\ StageOK'
  <2>1. (k \in intent /\ completed[k] # 0 /\ k \notin torn)'
    BY <1>1, <1>2, <1>3
  <2>2. \A p \in Parts : Recorded(p) => Recorded(p)'
    BY <1>1, <1>2, <1>3, <2>1 DEF Recorded
  <2> QED
    BY <1>1, <2>1, <2>2 DEF IndInv, StageOK, Recorded
<1>7. k \notin Observes
  BY <1>1, PartsAreSubmits
<1>8. WorkerOK'
  BY <1>1, <1>2, <1>6, <1>7 DEF WorkerOK, Working
<1> QED
  BY <1>1, <1>2, <1>4, <1>5, <1>6, <1>8, RunAdvances DEF Advances

LEMMA DownloadKeepsInv ==
    ASSUME IndInv, Download PROVE IndInv'
<1> DEFINE k == worker.step
<1>1. /\ worker.at = "download" /\ k \in Observes /\ k = stage + 1 /\ ~ended
      /\ stored' = stored \cup {k}
      /\ UNCHANGED <<intent, completed, torn, batches, stage, ended, spoiled, file, host, died>>
  BY DEF Download, journal, IndInv, WorkerOK, Working
<1>2. /\ worker' \in [at : WorkerStates, step : Steps]
      /\ worker'.at = "save" /\ worker'.step = k
  BY WorkerToTyped DEF Download, IndInv, WorkerStates
<1>3. TypeOK'
  BY <1>1, <1>2 DEF IndInv, TypeOK, JournalTypeOK, WorkerStates
<1>4. JournalOK' /\ StageOK'
  BY <1>1 DEF IndInv, JournalOK, StageOK, Recorded
<1>5. k \notin Parts
  BY <1>1, PartsAreSubmits
<1>6. WorkerOK'
  BY <1>1, <1>2, <1>5 DEF WorkerOK, Working
<1> QED
  BY <1>1, <1>2, <1>3, <1>4, <1>6, RunAdvances DEF Advances

LEMMA SaveKeepsInv ==
    ASSUME IndInv, NEW steps, NEW ends \in BOOLEAN, Save(steps, ends)
    PROVE  IndInv'
<1> DEFINE k == worker.step
<1>1. /\ worker.at = "save" /\ k = stage + 1 /\ k \in Steps
      /\ stage' = k /\ ended' = ends
      /\ UNCHANGED <<intent, completed, torn, batches, stored, spoiled, file, host, died>>
      /\ k \in Parts => Recorded(k)
      /\ k \in Observes => k \in stored
  BY DEF Save, journal, IndInv, TypeOK, WorkerOK, Working
<1>2. /\ worker' \in [at : WorkerStates, step : Steps]
      /\ worker'.at = "done" /\ worker'.step = k
  BY WorkerToTyped DEF Save, IndInv, WorkerStates
<1>3. stage \in Nat /\ stage' \in 0 .. 17
  BY <1>1 DEF IndInv, TypeOK, Steps
<1>4. TypeOK'
  BY <1>1, <1>2, <1>3 DEF IndInv, TypeOK, JournalTypeOK, WorkerStates
<1>5. JournalOK'
  BY <1>1 DEF IndInv, JournalOK
<1>6. \A n \in Nat : n <= stage' => n <= stage \/ n = k
  BY <1>1, <1>3
<1>7. StageOK'
  BY <1>1, <1>6, PartsAreSubmits DEF IndInv, StageOK, Recorded
<1>8. WorkerOK'
  BY <1>1, <1>2, <1>3 DEF WorkerOK, Working
<1> QED
  BY <1>1, <1>2, <1>4, <1>5, <1>7, <1>8, RunAdvances DEF Advances

LEMMA WorkerKeepsInv ==
    ASSUME IndInv, WorkerStep PROVE IndInv'
<1>1. ASSUME NEW steps, SaveObservation(steps) PROVE IndInv'
  <2>1. PICK ends \in BOOLEAN : ends = (BatchOf(worker.step) = "failed")
    OBVIOUS
  <2> QED
    BY <1>1, <2>1, SaveKeepsInv DEF SaveObservation
<1>2. CASE SavePrimaryObservation \/ SaveAdjudicationObservation \/ SaveFinalReviewObservation
  BY <1>1, <1>2 DEF SavePrimaryObservation, SaveAdjudicationObservation,
     SaveFinalReviewObservation
<1>3. CASE \/ SavePrimarySubmission \/ SaveAdjudicationSubmission \/ SaveFinalReviewSubmission
           \/ SavePrimaryResults \/ SaveAdjudicationResults
  BY <1>3, SaveKeepsInv DEF SavePrimarySubmission, SaveAdjudicationSubmission,
     SaveFinalReviewSubmission, SavePrimaryResults, SaveAdjudicationResults
<1>4. CASE Fades
  <2>1. JournalTypeOK' /\ JournalOK' /\ StageOK'
    BY <1>4, JournalStays DEF Fades, IndInv, TypeOK
  <2> QED
    BY <1>4, <2>1, NoWorkerTyped, WorkerRests DEF Fades, IndInv, TypeOK, Deaths, Places
<1> QED
  BY <1>2, <1>3, <1>4, ClaimKeepsInv, CallKeepsInv, RecordKeepsInv, DownloadKeepsInv
     DEF WorkerStep


---------------------------------------------------------------------------
(* Steps of the provider, and faults of the worker.                        *)

LEMMA EndKeepsInv ==
    ASSUME IndInv, EndBatch PROVE IndInv'
<1>0. PICK p \in Parts, how \in {"done", "failed"} :
         \E n \in 1 .. Len(batches[p]) : batches' = [batches EXCEPT ![p][n] = how]
  BY DEF EndBatch, BatchEnds
<1>1. PICK n \in 1 .. Len(batches[p]) : batches' = [batches EXCEPT ![p][n] = how]
  BY <1>0
<1>2. UNCHANGED <<intent, completed, torn, stage, ended, stored, spoiled, file, host, worker, died>>
  BY DEF EndBatch, BatchEnds
<1>3. PICK b \in Seq(BatchStatuses) : b = batches[p]
  BY DEF IndInv, TypeOK, JournalTypeOK
<1>4. how \in BatchStatuses
  BY DEF BatchStatuses
<1>5. [b EXCEPT ![n] = how] \in Seq(BatchStatuses) /\ Len([b EXCEPT ![n] = how]) = Len(b)
  BY <1>1, <1>3, <1>4
<1>6. /\ batches' \in [Parts -> Seq(BatchStatuses)]
      /\ \A q \in Parts : Len(batches'[q]) = Len(batches[q])
  BY <1>0, <1>1, <1>3, <1>5 DEF IndInv, TypeOK, JournalTypeOK
<1>7. TypeOK'
  BY <1>2, <1>6 DEF IndInv, TypeOK, JournalTypeOK
<1>8. JournalOK' /\ StageOK'
  BY <1>2, <1>6 DEF IndInv, JournalOK, StageOK, Recorded
<1>9. WorkerOK'
  BY <1>2, <1>6 DEF IndInv, WorkerOK, Recorded
<1> QED
  BY <1>2, <1>7, <1>8, <1>9, RunAdvances DEF Advances

LEMMA FaultTyped ==
    ASSUME IndInv, NEW k \in Steps, NEW at \in Places, Fault(k, at)
    PROVE  died' \in Seq(Deaths) /\ Len(died') <= MaxFaults
<1>1. PICK d : d = [step |-> k, at |-> at]
  OBVIOUS
<1>2. d \in Deaths /\ died \in Seq(Deaths) /\ died' = Append(died, d)
  BY <1>1 DEF Deaths, Places, IndInv, TypeOK, Fault
<1>3. Len(died) < MaxFaults /\ MaxFaults \in Nat
  BY HostAssumption DEF Fault
<1> QED
  BY <1>2, <1>3

LEMMA FailsKeepsInv ==
    ASSUME IndInv, ProviderFails PROVE IndInv'
<1>1. /\ worker.at = "call" /\ worker.step \in Steps /\ spoiled' \in BOOLEAN
      /\ UNCHANGED <<stage, ended, stored, spoiled, file, host>>
  BY DEF ProviderFails, IndInv, TypeOK
<1>2. died' \in Seq(Deaths) /\ Len(died') <= MaxFaults
  BY <1>1, FaultTyped DEF ProviderFails, Places, WorkerStates
<1>3. /\ worker' \in [at : WorkerStates, step : Steps]
      /\ worker'.at = "failed" /\ worker'.step = worker.step
  BY WorkerToTyped DEF ProviderFails, IndInv, WorkerStates
<1>4. JournalTypeOK' /\ JournalOK' /\ StageOK'
  BY <1>1, PartBought, JournalStays DEF ProviderFails, IndInv, TypeOK
<1> QED
  BY <1>1, <1>2, <1>3, <1>4, WorkerRests

LEMMA WorkerDiesKeepsInv ==
    ASSUME IndInv, WorkerDies PROVE IndInv'
<1>1. /\ worker.step \in Steps /\ worker.at \in Places /\ Killed
      /\ UNCHANGED <<stage, ended, stored, file, host>> /\ worker' = NoWorker
  BY DEF WorkerDies, IndInv, TypeOK, Places
<1>2. died' \in Seq(Deaths) /\ Len(died') <= MaxFaults
  BY <1>1, FaultTyped DEF WorkerDies
<1> QED
  BY <1>1, <1>2, KillKeeps, NoWorkerTyped, WorkerRests

---------------------------------------------------------------------------
(* What a script decides.                                                  *)

Decisions == Records \cup {"launch", "rest", "refuse"}

(* Going on, a script does what its records and the run call for. *)
Sound(k, d) ==
    /\ ~Has(k, "receipt")
    /\ d \in Records => ~Has(k, d)
    /\ d = "claim" => ~Has(k, "intent")
    /\ k \in {14, 15, 17} /\ d # "claim" => Has(k, "claim")
    /\ k \in {6, 14, 15} /\ d \in {"receipt", "launch"} => Has(k, "intent")
    /\ d = "receipt" => k <= stage

LEMMA ScriptDecides ==
    ASSUME IndInv, NEW k \in Steps
    PROVE  Script(k) \in Decisions /\ (Script(k) \in Records \cup {"launch"} => Sound(k, Script(k)))
<1> DEFINE Good(d) == d \in Decisions /\ (d \in Records \cup {"launch"} => Sound(k, d))
<1>1. /\ stage \in Nat /\ k \in Nat
      /\ Has(k, "receipt") => k <= stage
      /\ k \in {14, 15, 17} => (Has(k, "intent") => Has(k, "claim"))
      /\ k \in {6, 14, 15} => (Has(k, "receipt") => Has(k, "intent"))
  BY DEF IndInv, TypeOK, FilesOK, Steps
<1> USE <1>1 DEF Decisions, Records, Sound, Saved
<1>2. CASE k = 1
  <2>1. Good(Submission(k))
    BY <1>2 DEF Submission
  <2> QED
    BY <1>2, <2>1 DEF Script
<1>3. CASE k = 2
  <2>1. Good(Observation(k))
    BY <1>3 DEF Observation
  <2> QED
    BY <1>3, <2>1 DEF Script
<1>4. CASE k = 3
  <2>1. Good(NextPrimary(k))
    BY <1>4 DEF NextPrimary
  <2> QED
    BY <1>4, <2>1 DEF Script
<1>5. CASE k = 4
  <2>1. Good(NextPrimaryObservation(k))
    BY <1>5 DEF NextPrimaryObservation
  <2> QED
    BY <1>5, <2>1 DEF Script
<1>6. CASE k = 5
  <2>1. Good(PrimaryResults(k))
    BY <1>6 DEF PrimaryResults
  <2> QED
    BY <1>6, <2>1 DEF Script
<1>7. CASE k = 6
  <2>1. Good(FirstAdjudication(k))
    BY <1>7 DEF FirstAdjudication
  <2> QED
    BY <1>7, <2>1 DEF Script
<1>8. CASE k = 7
  <2>1. Good(FirstAdjudicationObservation(k))
    BY <1>8 DEF FirstAdjudicationObservation
  <2> QED
    BY <1>8, <2>1 DEF Script
<1>9. CASE k \in {8, 10, 12}
  <2>1. Good(NextAdjudication(k))
    BY <1>9 DEF NextAdjudication
  <2> QED
    BY <1>9, <2>1 DEF Script, ThirdAdjudication, FourthAdjudication
<1>10. CASE k \in {9, 11, 13}
  <2>1. Good(NextAdjudicationObservation(k))
    BY <1>10 DEF NextAdjudicationObservation
  <2> QED
    BY <1>10, <2>1 DEF Script, ThirdAdjudicationObservation, FourthAdjudicationObservation
<1>11. CASE k = 14
  <2>1. Good(AdjudicationResults(k))
    BY <1>11 DEF AdjudicationResults
  <2> QED
    BY <1>11, <2>1 DEF Script
<1>12. CASE k = 15
  <2>1. Good(FinalReview(k))
    BY <1>12 DEF FinalReview
  <2> QED
    BY <1>12, <2>1 DEF Script
<1>13. CASE k = 16
  <2>1. Good(FinalReviewObservation(k))
    BY <1>13 DEF FinalReviewObservation
  <2> QED
    BY <1>13, <2>1 DEF Script
<1>14. CASE k = 17
  <2>1. Good(NextFinalReview(k))
    BY <1>14 DEF NextFinalReview
  <2> QED
    BY <1>14, <2>1 DEF Script
<1>15. \/ k \in {1, 2, 3, 4, 5, 6, 7} \/ k \in {8, 10, 12} \/ k \in {9, 11, 13}
       \/ k \in {14, 15, 16, 17}
  BY DEF Steps
<1> QED
  BY <1>2, <1>3, <1>4, <1>5, <1>6, <1>7, <1>8, <1>9, <1>10, <1>11, <1>12, <1>13, <1>14,
     <1>15


---------------------------------------------------------------------------
(* Steps of the script.                                                    *)

HostType == [at : HostStates, step : Steps, record : Records, again : BOOLEAN,
             seen : [stage : 0 .. 17, stored : BOOLEAN, part : {"none", "both", "odd"}]]
FileType == [Steps -> [Records -> FileStates]]

(* A record that counts as there. *)
Counts(k, state) ==
    state \in (IF k = 1 THEN {"empty", "cut", "whole"} ELSE {"linked", "whole"})

LEMMA NoHostTyped == NoHost \in HostType /\ NoHost.at = "idle"
BY DEF NoHost, HostType, HostStates, Steps, Records

LEMMA ScriptMoves ==
    ASSUME IndInv, UNCHANGED <<stage, ended, stored>>, spoiled' \in BOOLEAN,
           JournalTypeOK', JournalOK', StageOK',
           host' \in HostType, file' \in FileType,
           worker' \in [at : WorkerStates, step : Steps],
           died' \in Seq(Deaths), Len(died') <= MaxFaults,
           WorkerOK', HostOK', RecordsOK', FilesOK'
    PROVE  IndInv'
<1>1. worker'.at = "save" => stage' + 1 = worker'.step
  BY DEF WorkerOK, Working
<1>2. TypeOK'
  BY <1>1 DEF IndInv, TypeOK, HostType, FileType, Deaths, Places
<1> QED
  BY <1>2 DEF IndInv

(* Most of its steps leave the journal and the run directory alone. *)
LEMMA ScriptMovesAlone ==
    ASSUME IndInv, UNCHANGED <<journal, stage, ended, stored, spoiled>>,
           host' \in HostType, file' \in FileType,
           worker' \in [at : WorkerStates, step : Steps],
           died' \in Seq(Deaths), Len(died') <= MaxFaults,
           WorkerOK', HostOK', RecordsOK', FilesOK'
    PROVE  IndInv'
<1>1. JournalTypeOK' /\ JournalOK' /\ StageOK' /\ spoiled' \in BOOLEAN
  BY JournalStays DEF IndInv, TypeOK
<1> QED
  BY <1>1, ScriptMoves

(* The worker and the faults do not take part. *)
LEMMA WorkerStays ==
    ASSUME IndInv, UNCHANGED <<journal, stage, ended, stored, spoiled, worker>>
    PROVE  WorkerOK' /\ worker' \in [at : WorkerStates, step : Steps]
BY DEF IndInv, TypeOK, WorkerOK, journal, Recorded

LEMMA Typed ==
    ASSUME IndInv
    PROVE  /\ host \in HostType /\ file \in FileType
           /\ worker \in [at : WorkerStates, step : Steps]
           /\ died \in Seq(Deaths) /\ Len(died) <= MaxFaults
           /\ stage \in Nat /\ Steps \subseteq Nat
BY DEF IndInv, TypeOK, HostType, FileType, Deaths, Places, Steps

(* What the script does to its record leaves the others alone. *)
LEMMA OneRecord ==
    ASSUME IndInv, NEW state \in FileStates, FileTo(state)
    PROVE  /\ file' \in FileType
           /\ \A j \in Steps, r \in Records :
                 j # host.step \/ r # host.record => (Has(j, r)' <=> Has(j, r))
           /\ \A j \in Steps, r \in Records :
                 j = host.step /\ r = host.record => (Has(j, r)' <=> Counts(j, state))
<1>1. /\ host.step \in Steps /\ host.record \in Records /\ file \in FileType
      /\ file' = [file EXCEPT ![host.step][host.record] = state]
  BY Typed DEF HostType, FileTo
<1>2. /\ file' \in FileType
      /\ \A j \in Steps, r \in Records :
            file'[j][r] = IF j = host.step /\ r = host.record THEN state ELSE file[j][r]
  BY <1>1 DEF FileType
<1> QED
  BY <1>2 DEF Has, Counts

(* Records that are there stay, and appear in order. *)
LEMMA RecordAppears ==
    ASSUME IndInv, host.at # "idle", NEW state \in FileStates, FileTo(state),
           stage' = stage,
           Has(host.step, host.record) => Counts(host.step, state)
    PROVE  /\ FilesOK'
           /\ \A j \in Steps, r \in Records : Has(j, r) => Has(j, r)'
<1> DEFINE k == host.step
<1>1. k \in Steps /\ host.record \in Records
  BY Typed DEF HostType
<1>2. \A j \in Steps, r \in Records : Has(j, r) => Has(j, r)'
  BY <1>1, OneRecord
<1>3. \A j \in Steps, r \in Records : Has(j, r)' => Has(j, r) \/ (j = k /\ r = host.record)
  BY <1>1, OneRecord
<1>4. {"claim", "intent", "receipt"} = Records /\ {6, 14, 15, 17} \subseteq Steps
      /\ \A i \in Steps : 1 .. i - 1 \subseteq Steps
  BY DEF Records, Steps
<1>5. \A j \in {14, 15, 17} : Has(j, "intent")' => Has(j, "claim")'
  BY <1>2, <1>3, <1>4 DEF IndInv, FilesOK, RecordsOK
<1>6. \A j \in {6, 14, 15} : Has(j, "receipt")' => Has(j, "intent")'
  BY <1>2, <1>3, <1>4 DEF IndInv, FilesOK, RecordsOK
<1>7. ASSUME NEW j \in Steps, Has(j, "receipt")'
      PROVE  j <= stage' /\ \A i \in 1 .. j - 1 : Has(i, "receipt")'
  <2>1. j <= stage /\ \A i \in 1 .. j - 1 : Has(i, "receipt")
    BY <1>3, <1>4, <1>7 DEF IndInv, FilesOK, RecordsOK, HostOK
  <2> QED
    BY <1>2, <1>4, <2>1
<1> QED
  BY <1>2, <1>5, <1>6, <1>7 DEF FilesOK

LEMMA WriteKeepsInv ==
    ASSUME IndInv, WriteRecord \/ LinkRecord PROVE IndInv'
<1> DEFINE k == host.step
           r == host.record
<1>1. /\ host.at \in {"write", "link"} /\ k \in Steps /\ r \in Records
      /\ UNCHANGED <<journal, stage, ended, stored, spoiled, worker, died>>
  BY Typed DEF WriteRecord, LinkRecord, HostType
<1>2. PICK state \in FileStates :
         /\ FileTo(state)
         /\ Has(k, r) => Counts(k, state)
  <2>1. CASE WriteRecord /\ k = 1
    BY <2>1 DEF WriteRecord, FileStates, Counts
  <2>2. CASE WriteRecord /\ k # 1
    <3>1. ~Has(k, r)
      BY <1>1, <2>2 DEF WriteRecord, IndInv, RecordsOK
    <3> QED
      BY <2>2, <3>1 DEF WriteRecord, Content, FileStates
  <2>3. CASE LinkRecord
    <3>1. k # 1
      BY <2>3 DEF LinkRecord, IndInv, RecordsOK
    <3> QED
      BY <2>3, <3>1 DEF LinkRecord, FileStates, Counts
  <2> QED
    BY <2>1, <2>2, <2>3
<1>3. PICK a \in {"link", "unlink"} : HostTo(a) /\ (k = 1 => a = "unlink")
  BY DEF WriteRecord, LinkRecord, IndInv, RecordsOK
<1>4. /\ host' \in HostType /\ host'.at = a /\ host'.step = k /\ host'.record = r
  BY <1>3, Typed DEF HostTo, HostType, HostStates
<1>5. /\ file' \in FileType /\ FilesOK'
      /\ \A j \in Steps, q \in Records : Has(j, q) => Has(j, q)'
      /\ \A j \in Steps, q \in Records : j # k \/ q # r => (Has(j, q)' <=> Has(j, q))
  BY <1>1, <1>2, OneRecord, RecordAppears
<1>6. HostOK'
  BY <1>1, <1>3, <1>4 DEF IndInv, HostOK
<1>7. RecordsOK'
  <2>1. {"claim", "intent", "receipt"} = Records /\ 1 .. k - 1 \subseteq Steps
    BY <1>1 DEF Records, Steps
  <2> QED
    BY <1>1, <1>3, <1>4, <1>5, <2>1 DEF IndInv, RecordsOK
<1> QED
  BY <1>1, <1>4, <1>5, <1>6, <1>7, Typed, WorkerStays, ScriptMovesAlone

LEMMA UnlinkKeepsInv ==
    ASSUME IndInv, UnlinkRecord PROVE IndInv'
<1>0. PICK k \in Steps, r \in Records : k = host.step /\ r = host.record
  BY Typed DEF HostType
<1>1. /\ host.at = "unlink" /\ FileTo("whole")
      /\ UNCHANGED <<journal, stage, ended, stored, spoiled, worker, died>>
  BY DEF UnlinkRecord
<1>2. "whole" \in FileStates /\ Counts(k, "whole")
  BY DEF FileStates, Counts
<1>3. /\ file' \in FileType /\ FilesOK' /\ Has(k, r)'
      /\ \A j \in Steps, q \in Records : Has(j, q) => Has(j, q)'
      /\ \A j \in Steps, q \in Records : j # k \/ q # r => (Has(j, q)' <=> Has(j, q))
  BY <1>0, <1>1, <1>2, OneRecord, RecordAppears
<1>4. \/ host' = NoHost
      \/ r = "claim" /\ host' = [host EXCEPT !.at = "write", !.record = "intent"]
      \/ r = "intent" /\ host' = [host EXCEPT !.at = "launch"]
  BY <1>0 DEF UnlinkRecord
<1>5. CASE host' = NoHost
  <2>1. HostOK' /\ RecordsOK'
    BY <1>5, NoHostTyped DEF HostOK, RecordsOK
  <2> QED
    BY <1>1, <1>3, <1>5, <2>1, Typed, NoHostTyped, WorkerStays, ScriptMovesAlone
<1>6. CASE r # "receipt" /\ host' # NoHost
  <2>1. /\ host' \in HostType /\ host'.step = k /\ host'.record = "intent"
        /\ \/ r = "claim" /\ host'.at = "write"
           \/ r = "intent" /\ host'.at = "launch"
    BY <1>0, <1>4, <1>6, Typed DEF HostType, HostStates, Records
  <2>2. HostOK'
    BY <1>0, <1>1, <2>1 DEF IndInv, HostOK
  <2>3. {"claim", "intent", "receipt"} = Records /\ 1 .. k - 1 \subseteq Steps
    BY DEF Records, Steps
  <2>4. RecordsOK'
    BY <1>0, <1>1, <1>3, <1>6, <2>1, <2>3 DEF IndInv, RecordsOK
  <2> QED
    BY <1>1, <1>3, <2>1, <2>2, <2>4, Typed, WorkerStays, ScriptMovesAlone
<1> QED
  BY <1>4, <1>5, <1>6


LEMMA HostDiesKeepsInv ==
    ASSUME IndInv, HostDies PROVE IndInv'
<1>0. PICK k \in Steps, r \in Records : k = host.step /\ r = host.record
  BY Typed DEF HostType
<1>1. /\ host.at # "idle" /\ host' = NoHost /\ host.at \in Places
      /\ UNCHANGED <<journal, stage, ended, stored, spoiled, worker>>
  BY Typed DEF HostDies, HostType, Places
<1>2. died' \in Seq(Deaths) /\ Len(died') <= MaxFaults
  BY <1>0, <1>1, FaultTyped DEF HostDies
<1>3. file' \in FileType /\ FilesOK'
  <2>1. CASE UNCHANGED file
    <3>1. \A j, q : Has(j, q)' <=> Has(j, q)
      BY <2>1 DEF Has
    <3> QED
      BY <1>1, <2>1, <3>1, Typed DEF IndInv, FilesOK
  <2>2. CASE \E state \in {"empty", "cut"} : host.at = "write" /\ FileTo(state)
    <3>1. PICK state \in {"empty", "cut"} : host.at = "write" /\ FileTo(state)
      BY <2>2
    <3>2. state \in FileStates /\ (k = 1 => Counts(k, state))
      BY DEF FileStates, Counts
    <3>3. k # 1 => ~Has(k, r)
      BY <1>0, <3>1 DEF IndInv, RecordsOK
    <3> QED
      BY <1>0, <1>1, <3>1, <3>2, <3>3, OneRecord, RecordAppears
  <2> QED
    BY <2>1, <2>2 DEF HostDies
<1>4. HostOK' /\ RecordsOK'
  BY <1>1, NoHostTyped DEF HostOK, RecordsOK
<1> QED
  BY <1>1, <1>2, <1>3, <1>4, NoHostTyped, WorkerStays, ScriptMovesAlone

(* Reading finishes records; it does not make any. *)
LEMMA RelinkedSame ==
    ASSUME IndInv, NEW k \in Steps, file' = Relinked(k)
    PROVE  /\ file' \in FileType
           /\ \A j \in Steps, r \in Records : Has(j, r)' <=> Has(j, r)
<1>1. \A j \in Steps, r \in Records :
         file'[j][r] = IF file[j][r] = "linked"
                          /\ ((j = k /\ k \in Relinks) \/ (j = k - 1 /\ k \in RelinksPrevious))
                       THEN "whole" ELSE file[j][r]
  BY DEF Relinked
<1>2. file' \in FileType
  <2>1. "whole" \in FileStates /\ file \in FileType
    BY Typed DEF FileStates
  <2>2. \A j \in Steps, r \in Records : file'[j][r] \in FileStates
    BY <1>1, <2>1 DEF FileType
  <2> QED
    BY <2>2 DEF Relinked, FileType
<1>3. 1 \notin Relinks /\ (1 = k - 1 => k \notin RelinksPrevious)
  BY DEF Relinks, RelinksPrevious, Steps
<1> QED
  BY <1>1, <1>2, <1>3 DEF Has

LEMMA StartKeepsInv ==
    ASSUME IndInv, NEW k \in Due, Start(k) PROVE IndInv'
<1> DEFINE d == Decision(k)
           on == host' = [at |-> IF d = "launch" THEN "launch" ELSE "write", step |-> k,
                          record |-> IF d = "launch" THEN "intent" ELSE d,
                          again |-> Again(k), seen |-> Evidence(k)]
<1>1. /\ k \in Steps /\ k \in Nat /\ k <= stage + 1 /\ stage \in 0 .. 17
      /\ host.at = "idle" /\ Attested(k) /\ Legible(k) /\ file' = Relinked(k)
      /\ UNCHANGED <<journal, stage, ended, stored, spoiled, worker, died>>
  BY DEF Due, Start, Steps, IndInv, TypeOK
<1>2. /\ file' \in FileType
      /\ \A j \in Steps, r \in Records : Has(j, r)' <=> Has(j, r)
  BY <1>1, RelinkedSame
<1>3. {"claim", "intent", "receipt"} = Records /\ {6, 14, 15, 17} \subseteq Steps
      /\ \A i \in Steps : 1 .. i - 1 \subseteq Steps
  BY DEF Records, Steps
<1>4. FilesOK'
  BY <1>1, <1>2, <1>3 DEF IndInv, FilesOK
<1>5. CASE UNCHANGED host
  <2>1. HostOK' /\ RecordsOK'
    BY <1>1, <1>5 DEF HostOK, RecordsOK
  <2> QED
    BY <1>1, <1>2, <1>4, <1>5, <2>1, Typed, WorkerStays, ScriptMovesAlone
<1>6. CASE d \notin {"rest", "refuse"} /\ on
  <2>1. /\ d = Script(k) /\ (k > stage => ~ended)
    BY <1>6 DEF Decision
  <2>2. d \in Records \cup {"launch"} /\ Sound(k, d)
    BY <1>1, <1>6, <2>1, ScriptDecides DEF Decisions
  <2>3. PICK a \in {"launch", "write"}, r \in Records :
           /\ d = "launch" => a = "launch" /\ r = "intent"
           /\ d # "launch" => a = "write" /\ r = d
           /\ host' = [at |-> a, step |-> k, record |-> r, again |-> Again(k),
                       seen |-> Evidence(k)]
    BY <1>3, <1>6, <2>2
  <2>4. /\ host'.at = a /\ host'.step = k /\ host'.record = r
    BY <2>3
  <2>5. host' \in HostType
    <3>1. PICK b \in BOOLEAN : b = Again(k)
      BY DEF Again
    <3>2. (k \in stored) \in BOOLEAN
      OBVIOUS
    <3>3. Evidence(k) \in [stage : 0 .. 17, stored : BOOLEAN, part : {"none", "both", "odd"}]
      BY <1>1, <3>2 DEF Evidence
    <3> QED
      BY <1>1, <2>3, <3>1, <3>3 DEF HostType, HostStates
  <2>6. \A j \in 1 .. k - 1 : Has(j, "receipt")
    <3>1. CASE k = 1
      BY <3>1
    <3>2. CASE k # 1
      <4>1. k - 1 \in Steps /\ k > 1
        BY <1>1, <3>2 DEF Steps
      <4>2. Has(k - 1, "receipt")
        BY <1>1, <4>1 DEF Attested, Has, RelinksPrevious
      <4>3. \A j \in 1 .. k - 1 : j = k - 1 \/ j \in 1 .. (k - 1) - 1
        BY <1>1
      <4> QED
        BY <4>1, <4>2, <4>3 DEF IndInv, FilesOK
    <3> QED
      BY <3>1, <3>2
  <2> HIDE DEF d, on
  <2>7. HostOK'
    BY <1>1, <2>1, <2>2, <2>3, <2>4 DEF HostOK, Sound
  <2>8. RecordsOK'
    <3>1. \A j \in 1 .. k - 1 : Has(j, "receipt")'
      BY <1>1, <1>2, <1>3, <2>6
    <3>2. a = "write" => ~Has(k, r)'
      BY <1>1, <1>2, <2>2, <2>3 DEF Sound
    <3>3. ~Has(k, "receipt")' /\ (r = "claim" => ~Has(k, "intent")')
      BY <1>1, <1>2, <1>3, <2>2, <2>3 DEF Sound
    <3>4. k \in {14, 15, 17} /\ r # "claim" => Has(k, "claim")'
      BY <1>1, <1>2, <1>3, <2>2, <2>3 DEF Sound
    <3>5. k \in {6, 14, 15} /\ (r = "receipt" \/ a \in {"launch", "wait"}) => Has(k, "intent")'
      BY <1>1, <1>2, <1>3, <2>2, <2>3 DEF Sound
    <3> QED
      BY <2>3, <2>4, <3>1, <3>2, <3>3, <3>4, <3>5 DEF RecordsOK
  <2> QED
    BY <1>1, <1>2, <1>4, <2>5, <2>7, <2>8, Typed, WorkerStays, ScriptMovesAlone
<1> QED
  BY <1>1, <1>5, <1>6 DEF Start


(* What a new container finds to do, and what it may rely on. *)
LEMMA TaskSound ==
    ASSUME IndInv, NEW k \in Steps, k <= stage + 1, k > stage => ~ended
    PROVE  /\ Task(k) \in {"intent", "save", "download", "done", "waiting", "failed"}
           /\ Task(k) \in Working => k = stage + 1 /\ ~ended
           /\ Task(k) = "done" => k <= stage
           /\ Task(k) = "intent" => k \in Parts /\ k \notin torn /\ k \notin intent
           /\ Task(k) = "download" => k \in Observes
           /\ Task(k) = "save" => k \notin Observes /\ (k \in Parts => Recorded(k))
<1> DEFINE Fits(t) ==
              /\ t \in {"intent", "save", "download", "done", "waiting", "failed"}
              /\ t \in Working => k > stage
              /\ t = "done" => k <= stage
              /\ t = "intent" => k \in Submits /\ Unattempted(k)
              /\ t = "download" => k \in Observes
              /\ t = "save" => k \notin Observes /\ (k \in Submits => Recorded(k))
<1>1. stage \in Nat /\ k \in Nat
  BY Typed
<1>2. ASSUME k \in Submits PROVE Fits(SubmitPrimary(k)) /\ Fits(SubmitNextFinalReview(k))
  <2>1. k \notin Observes
    BY <1>2, PartsAreSubmits
  <2> QED
    BY <1>1, <1>2, <2>1 DEF SubmitPrimary, SubmitNextFinalReview, SubmissionTask, Saved, Working
<1>3. ASSUME k \in Observes PROVE Fits(ObservePrimary(k)) /\ Fits(ObserveFinalReview(k))
  BY <1>1, <1>3 DEF ObservePrimary, ObserveFinalReview, CheckpointHolds, ObservationTask,
     Saved, Working
<1>4. ASSUME k \in {5, 14} PROVE Fits(ProcessPrimaryResults(k))
  BY <1>1, <1>4 DEF ProcessPrimaryResults, Saved, Working, Submits, Observes
<1> HIDE DEF Fits
<1>5. ASSUME k \in {1, 3, 6, 8, 10, 12, 15} PROVE Fits(Task(k))
  <2>1. k \in Submits /\ Task(k) = SubmitPrimary(k)
    BY <1>5 DEF Task, Submits, SubmitNextPrimary, SubmitFirstAdjudication,
       SubmitNextAdjudication, SubmitThirdAdjudication, SubmitFourthAdjudication,
       SubmitFinalReview
  <2> QED
    BY <1>2, <2>1
<1>6. ASSUME k = 17 PROVE Fits(Task(k))
  <2>1. k \in Submits /\ Task(k) = SubmitNextFinalReview(k)
    BY <1>6 DEF Task, Submits
  <2> QED
    BY <1>2, <2>1
<1>7. ASSUME k \in {2, 4, 7, 9, 11, 13} PROVE Fits(Task(k))
  <2>1. k \in Observes /\ Task(k) = ObservePrimary(k)
    BY <1>7 DEF Task, Observes, ObserveFirstAdjudication, ObserveNextAdjudication,
       ObserveThirdAdjudication, ObserveFourthAdjudication
  <2> QED
    BY <1>3, <2>1
<1>8. ASSUME k = 16 PROVE Fits(Task(k))
  <2>1. k \in Observes /\ Task(k) = ObserveFinalReview(k)
    BY <1>8 DEF Task, Observes
  <2> QED
    BY <1>3, <2>1
<1>9. ASSUME k \in {5, 14} PROVE Fits(Task(k))
  <2>1. Task(k) = ProcessPrimaryResults(k)
    BY <1>9 DEF Task, ProcessAdjudicationResults
  <2> QED
    BY <1>4, <1>9, <2>1
<1>10. Fits(Task(k))
  <2>1. \/ k \in {1, 3, 6, 8, 10, 12, 15} \/ k = 17
        \/ k \in {2, 4, 7, 9, 11, 13} \/ k = 16 \/ k \in {5, 14}
    BY DEF Steps
  <2> QED
    BY <1>5, <1>6, <1>7, <1>8, <1>9, <2>1
<1>11. k > stage => k = stage + 1
  BY <1>1
<1> QED
  BY <1>10, <1>11, PartsAreSubmits DEF Fits, Unattempted

LEMMA LaunchKeepsInv ==
    ASSUME IndInv, Launch PROVE IndInv'
<1>0. PICK k \in Steps, r \in Records : k = host.step /\ r = host.record
  BY Typed DEF HostType
<1>1. /\ host.at = "launch" /\ r = "intent" /\ k <= stage + 1 /\ (k > stage => ~ended)
      /\ Killed /\ UNCHANGED <<stage, ended, stored, file, died>>
  BY <1>0 DEF Launch, IndInv, HostOK
<1>2. PICK a : /\ a = Task(k) \/ a = "failed"
               /\ worker' = [at |-> a, step |-> k]
  <2>1. worker' = [at |-> IF host.step = 1 \/ (host.seen = Evidence(host.step) /\ ~spoiled')
                            THEN Task(host.step) ELSE "failed",
                   step |-> host.step]
    BY DEF Launch
  <2>2. CASE host.step = 1 \/ (host.seen = Evidence(host.step) /\ ~spoiled')
    <3>1. worker' = [at |-> Task(host.step), step |-> host.step]
      BY <2>1, <2>2, Zenon
    <3> QED
      BY <1>0, <3>1
  <2>3. CASE ~(host.step = 1 \/ (host.seen = Evidence(host.step) /\ ~spoiled'))
    <3>1. worker' = [at |-> "failed", step |-> host.step]
      BY <2>1, <2>3, Zenon
    <3> QED
      BY <1>0, <3>1
  <2> QED
    BY <2>2, <2>3
<1>3. /\ a \in {"intent", "save", "download", "done", "waiting", "failed"}
      /\ a \in Working => k = stage + 1 /\ ~ended
      /\ a = "done" => k <= stage
      /\ a = "intent" => k \in Parts /\ k \notin torn /\ k \notin intent
      /\ a = "download" => k \in Observes
      /\ a = "save" => k \notin Observes /\ (k \in Parts => Recorded(k))
  BY <1>1, <1>2, TaskSound DEF Working
<1>4. /\ worker' \in [at : WorkerStates, step : Steps] /\ worker'.at = a /\ worker'.step = k
  BY <1>2, <1>3 DEF WorkerStates
<1>5. WorkerOK'
  <2>1. a = "intent" => k \notin torn'
    BY <1>1, <1>3, KillKeeps
  <2>2. a = "save" => (k \in Parts => Recorded(k)')
    BY <1>1, <1>3, KillKeeps
  <2> QED
    BY <1>1, <1>3, <1>4, <2>1, <2>2 DEF WorkerOK, Working
<1>6. /\ host' \in HostType /\ host'.at = "wait" /\ host'.step = k /\ host'.record = r
  BY <1>0, Typed DEF Launch, HostTo, HostType, HostStates
<1>7. HostOK'
  BY <1>1, <1>4, <1>6 DEF HostOK
<1>8. \A j, q : Has(j, q)' <=> Has(j, q)
  BY <1>1 DEF Has
<1>9. RecordsOK' /\ FilesOK'
  BY <1>0, <1>1, <1>6, <1>8 DEF IndInv, RecordsOK, FilesOK
<1> QED
  BY <1>1, <1>4, <1>5, <1>6, <1>7, <1>9, KillKeeps, Typed, ScriptMoves

LEMMA CollectKeepsInv ==
    ASSUME IndInv, Collect PROVE IndInv'
<1>0. PICK k \in Steps, r \in Records : k = host.step /\ r = host.record
  BY Typed DEF HostType
<1>1. /\ host.at = "wait" /\ r = "intent" /\ worker' = NoWorker
      /\ UNCHANGED <<journal, stage, ended, stored, spoiled, file, died>>
  BY <1>0 DEF Collect, IndInv, HostOK
<1>2. WorkerOK' /\ worker' \in [at : WorkerStates, step : Steps]
  BY <1>1, NoWorkerTyped DEF WorkerOK, Working
<1>3. \A j, q : Has(j, q)' <=> Has(j, q)
  BY <1>1 DEF Has
<1>4. FilesOK'
  BY <1>1, <1>3 DEF IndInv, FilesOK
<1>5. CASE host' = NoHost
  <2>1. HostOK' /\ RecordsOK'
    BY <1>5, NoHostTyped DEF HostOK, RecordsOK
  <2> QED
    BY <1>1, <1>2, <1>4, <1>5, <2>1, Typed, NoHostTyped, ScriptMovesAlone
<1>6. CASE worker.at = "done" /\ host' = [host EXCEPT !.at = "write", !.record = "receipt"]
  <2>1. /\ host' \in HostType /\ host'.at = "write" /\ host'.step = k
        /\ host'.record = "receipt"
    BY <1>0, <1>6, Typed DEF HostType, HostStates, Records
  <2>2. k <= stage
    BY <1>0, <1>1, <1>6 DEF IndInv, WorkerOK, HostOK
  <2>3. stage \in Nat /\ k \in Nat
    BY Typed
  <2>4. HostOK'
    BY <1>1, <2>1, <2>2, <2>3 DEF HostOK
  <2>5. RecordsOK'
    BY <1>0, <1>1, <1>3, <2>1 DEF IndInv, RecordsOK
  <2> QED
    BY <1>1, <1>2, <1>4, <2>1, <2>4, <2>5, Typed, ScriptMovesAlone
<1> QED
  BY <1>5, <1>6 DEF Collect

---------------------------------------------------------------------------
(* The invariant, and what follows from it.                                *)

LEMMA InitInv == Init => IndInv
<1> SUFFICES ASSUME Init PROVE IndInv
  OBVIOUS
<1>1. \A p \in Parts : Len(batches[p]) = 0 /\ completed[p] = 0 /\ p > 0
  BY PartsAreSubmits DEF Init, JournalInit, Submits
<1>2. \A k \in Steps, r \in Records : ~Has(k, r)
  BY DEF Init, Has
<1>3. TypeOK
  <2>1. JournalTypeOK
    BY <1>1, MaxBatchesAssumption DEF Init, JournalInit, JournalTypeOK
  <2>2. worker \in [at : WorkerStates, step : Steps] /\ host \in HostType
    BY NoHostTyped, NoWorkerTyped DEF Init
  <2>3. file \in [Steps -> [Records -> FileStates]]
    BY DEF Init, FileStates
  <2>4. died \in Seq(Deaths) /\ Len(died) <= MaxFaults
    BY HostAssumption DEF Init
  <2>5. /\ stage \in 0 .. 17 /\ stored \subseteq Observes
        /\ ended \in BOOLEAN /\ spoiled \in BOOLEAN
    <3>1. ended \in BOOLEAN /\ spoiled \in BOOLEAN
      BY Zenon DEF Init
    <3> QED
      BY <3>1 DEF Init
  <2>6. worker.at # "save"
    BY NoWorkerTyped DEF Init
  <2> QED
    BY <2>1, <2>2, <2>3, <2>4, <2>5, <2>6 DEF TypeOK, HostType, Deaths, Places
<1>4. JournalOK /\ StageOK
  BY <1>1, PartsAreSubmits DEF Init, JournalInit, JournalOK, StageOK, Observes
<1>5. WorkerOK /\ HostOK /\ RecordsOK
  BY NoHostTyped, NoWorkerTyped DEF Init, WorkerOK, HostOK, RecordsOK, Working
<1>6. FilesOK
  BY <1>2 DEF FilesOK, Steps, Records
<1> QED
  BY <1>3, <1>4, <1>5, <1>6 DEF IndInv

LEMMA NextKeepsInv == IndInv /\ [Next]_vars => IndInv'
<1> SUFFICES ASSUME IndInv, [Next]_vars PROVE IndInv'
  OBVIOUS
<1>1. CASE HostStep
  BY <1>1, StartKeepsInv, WriteKeepsInv, UnlinkKeepsInv, LaunchKeepsInv, CollectKeepsInv
     DEF HostStep
<1>2. CASE WorkerStep
  BY <1>2, WorkerKeepsInv
<1>3. CASE EndBatch
  BY <1>3, EndKeepsInv
<1>4. CASE Faults
  BY <1>4, FailsKeepsInv, WorkerDiesKeepsInv, HostDiesKeepsInv DEF Faults
<1>5. CASE UNCHANGED vars
  <2>1. UNCHANGED <<intent, completed, torn, batches, stage, ended, stored, spoiled, file, host,
                    worker, died>>
    BY <1>5 DEF vars, journal
  <2>2. \A j, q : Has(j, q)' <=> Has(j, q)
    BY <2>1 DEF Has
  <2>3. HostOK' /\ RecordsOK' /\ FilesOK'
    BY <2>1, <2>2 DEF IndInv, HostOK, RecordsOK, FilesOK
  <2> QED
    BY <2>1, <2>3, Typed, WorkerStays, ScriptMovesAlone DEF journal
<1> QED
  BY <1>1, <1>2, <1>3, <1>4, <1>5 DEF Next

(* The inductive invariant holds throughout. *)
THEOREM IndInvHolds == Spec => []IndInv
BY InitInv, NextKeepsInv, PTL DEF Spec

(* Records, scripts and workers keep their types, and a worker that is     *)
(* about to save the run state is on the step after the saved one.         *)
THEOREM TypeCorrect == Spec => []TypeOK
<1>1. IndInv => TypeOK
  BY DEF IndInv
<1> QED
  BY <1>1, IndInvHolds, PTL

(* The chain of receipts: wherever scripts and workers die, a receipt says *)
(* that the run state has taken its step, that its part is paid for and on *)
(* record, and that all earlier steps have theirs.                         *)
THEOREM ReceiptsTell == Spec => []ReceiptTellsRun
<1>1. IndInv => ReceiptTellsRun
  BY PartsAreSubmits, Typed DEF IndInv, FilesOK, StageOK, ReceiptTellsRun
<1> QED
  BY <1>1, IndInvHolds, PTL


---------------------------------------------------------------------------
(* The ledger.                                                             *)

(* A purchase: the first of its part, of a run that goes on, when all      *)
(* earlier answers are stored.                                             *)
LEMMA PurchaseIsBuy ==
    ASSUME IndInv, worker.at = "call", ProviderAccepts(worker.step),
           UNCHANGED <<stored, ended>>
    PROVE  Ledger!Next
<1>1. PICK q \in Parts : q = worker.step
  BY DEF IndInv, WorkerOK
<1>2. /\ ~ended /\ Len(batches[q]) = 0 /\ q = stage + 1 /\ stage \in Nat
  BY <1>1, Typed DEF IndInv, WorkerOK, Working
<1>3. /\ Len(batches'[q]) = 1
      /\ \A p \in Parts \ {q} : batches'[p] = batches[p]
  BY <1>1, PartBought
<1>4. ASSUME NEW p \in Parts, p < q PROVE p + 1 \in stored
  <2>1. p \in Nat /\ q \in 1 .. 17
    BY PartsAreSubmits DEF Steps
  <2>2. p + 1 \in Observes
    BY <1>4, <2>1, PartsAreSubmits
  <2>3. p + 1 # q
    BY <2>2, PartsAreSubmits
  <2>4. p + 1 <= stage
    BY <1>2, <1>4, <2>1, <2>3
  <2> QED
    BY <2>2, <2>4 DEF IndInv, StageOK
<1>5. Before(q) \subseteq {p \in Parts : p + 1 \in stored}
  BY <1>4 DEF Before
<1>6. [p \in Parts |-> Len(batches'[p])]
         = [[p \in Parts |-> Len(batches[p])] EXCEPT ![q] = 1]
  BY <1>3
<1>7. Ledger!Buy(q)
  BY <1>2, <1>5, <1>6 DEF Ledger!Buy
<1> QED
  BY <1>7 DEF Ledger!Next

(* Steps that neither buy nor change what is stored or ended. *)
LEMMA LedgerStays ==
    ASSUME \A p \in Parts : Len(batches'[p]) = Len(batches[p]),
           UNCHANGED <<stored, ended>>
    PROVE  UNCHANGED Ledger!ledger
BY DEF Ledger!ledger

LEMMA LedgerNext == IndInv /\ [Next]_vars => [Ledger!Next]_(Ledger!ledger)
<1> SUFFICES ASSUME IndInv, [Next]_vars PROVE [Ledger!Next]_(Ledger!ledger)
  OBVIOUS
<1>1. CASE UNCHANGED <<batches, stored, ended>>
  BY <1>1, LedgerStays
<1>2. CASE HostStep
  BY <1>1, <1>2 DEF HostStep, Start, WriteRecord, LinkRecord, UnlinkRecord, Launch,
     Collect, Killed, TearRecord, journal
<1>3. CASE EndBatch
  <2>1. PICK p \in Parts, how \in {"done", "failed"} :
           \E n \in 1 .. Len(batches[p]) : batches' = [batches EXCEPT ![p][n] = how]
    BY <1>3 DEF EndBatch, BatchEnds
  <2>2. PICK n \in 1 .. Len(batches[p]) : batches' = [batches EXCEPT ![p][n] = how]
    BY <2>1
  <2>3. PICK b \in Seq(BatchStatuses) : b = batches[p]
    BY DEF IndInv, TypeOK, JournalTypeOK
  <2>4. how \in BatchStatuses
    BY DEF BatchStatuses
  <2>5. Len([b EXCEPT ![n] = how]) = Len(b)
    BY <2>2, <2>3, <2>4
  <2>6. \A q \in Parts : Len(batches'[q]) = Len(batches[q])
    BY <2>2, <2>3, <2>5 DEF IndInv, TypeOK, JournalTypeOK
  <2> QED
    BY <1>3, <2>6, LedgerStays DEF EndBatch
<1>4. CASE CallProvider
  BY <1>4, PurchaseIsBuy DEF CallProvider
<1>5. CASE ProviderFails
  BY <1>1, <1>5, PurchaseIsBuy DEF ProviderFails, journal
<1>6. CASE Download
  <2>1. PICK k \in Observes : k = worker.step
    BY <1>6 DEF Download, IndInv, WorkerOK
  <2>2. /\ k = stage + 1 /\ stage \in Nat /\ k - 1 \in Parts
        /\ stored' = stored \cup {k} /\ UNCHANGED <<batches, ended>>
    BY <1>6, <2>1, Typed, PartsAreSubmits DEF Download, journal, IndInv, WorkerOK, Working
  <2>3. Len(batches[k - 1]) = 1
    <3>1. completed[k - 1] \in Nat /\ completed[k - 1] # 0
      BY <2>2 DEF IndInv, StageOK, Recorded, TypeOK, JournalTypeOK
    <3>2. completed[k - 1] <= Len(batches[k - 1]) /\ Len(batches[k - 1]) <= 1
      BY <2>2 DEF IndInv, JournalOK
    <3>3. Len(batches[k - 1]) \in Nat
      BY <2>2 DEF IndInv, TypeOK, JournalTypeOK
    <3>4. \A n, c \in Nat : c # 0 /\ c <= n /\ n <= 1 => n = 1
      OBVIOUS
    <3> QED
      BY <3>1, <3>2, <3>3, <3>4
  <2>4. \A p \in Parts : p + 1 = k <=> p = k - 1
    BY <2>2, PartsAreSubmits
  <2>5. {p \in Parts : p + 1 \in stored'} = {p \in Parts : p + 1 \in stored} \cup {k - 1}
    BY <2>2, <2>4
  <2>6. Ledger!Answer(k - 1)
    BY <2>2, <2>3, <2>5 DEF Ledger!Answer
  <2> QED
    BY <2>2, <2>6 DEF Ledger!Next
<1>7. CASE \E steps : \E ends \in BOOLEAN : Save(steps, ends)
  <2>1. PICK ends \in BOOLEAN : ended' = ends /\ UNCHANGED <<batches, stored>>
    BY <1>7 DEF Save, journal
  <2>2. ~ended
    BY <1>7 DEF Save, IndInv, WorkerOK, Working
  <2>3. CASE ends
    BY <2>1, <2>3 DEF Ledger!Close, Ledger!Next
  <2>4. CASE ~ends
    <3>1. ended' = ended
      BY <2>1, <2>2, <2>4 DEF IndInv, TypeOK
    <3> QED
      BY <1>1, <2>1, <3>1
  <2> QED
    BY <2>3, <2>4
<1>8. CASE Claim \/ RecordBatch \/ Fades \/ WorkerDies \/ HostDies
  BY <1>1, <1>8 DEF Claim, ClaimPart, RecordBatch, RecordPart, Fades, WorkerDies,
     Killed, TearRecord, HostDies, journal
<1>9. WorkerStep => \/ Claim \/ CallProvider \/ RecordBatch \/ Download \/ Fades
                    \/ \E steps : \E ends \in BOOLEAN : Save(steps, ends)
  <2>1. ASSUME NEW steps, SaveObservation(steps)
        PROVE  \E ends \in BOOLEAN : Save(steps, ends)
    <3>1. PICK ends \in BOOLEAN : ends = (BatchOf(worker.step) = "failed")
      OBVIOUS
    <3> QED
      BY <2>1, <3>1 DEF SaveObservation
  <2> QED
    BY <2>1 DEF WorkerStep, SavePrimarySubmission, SaveAdjudicationSubmission,
       SaveFinalReviewSubmission, SavePrimaryResults, SaveAdjudicationResults,
       SavePrimaryObservation, SaveAdjudicationObservation, SaveFinalReviewObservation
<1>10. CASE UNCHANGED vars
  BY <1>1, <1>10 DEF vars, journal
<1> QED
  BY <1>2, <1>3, <1>4, <1>5, <1>6, <1>7, <1>8, <1>9, <1>10 DEF Next, Faults

(* Whatever dies, and with workers that dead scripts left running, no part *)
(* is bought twice, none before the earlier answers, none after the end.   *)
THEOREM LedgerImplemented == Spec => ImplementsLedger
<1>1. Init => Ledger!Init
  <2> SUFFICES ASSUME Init PROVE Ledger!Init
    OBVIOUS
  <2>1. \A p \in Parts : Len(batches[p]) = 0
    BY DEF Init, JournalInit
  <2> QED
    BY <2>1 DEF Init, Ledger!Init
<1> QED
  BY <1>1, LedgerNext, IndInvHolds, PTL DEF Spec, ImplementsLedger, Ledger!Spec


---------------------------------------------------------------------------
(* Where nothing was lost.                                                 *)
(*                                                                         *)
(* As long as no fault has hit a window, the run directory tells each      *)
(* script what it must know, or somebody is there who is about to see to   *)
(* it.  The scripts fall into three kinds: those that put any record of    *)
(* theirs right, those that read records strictly, and the last of each    *)
(* kind, whose receipt nobody can rebuild.                                 *)

Repaired == {2, 4}
Unrepeatable == {9, 11, 13, 16, 17}

Window(d) ==
    \/ PaidWindow(d) \/ SaveWindow(d) \/ ReceiptWindow(d)
    \/ IntentWindow(d) \/ RecordWindow(d)
Clear == \A i \in 1 .. Len(died) : ~Window(died[i])

(* A part with an intent alone has the worker that is about to complete it. *)
PaymentsHeld ==
    \A p \in Parts :
       /\ p \notin torn
       /\ completed[p] # 0 => p \in intent
       /\ p \in intent /\ completed[p] = 0 =>
             worker.step = p /\ worker.at \in {"call", "record"}

(* A worker has the script that started it. *)
WorkersWaitedFor ==
    worker.at \in Working => host.at = "wait" /\ host.step = worker.step

(* A record that is not yet, or no more, what it should be is the one that *)
(* the script writes, or is of a script that puts it right.                *)
RecordsHeld ==
    /\ \A k \in Steps, r \in Records :
          /\ k \notin Repaired /\ file[k][r] \notin {"none", "whole"} =>
                host.at \in {"link", "unlink"} /\ host.step = k /\ host.record = r
          /\ k \in Repaired => file[k][r] # "restaged"
    /\ host.at = "link" => file[host.step][host.record] \in {"staged", "restaged"}
    /\ host.at = "unlink" => file[host.step][host.record] \in {"linked", "whole"}

(* Only those that find their part paid for say so. *)
AgainTold == host.at # "idle" /\ host.step \notin {3, 8, 10, 12} => host.again = FALSE

(* Behind the run, its script and its worker, receipts have one name. *)
ReceiptsWhole(n) == \A j \in Steps : j < n => file[j]["receipt"] = "whole"
ReceiptsBehind ==
    /\ ReceiptsWhole(stage)
    /\ host.at # "idle" => ReceiptsWhole(host.step)
    /\ worker.at \in Working => ReceiptsWhole(worker.step)

(* A receipt that nobody could rebuild is on its way. *)
LastReceipts ==
    stage \in Unrepeatable /\ ~Has(stage, "receipt") =>
       /\ host.step = stage
       /\ \/ host.at = "wait" /\ worker.at = "done" /\ worker.step = stage
          \/ host.record = "receipt" /\ host.at \in {"write", "link"}

(* Output that no script would take over is about to be saved. *)
OutputsHeld ==
    \A k \in Observes :
       k \in stored /\ k > stage => worker.at = "save" /\ worker.step = k

(* The intent is there before anything is done about it. *)
IntentsFirst ==
    /\ \A k \in Steps : k <= stage => Has(k, "intent")
    /\ \A p \in Parts : p \in intent => Has(p, "intent")
    /\ worker.at \in Working => Has(worker.step, "intent")
    /\ host.at # "idle" /\ (host.record = "receipt" \/ host.at \in {"launch", "wait"})
          => Has(host.step, "intent")

(* The final review, whose intent alone is taken for a call. *)
FinalReviewHeld ==
    /\ Has(15, "claim") /\ ~Has(15, "intent") =>
          /\ host.step = 15
          /\ \/ host.record = "claim" /\ host.at = "unlink"
             \/ host.record = "intent" /\ host.at \in {"write", "link"}
    /\ Has(15, "intent") /\ ~Recorded(15) =>
          /\ host.step = 15
          /\ \/ host.record = "intent" /\ host.at \in {"unlink", "launch"}
             \/ host.at = "wait" /\ worker.step = 15 /\ worker.at \in {"intent", "call", "record"}

(* The last script goes through in one go. *)
NextFinalReviewHeld ==
    Has(17, "claim") /\ stage < 17 =>
       /\ host.step = 17
       /\ \/ host.record \in {"claim", "intent"} /\ host.at \in {"write", "link", "unlink", "launch"}
          \/ /\ host.at = "wait" /\ worker.step = 17
             /\ worker.at \in {"intent", "call", "record", "save"}

(* What these two saw of the run is still so when they start their worker. *)
SeenStillSo ==
    host.step \in {15, 17} /\ host.record # "receipt"
          /\ host.at \in {"write", "link", "unlink", "launch"} =>
       /\ host.seen = Evidence(host.step)
       /\ worker.at \notin Working
       /\ host.step = 17 => Unattempted(17)

EndedLater == ended => stage >= 1

(* No write into the run directory was cut off. *)
Unspoiled == spoiled = FALSE

Held ==
    /\ PaymentsHeld
    /\ WorkersWaitedFor
    /\ RecordsHeld
    /\ AgainTold
    /\ ReceiptsBehind
    /\ LastReceipts
    /\ OutputsHeld
    /\ IntentsFirst
    /\ FinalReviewHeld
    /\ NextFinalReviewHeld
    /\ SeenStillSo
    /\ EndedLater

---------------------------------------------------------------------------
(* Steps of the worker keep it.                                            *)

(* The run, its files and its script stay, and the worker, in the middle   *)
(* of its step, goes on to another point of it.                            *)
LEMMA WorkerGoesOn ==
    ASSUME IndInv, Held, UNCHANGED <<stage, ended, file, host>>,
           worker.at \in Working, worker'.at \in Working, worker'.step = worker.step,
           PaymentsHeld', OutputsHeld', FinalReviewHeld', NextFinalReviewHeld',
           \A p \in Parts : p \in intent' => p \in intent \/ p = worker.step
    PROVE  Held'
<1>1. \A j, r : Has(j, r)' <=> Has(j, r)
  BY DEF Has
<1>2. WorkersWaitedFor'
  BY DEF Held, WorkersWaitedFor
<1>3. RecordsHeld' /\ AgainTold' /\ EndedLater'
  BY Zenon DEF Held, RecordsHeld, AgainTold, EndedLater
<1>3a. ReceiptsBehind'
  BY DEF Held, ReceiptsBehind, ReceiptsWhole
<1>4. LastReceipts'
  BY <1>1 DEF Held, LastReceipts, Working
<1>5. IntentsFirst'
  BY <1>1 DEF Held, IntentsFirst
<1>6. SeenStillSo'
  BY DEF Held, SeenStillSo
<1> QED
  BY <1>2, <1>3, <1>3a, <1>4, <1>5, <1>6 DEF Held

LEMMA ClaimHolds ==
    ASSUME IndInv, Held, Claim PROVE Held'
<1> DEFINE k == worker.step
<1>1. /\ worker.at = "intent" /\ k \in Parts /\ k \notin intent
      /\ intent' = intent \cup {k}
      /\ UNCHANGED <<completed, torn, batches, stage, ended, stored, spoiled, file, host, died>>
  BY DEF Claim, ClaimPart, IndInv, WorkerOK
<1>2. worker'.at = "call" /\ worker'.step = k
  BY WorkerToTyped DEF Claim, IndInv, WorkerStates
<1>3. \A j, r : Has(j, r)' <=> Has(j, r)
  BY <1>1 DEF Has
<1>4. PaymentsHeld'
  BY <1>1, <1>2 DEF Held, PaymentsHeld
<1>5. OutputsHeld'
  BY <1>1, <1>2 DEF Held, OutputsHeld
<1>6. FinalReviewHeld'
  <2>1. Recorded(15) => Recorded(15)'
    BY <1>1 DEF Recorded
  <2> QED
    BY <1>1, <1>2, <1>3, <2>1 DEF Held, FinalReviewHeld
<1>7. NextFinalReviewHeld'
  BY <1>1, <1>2, <1>3 DEF Held, NextFinalReviewHeld
<1> QED
  BY <1>1, <1>2, <1>4, <1>5, <1>6, <1>7, WorkerGoesOn DEF Working

LEMMA CallHolds ==
    ASSUME IndInv, Held, CallProvider PROVE Held'
<1>1. /\ worker.at = "call"
      /\ UNCHANGED <<intent, completed, torn, stage, ended, stored, spoiled, file, host, died>>
  BY DEF CallProvider, ProviderAccepts
<1>2. worker'.at = "record" /\ worker'.step = worker.step
  BY WorkerToTyped DEF CallProvider, IndInv, WorkerStates
<1>3. \A j, r : Has(j, r)' <=> Has(j, r)
  BY <1>1 DEF Has
<1>4. PaymentsHeld'
  BY <1>1, <1>2 DEF Held, PaymentsHeld
<1>5. OutputsHeld'
  BY <1>1, <1>2 DEF Held, OutputsHeld
<1>6. FinalReviewHeld'
  BY <1>1, <1>2, <1>3 DEF Held, FinalReviewHeld, Recorded
<1>7. NextFinalReviewHeld'
  BY <1>1, <1>2, <1>3 DEF Held, NextFinalReviewHeld
<1> QED
  BY <1>1, <1>2, <1>4, <1>5, <1>6, <1>7, WorkerGoesOn DEF Working

LEMMA RecordHolds ==
    ASSUME IndInv, Held, RecordBatch PROVE Held'
<1> DEFINE k == worker.step
<1>1. /\ worker.at = "record" /\ k \in Parts /\ k \in intent
      /\ completed' = [completed EXCEPT ![k] = Len(batches[k])] /\ Len(batches[k]) = 1
      /\ UNCHANGED <<intent, torn, batches, stage, ended, stored, spoiled, file, host, died>>
  BY DEF RecordBatch, RecordPart, IndInv, WorkerOK
<1>2. worker'.at = "save" /\ worker'.step = k
  BY WorkerToTyped DEF RecordBatch, IndInv, WorkerStates
<1>3. \A j, r : Has(j, r)' <=> Has(j, r)
  BY <1>1 DEF Has
<1>4. completed'[k] = 1 /\ \A p \in Parts \ {k} : completed'[p] = completed[p]
  BY <1>1 DEF IndInv, TypeOK, JournalTypeOK
<1>5. PaymentsHeld'
  BY <1>1, <1>2, <1>4 DEF Held, PaymentsHeld
<1>6. OutputsHeld'
  BY <1>1, <1>2 DEF Held, OutputsHeld
<1>7. FinalReviewHeld'
  <2>1. Recorded(k)'
    BY <1>1, <1>2, <1>4 DEF Recorded, Held, PaymentsHeld
  <2>2. 15 \in Parts
    BY PartsAreSubmits DEF Submits
  <2>3. Recorded(15) => Recorded(15)'
    BY <1>1, <1>4, <2>1, <2>2 DEF Recorded
  <2> QED
    BY <1>1, <1>2, <1>3, <2>1, <2>3 DEF Held, FinalReviewHeld
<1>8. NextFinalReviewHeld'
  BY <1>1, <1>2, <1>3 DEF Held, NextFinalReviewHeld
<1> QED
  BY <1>1, <1>2, <1>5, <1>6, <1>7, <1>8, WorkerGoesOn DEF Working

LEMMA DownloadHolds ==
    ASSUME IndInv, Held, Download PROVE Held'
<1> DEFINE k == worker.step
<1>1. /\ worker.at = "download" /\ k \in Observes
      /\ stored' = stored \cup {k}
      /\ UNCHANGED <<intent, completed, torn, batches, stage, ended, spoiled, file, host, died>>
  BY DEF Download, journal, IndInv, WorkerOK
<1>2. worker'.at = "save" /\ worker'.step = k
  BY WorkerToTyped DEF Download, IndInv, WorkerStates
<1>3. \A j, r : Has(j, r)' <=> Has(j, r)
  BY <1>1 DEF Has
<1>4. PaymentsHeld'
  BY <1>1, <1>2 DEF Held, PaymentsHeld
<1>5. OutputsHeld'
  BY <1>1, <1>2 DEF Held, OutputsHeld
<1>6. FinalReviewHeld'
  BY <1>1, <1>2, <1>3 DEF Held, FinalReviewHeld, Recorded
<1>7. NextFinalReviewHeld'
  BY <1>1, <1>2, <1>3 DEF Held, NextFinalReviewHeld
<1> QED
  BY <1>1, <1>2, <1>4, <1>5, <1>6, <1>7, WorkerGoesOn DEF Working

LEMMA SaveHolds ==
    ASSUME IndInv, Held, NEW steps, NEW ends, Save(steps, ends)
    PROVE  Held'
<1>0. PICK k \in Steps : k = worker.step
  BY Typed
<1>1. /\ worker.at = "save" /\ k = stage + 1 /\ stage \in Nat
      /\ stage' = k
      /\ UNCHANGED <<intent, completed, torn, batches, stored, spoiled, file, host, died>>
  BY <1>0, Typed DEF Save, journal, IndInv, WorkerOK, Working
<1>2. worker'.at = "done" /\ worker'.step = k
  BY <1>0, WorkerToTyped DEF Save, IndInv, WorkerStates
<1>3. \A j, r : Has(j, r)' <=> Has(j, r)
  BY <1>1 DEF Has
<1>4. \A n \in Nat : n <= stage' => n <= stage \/ n = k
  BY <1>1
<1>5. PaymentsHeld'
  BY <1>1, <1>2 DEF Held, PaymentsHeld
<1>6. WorkersWaitedFor'
  BY <1>2 DEF WorkersWaitedFor, Working
<1>7. RecordsHeld' /\ AgainTold'
  BY <1>1, Zenon DEF Held, RecordsHeld, AgainTold
<1>8. ReceiptsBehind'
  BY <1>0, <1>1, <1>2 DEF Held, ReceiptsBehind, ReceiptsWhole, Working
<1>9. LastReceipts'
  BY <1>0, <1>1, <1>2 DEF Held, LastReceipts, WorkersWaitedFor, Unrepeatable, Working
<1>10. OutputsHeld'
  <2>1. \A j \in Observes : j > stage' => j > stage /\ j # k
    BY <1>1, PartsAreSubmits
  <2> QED
    BY <1>0, <1>1, <2>1 DEF Held, OutputsHeld
<1>11. IntentsFirst'
  <2>1. Has(k, "intent")
    BY <1>0, <1>1 DEF Held, IntentsFirst, Working
  <2>2. \A j \in Steps : j <= stage' => Has(j, "intent")'
    BY <1>3, <1>4, <2>1, Typed DEF Held, IntentsFirst
  <2> QED
    BY <1>1, <1>2, <1>3, <2>2 DEF Held, IntentsFirst, Working
<1>12. FinalReviewHeld'
  BY <1>1, <1>2, <1>3 DEF Held, FinalReviewHeld, Recorded
<1>13. NextFinalReviewHeld'
  <2>1. stage' < 17 => k # 17 /\ stage < 17
    BY <1>1
  <2> QED
    BY <1>0, <1>1, <1>3, <2>1 DEF Held, NextFinalReviewHeld, SeenStillSo, Working
<1>14. SeenStillSo'
  BY <1>1 DEF Held, SeenStillSo, Working
<1>15. EndedLater'
  BY <1>1 DEF EndedLater
<1> QED
  BY <1>5, <1>6, <1>7, <1>8, <1>9, <1>10, <1>11, <1>12, <1>13, <1>14, <1>15 DEF Held

(* A worker leaves that nobody needs: it is gone, and neither the run nor  *)
(* the script has moved.                                                   *)
LEMMA WorkerLeaves ==
    ASSUME IndInv, Held, worker'.at = "none",
           UNCHANGED <<intent, completed, torn, stage, ended, stored, file, host>>,
           worker.step \in Parts => worker.at \notin {"call", "record"},
           worker.step \in Unrepeatable /\ host.at = "wait" => worker.at # "done",
           worker.at # "save",
           worker.step = 15 => worker.at \notin {"intent", "call", "record"},
           worker.step = 17 => worker.at \notin {"intent", "call", "record"}
    PROVE  Held'
<1>1. \A j, r : Has(j, r)' <=> Has(j, r)
  BY DEF Has
<1>2. PaymentsHeld'
  BY DEF Held, PaymentsHeld
<1>3. WorkersWaitedFor'
  BY DEF WorkersWaitedFor, Working
<1>4. RecordsHeld' /\ AgainTold'
  BY Zenon DEF Held, RecordsHeld, AgainTold
<1>5. ReceiptsBehind'
  BY DEF Held, ReceiptsBehind, ReceiptsWhole, Working
<1>6. LastReceipts'
  BY <1>1 DEF Held, LastReceipts
<1>7. OutputsHeld'
  BY DEF Held, OutputsHeld
<1>8. IntentsFirst'
  BY <1>1 DEF Held, IntentsFirst, Working
<1>9. FinalReviewHeld'
  BY <1>1 DEF Held, FinalReviewHeld, Recorded
<1>10. NextFinalReviewHeld'
  BY <1>1 DEF Held, NextFinalReviewHeld
<1>11. SeenStillSo'
  BY DEF Held, SeenStillSo, Working, Evidence, Unattempted, Recorded
<1>12. EndedLater'
  BY DEF Held, EndedLater
<1> QED
  BY <1>2, <1>3, <1>4, <1>5, <1>6, <1>7, <1>8, <1>9, <1>10, <1>11, <1>12 DEF Held

LEMMA FadesHolds ==
    ASSUME IndInv, Held, Fades PROVE Held'
<1>1. /\ worker'.at = "none" /\ host.at # "wait"
      /\ worker.at \in {"done", "waiting", "failed"}
      /\ UNCHANGED <<intent, completed, torn, stage, ended, stored, spoiled, file, host>>
  BY NoWorkerTyped DEF Fades, journal
<1> QED
  BY <1>1, WorkerLeaves

LEMMA WorkerHolds ==
    ASSUME IndInv, Held, WorkerStep PROVE Held'
<1>1. ASSUME NEW steps, SaveObservation(steps) PROVE Held'
  BY <1>1, SaveHolds DEF SaveObservation
<1>2. CASE SavePrimaryObservation \/ SaveAdjudicationObservation \/ SaveFinalReviewObservation
  BY <1>1, <1>2 DEF SavePrimaryObservation, SaveAdjudicationObservation,
     SaveFinalReviewObservation
<1>3. CASE \/ SavePrimarySubmission \/ SaveAdjudicationSubmission \/ SaveFinalReviewSubmission
           \/ SavePrimaryResults \/ SaveAdjudicationResults
  BY <1>3, SaveHolds DEF SavePrimarySubmission, SaveAdjudicationSubmission,
     SaveFinalReviewSubmission, SavePrimaryResults, SaveAdjudicationResults
<1> QED
  BY <1>2, <1>3, ClaimHolds, CallHolds, RecordHolds, DownloadHolds, FadesHolds DEF WorkerStep

(* Steps of the provider, and steps that change nothing. *)
LEMMA OthersHold ==
    ASSUME IndInv, Held,
           UNCHANGED <<intent, completed, torn, stage, ended, stored, spoiled, file, host, worker>>
    PROVE  Held'
<1>1. \A j, r : Has(j, r)' <=> Has(j, r)
  BY DEF Has
<1>2. PaymentsHeld' /\ WorkersWaitedFor' /\ OutputsHeld' /\ EndedLater'
  BY Zenon DEF Held, PaymentsHeld, WorkersWaitedFor, OutputsHeld, EndedLater
<1>3. RecordsHeld' /\ AgainTold' /\ ReceiptsBehind'
  BY Zenon DEF Held, RecordsHeld, AgainTold, ReceiptsBehind, ReceiptsWhole
<1>4. LastReceipts' /\ IntentsFirst'
  BY <1>1 DEF Held, LastReceipts, IntentsFirst
<1>5. FinalReviewHeld' /\ NextFinalReviewHeld'
  BY <1>1 DEF Held, FinalReviewHeld, NextFinalReviewHeld, Recorded
<1>6. SeenStillSo'
  BY DEF Held, SeenStillSo, Evidence, Unattempted, Recorded
<1> QED
  BY <1>2, <1>3, <1>4, <1>5, <1>6 DEF Held

---------------------------------------------------------------------------
(* Faults outside the windows keep it.                                     *)

LEMMA FaultClear ==
    ASSUME IndInv, NEW k \in Steps, NEW at \in Places, Fault(k, at), Clear'
    PROVE  Clear /\ ~Window([step |-> k, at |-> at])
<1>1. PICK d : d = [step |-> k, at |-> at]
  OBVIOUS
<1>2. d \in Deaths /\ died \in Seq(Deaths) /\ died' = Append(died, d)
  BY <1>1 DEF Deaths, Places, IndInv, TypeOK, Fault
<1>3. PICK n \in Nat : n = Len(died)
  BY <1>2
<1>4. /\ Len(died') = n + 1 /\ died'[n + 1] = d
      /\ \A i \in 1 .. n : died'[i] = died[i]
  BY <1>2, <1>3
<1>5. ~Window(d)
  BY <1>4 DEF Clear
<1>6. ASSUME NEW i \in 1 .. n PROVE ~Window(died[i])
  <2>1. i \in 1 .. n + 1 /\ died'[i] = died[i]
    BY <1>4
  <2> QED
    BY <1>4, <2>1 DEF Clear
<1> QED
  BY <1>1, <1>3, <1>5, <1>6 DEF Clear

LEMMA FailsHolds ==
    ASSUME IndInv, ProviderFails, Clear' PROVE FALSE
<1>1. worker.at = "call" /\ worker.step \in Submits /\ worker.step \in Steps
  BY PartsAreSubmits DEF ProviderFails, IndInv, WorkerOK, TypeOK
<1>2. Window([step |-> worker.step, at |-> "call"])
  BY <1>1 DEF Window, PaidWindow
<1> QED
  BY <1>1, <1>2, FaultClear DEF ProviderFails, Places, WorkerStates

LEMMA WorkerDiesHolds ==
    ASSUME IndInv, WorkerDies, Clear', Held PROVE Held'
<1>1. /\ worker.step \in Steps /\ worker.at \in Places
      /\ UNCHANGED <<stage, ended, stored, file, host>> /\ worker'.at = "none"
  BY Typed, NoWorkerTyped DEF WorkerDies, Places
<1>2. ~Window([step |-> worker.step, at |-> worker.at])
  BY <1>1, FaultClear DEF WorkerDies
<1>3. /\ worker.step \in Submits => worker.at \notin {"call", "record"}
      /\ worker.step \in Unrepeatable => worker.at # "done"
      /\ worker.at # "save"
      /\ worker.step \in {15, 17} => worker.at # "intent"
  BY <1>2 DEF Window, PaidWindow, SaveWindow, ReceiptWindow, IntentWindow, Unrepeatable
<1>4. UNCHANGED <<intent, completed, torn>>
  BY <1>3, PartsAreSubmits DEF WorkerDies, Killed, journal, IndInv, WorkerOK
<1> QED
  BY <1>1, <1>3, <1>4, PartsAreSubmits, WorkerLeaves DEF Submits

---------------------------------------------------------------------------
(* Steps of the script keep it.                                            *)

LEMMA FileSet ==
    ASSUME IndInv, NEW state, FileTo(state)
    PROVE  \A j \in Steps, r \in Records :
              file'[j][r] = IF j = host.step /\ r = host.record THEN state ELSE file[j][r]
<1>1. /\ host.step \in Steps /\ host.record \in Records /\ file \in FileType
      /\ file' = [file EXCEPT ![host.step][host.record] = state]
  BY Typed DEF HostType, FileTo
<1> QED
  BY <1>1 DEF FileType

(* What a script does leaves the payments and the outputs to the worker. *)
LEMMA HostAlone ==
    ASSUME Held, UNCHANGED <<intent, completed, torn, stage, ended, stored, spoiled, worker>>
    PROVE  PaymentsHeld' /\ OutputsHeld' /\ EndedLater'
BY Zenon DEF Held, PaymentsHeld, OutputsHeld, EndedLater

LEMMA StepKinds ==
    /\ \A k \in Steps : k \in Submits \/ k \in Observes \/ k \in {5, 14}
    /\ {15, 17} \subseteq Submits /\ {"claim", "intent", "receipt"} = Records
    /\ {15, 17} \subseteq Steps
    /\ 15 \in Parts /\ 17 \in Parts
BY PartsAreSubmits DEF Steps, Submits, Observes, Records

LEMMA HostDiesHolds ==
    ASSUME IndInv, HostDies, Clear', Held PROVE Held'
<1>0. PICK k \in Steps, r \in Records : k = host.step /\ r = host.record
  BY Typed DEF HostType
<1>1. /\ host.at # "idle" /\ host'.at = "idle" /\ host.at \in Places
      /\ UNCHANGED <<intent, completed, torn, stage, ended, stored, spoiled, worker>>
  <2>1. host.at # "idle" /\ host' = NoHost /\ UNCHANGED <<journal, stage, ended, stored, spoiled, worker>>
    BY DEF HostDies
  <2>2. host.at \in Places
    BY Typed DEF HostType, Places
  <2> QED
    BY <2>1, <2>2, NoHostTyped DEF journal
<1>2. ~Window([step |-> k, at |-> host.at])
  <2>1. Fault(k, host.at)
    BY <1>0 DEF HostDies
  <2> QED
    BY <1>1, <2>1, FaultClear
<1>3. /\ host.at # "wait"
      /\ k \in {15, 17} => host.at # "launch"
      /\ k \notin Repaired => host.at \notin {"write", "link", "unlink"}
  BY <1>2 DEF Window, SaveWindow, IntentWindow, RecordWindow, Repaired
<1>4. \A j \in Steps, q \in Records :
         \/ file'[j][q] = file[j][q]
         \/ /\ j = k /\ q = r /\ k \in Repaired /\ host.at = "write"
            /\ file'[j][q] \in {"empty", "cut"}
  <2>1. CASE UNCHANGED file
    BY <2>1
  <2>2. CASE host.at = "write" /\ \E state \in {"empty", "cut"} : FileTo(state)
    BY <1>0, <1>3, <2>2, FileSet
  <2>3. \/ UNCHANGED file
        \/ host.at = "write" /\ \E state \in {"empty", "cut"} : FileTo(state)
    BY DEF HostDies
  <2> QED
    BY <2>1, <2>2, <2>3
<1>5. \A j \in Steps, q \in Records : Has(j, q)' <=> Has(j, q)
  <2>1. k \in Repaired /\ host.at = "write" => ~Has(k, r)
    BY <1>0 DEF IndInv, RecordsOK, Repaired
  <2> QED
    BY <1>4, <2>1 DEF Has, Repaired
<1>6. \A j \in Steps, q \in Records : file[j][q] = "whole" => file'[j][q] = "whole"
  <2>1. k \in Repaired /\ host.at = "write" => file[k][r] # "whole"
    BY <1>0 DEF IndInv, RecordsOK, Repaired, Has
  <2> QED
    BY <1>4, <2>1
<1>7. WorkersWaitedFor'
  <2>1. worker.at \notin Working
    BY <1>3 DEF Held, WorkersWaitedFor
  <2> QED
    BY <1>1, <2>1 DEF WorkersWaitedFor
<1>8. RecordsHeld' /\ AgainTold'
  <2>1. ASSUME NEW j \in Steps, NEW q \in Records
        PROVE  /\ j \notin Repaired => file'[j][q] \in {"none", "whole"}
               /\ j \in Repaired => file'[j][q] # "restaged"
    BY <1>0, <1>3, <1>4 DEF Held, RecordsHeld
  <2> QED
    BY <1>1, <2>1 DEF RecordsHeld, AgainTold
<1>9. ReceiptsBehind'
  BY <1>1, <1>6, StepKinds DEF Held, ReceiptsBehind, ReceiptsWhole
<1>10. LastReceipts'
  <2>1. stage \in Unrepeatable => stage \in Steps /\ stage \in Submits \cup Observes
                                  /\ stage \notin Repaired
    BY DEF Unrepeatable, Steps, Submits, Observes, Repaired
  <2> QED
    BY <1>0, <1>1, <1>3, <1>5, <2>1, StepKinds DEF Held, LastReceipts
<1>11. IntentsFirst'
  BY <1>1, <1>5, Typed, PartsAreSubmits, StepKinds DEF Held, IntentsFirst
<1>12. FinalReviewHeld' /\ NextFinalReviewHeld'
  <2>1. 15 \notin Repaired /\ 17 \notin Repaired
    BY DEF Repaired
  <2> QED
    BY <1>0, <1>1, <1>3, <1>5, <2>1, StepKinds
       DEF Held, FinalReviewHeld, NextFinalReviewHeld, Recorded
<1>13. SeenStillSo'
  BY <1>1 DEF SeenStillSo
<1> QED
  BY <1>1, <1>7, <1>8, <1>9, <1>10, <1>11, <1>12, <1>13, HostAlone DEF Held

LEMMA WriteHolds ==
    ASSUME IndInv, Held, WriteRecord PROVE Held'
<1>0. PICK k \in Steps, r \in Records : k = host.step /\ r = host.record
  BY Typed DEF HostType
<1>1. /\ host.at = "write"
      /\ UNCHANGED <<intent, completed, torn, stage, ended, stored, spoiled, worker>>
  BY DEF WriteRecord, journal
<1>2. PICK state : /\ FileTo(state)
                   /\ k = 1 => state = "whole"
                   /\ k # 1 => state = Content(host.again /\ r = "receipt")
  BY <1>0 DEF WriteRecord
<1>3. PICK a \in {"link", "unlink"} : HostTo(a) /\ (a = "unlink" <=> k = 1)
  BY <1>0 DEF WriteRecord
<1>4. /\ host'.at = a /\ host'.step = k /\ host'.record = r
      /\ host'.again = host.again /\ host'.seen = host.seen
  BY <1>0, <1>3, Typed DEF HostTo, HostType, HostStates
<1>5. \A j \in Steps, q \in Records :
         file'[j][q] = IF j = k /\ q = r THEN state ELSE file[j][q]
  BY <1>0, <1>2, FileSet
<1>6. /\ k # 1 => state \in {"staged", "restaged"} /\ ~Has(k, r)
      /\ k \in Repaired => state = "staged"
  <2>1. k # 1 => ~Has(k, r)
    BY <1>0, <1>1 DEF IndInv, RecordsOK
  <2>2. k \in Repaired => host.again = FALSE /\ k # 1
    BY <1>0, <1>1 DEF Held, AgainTold, Repaired
  <2> QED
    BY <1>2, <2>1, <2>2 DEF Content
<1>7. /\ \A j \in Steps, q \in Records : Has(j, q) => Has(j, q)'
      /\ \A j \in Steps, q \in Records : j # 1 => (Has(j, q)' <=> Has(j, q))
      /\ \A j \in Steps, q \in Records : file[j][q] = "whole" => file'[j][q] = "whole"
  BY <1>2, <1>5, <1>6 DEF Has
<1>8. WorkersWaitedFor'
  BY <1>1 DEF Held, WorkersWaitedFor
<1>9. RecordsHeld' /\ AgainTold'
  <2>1. ASSUME NEW j \in Steps, NEW q \in Records
        PROVE  /\ j \notin Repaired /\ file'[j][q] \notin {"none", "whole"} => a = "link" /\ j = k /\ q = r
               /\ j \in Repaired => file'[j][q] # "restaged"
    BY <1>1, <1>2, <1>3, <1>5, <1>6 DEF Held, RecordsHeld
  <2>2. /\ a = "link" => file'[k][r] \in {"staged", "restaged"}
        /\ a = "unlink" => file'[k][r] \in {"linked", "whole"}
    BY <1>2, <1>3, <1>5, <1>6
  <2>3. AgainTold'
    BY <1>0, <1>1, <1>4 DEF Held, AgainTold
  <2> QED
    BY <1>4, <2>1, <2>2, <2>3 DEF RecordsHeld
<1>10. ReceiptsBehind'
  BY <1>0, <1>1, <1>4, <1>7, StepKinds DEF Held, ReceiptsBehind, ReceiptsWhole
<1>11. LastReceipts'
  <2>1. stage \in Unrepeatable => stage \in Steps /\ stage # 1
    BY DEF Unrepeatable, Steps
  <2> QED
    BY <1>0, <1>1, <1>3, <1>4, <1>7, <2>1, StepKinds DEF Held, LastReceipts
<1>12. IntentsFirst'
  BY <1>0, <1>1, <1>3, <1>4, <1>7, Typed, PartsAreSubmits, StepKinds DEF Held, IntentsFirst
<1>13. FinalReviewHeld' /\ NextFinalReviewHeld'
  BY <1>0, <1>1, <1>3, <1>4, <1>7, StepKinds
     DEF Held, FinalReviewHeld, NextFinalReviewHeld, Recorded
<1>14. SeenStillSo'
  BY <1>0, <1>1, <1>3, <1>4 DEF Held, SeenStillSo, Evidence, Unattempted, Recorded
<1> QED
  BY <1>1, <1>8, <1>9, <1>10, <1>11, <1>12, <1>13, <1>14, HostAlone DEF Held

LEMMA LinkHolds ==
    ASSUME IndInv, Held, LinkRecord PROVE Held'
<1>0. PICK k \in Steps, r \in Records : k = host.step /\ r = host.record
  BY Typed DEF HostType
<1>1. /\ host.at = "link" /\ FileTo("linked") /\ HostTo("unlink")
      /\ UNCHANGED <<intent, completed, torn, stage, ended, stored, spoiled, worker>>
  BY DEF LinkRecord, journal
<1>2. k # 1 /\ file[k][r] # "whole"
  BY <1>0, <1>1 DEF IndInv, RecordsOK, Held, RecordsHeld
<1>3. /\ host'.at = "unlink" /\ host'.step = k /\ host'.record = r
      /\ host'.again = host.again /\ host'.seen = host.seen
  BY <1>0, <1>1, Typed DEF HostTo, HostType, HostStates
<1>4. \A j \in Steps, q \in Records :
         file'[j][q] = IF j = k /\ q = r THEN "linked" ELSE file[j][q]
  BY <1>0, <1>1, FileSet
<1>5. /\ \A j \in Steps, q \in Records : Has(j, q)' <=> Has(j, q) \/ (j = k /\ q = r)
      /\ \A j \in Steps, q \in Records : file[j][q] = "whole" => file'[j][q] = "whole"
  BY <1>2, <1>4 DEF Has
<1>6. WorkersWaitedFor'
  BY <1>1 DEF Held, WorkersWaitedFor
<1>7. RecordsHeld' /\ AgainTold'
  <2>1. ASSUME NEW j \in Steps, NEW q \in Records
        PROVE  /\ j \notin Repaired /\ file'[j][q] \notin {"none", "whole"} => j = k /\ q = r
               /\ j \in Repaired => file'[j][q] # "restaged"
    BY <1>0, <1>4 DEF Held, RecordsHeld
  <2>2. AgainTold'
    BY <1>0, <1>1, <1>3 DEF Held, AgainTold
  <2> QED
    BY <1>3, <1>4, <2>1, <2>2 DEF RecordsHeld
<1>8. ReceiptsBehind'
  BY <1>0, <1>1, <1>3, <1>5, StepKinds DEF Held, ReceiptsBehind, ReceiptsWhole
<1>9. LastReceipts'
  <2>1. stage \in Unrepeatable => stage \in Steps
    BY DEF Unrepeatable, Steps
  <2> QED
    BY <1>0, <1>1, <1>5, <2>1, StepKinds DEF Held, LastReceipts
<1>10. IntentsFirst'
  BY <1>0, <1>1, <1>3, <1>5, Typed, PartsAreSubmits, StepKinds DEF Held, IntentsFirst
<1>11. FinalReviewHeld' /\ NextFinalReviewHeld'
  BY <1>0, <1>1, <1>3, <1>5, StepKinds
     DEF Held, FinalReviewHeld, NextFinalReviewHeld, Recorded
<1>12. SeenStillSo'
  BY <1>0, <1>1, <1>3 DEF Held, SeenStillSo, Evidence, Unattempted, Recorded
<1> QED
  BY <1>1, <1>6, <1>7, <1>8, <1>9, <1>10, <1>11, <1>12, HostAlone DEF Held

LEMMA UnlinkHolds ==
    ASSUME IndInv, Held, UnlinkRecord PROVE Held'
<1>0. PICK k \in Steps, r \in Records : k = host.step /\ r = host.record
  BY Typed DEF HostType
<1>1. /\ host.at = "unlink" /\ FileTo("whole")
      /\ UNCHANGED <<intent, completed, torn, stage, ended, stored, spoiled, worker>>
  BY DEF UnlinkRecord, journal
<1>2. file[k][r] \in {"linked", "whole"}
  BY <1>0, <1>1 DEF Held, RecordsHeld
<1>3. \A j \in Steps, q \in Records :
         file'[j][q] = IF j = k /\ q = r THEN "whole" ELSE file[j][q]
  BY <1>0, <1>1, FileSet
<1>4. /\ \A j \in Steps, q \in Records : Has(j, q) => Has(j, q)'
      /\ \A j \in Steps, q \in Records : j # 1 => (Has(j, q)' <=> Has(j, q))
      /\ \A j \in Steps, q \in Records : file[j][q] = "whole" => file'[j][q] = "whole"
      /\ Has(k, r)'
  BY <1>2, <1>3 DEF Has
<1>5. \/ /\ r = "claim" /\ Publishable(k, "intent", FALSE)
         /\ host' = [host EXCEPT !.at = "write", !.record = "intent"]
      \/ r = "claim" /\ ~Publishable(k, "intent", FALSE) /\ host' = NoHost
      \/ r = "intent" /\ host' = [host EXCEPT !.at = "launch"]
      \/ r = "receipt" /\ host' = NoHost
  BY <1>0, StepKinds DEF UnlinkRecord
<1>6. \/ host'.at = "idle" /\ r = "claim" /\ ~Publishable(k, "intent", FALSE)
      \/ host'.at = "idle" /\ r = "receipt"
      \/ /\ host'.step = k /\ host'.record = "intent"
         /\ host'.again = host.again /\ host'.seen = host.seen
         /\ \/ r = "claim" /\ host'.at = "write"
            \/ r = "intent" /\ host'.at = "launch"
  BY <1>0, <1>5, Typed, NoHostTyped DEF HostType, HostStates, Records
<1>7. k \in {15, 17} /\ r = "claim" => Publishable(k, "intent", FALSE)
  <2>1. ASSUME k \in {15, 17}, r = "claim" PROVE file[k]["intent"] \in {"none", "whole"}
    BY <1>0, <2>1, StepKinds DEF Held, RecordsHeld, Repaired
  <2> QED
    BY <2>1 DEF Publishable
<1>8. WorkersWaitedFor'
  BY <1>1 DEF Held, WorkersWaitedFor
<1>9. RecordsHeld' /\ AgainTold'
  <2>1. ASSUME NEW j \in Steps, NEW q \in Records
        PROVE  /\ j \notin Repaired => file'[j][q] \in {"none", "whole"}
               /\ j \in Repaired => file'[j][q] # "restaged"
    BY <1>0, <1>3 DEF Held, RecordsHeld
  <2>2. AgainTold'
    BY <1>0, <1>1, <1>6 DEF Held, AgainTold
  <2> QED
    BY <1>6, <2>1, <2>2 DEF RecordsHeld
<1>10. ReceiptsBehind'
  BY <1>0, <1>1, <1>4, <1>6, StepKinds DEF Held, ReceiptsBehind, ReceiptsWhole
<1>11. LastReceipts'
  <2>1. stage \in Unrepeatable => stage \in Steps /\ stage # 1
    BY DEF Unrepeatable, Steps
  <2> QED
    BY <1>1, <1>4, <2>1, StepKinds DEF Held, LastReceipts
<1>12. IntentsFirst'
  BY <1>0, <1>1, <1>4, <1>6, Typed, PartsAreSubmits, StepKinds DEF Held, IntentsFirst
<1>13. FinalReviewHeld' /\ NextFinalReviewHeld'
  <2>1. /\ \A q \in Records : /\ Has(15, q)' <=> Has(15, q)
                              /\ Has(17, q)' <=> Has(17, q)
        /\ Recorded(15)' <=> Recorded(15)
    BY <1>1, <1>4, StepKinds DEF Recorded
  <2>2. k \in {15, 17} /\ r # "receipt" =>
           /\ host'.step = k /\ host'.record = "intent" /\ host'.at \in {"write", "launch"}
           /\ r = "claim" <=> host'.at = "write"
    BY <1>6, <1>7
  <2>3. FinalReviewHeld'
    BY <1>0, <1>1, <2>1, <2>2, StepKinds DEF Held, FinalReviewHeld
  <2>4. NextFinalReviewHeld'
    BY <1>0, <1>1, <2>1, <2>2, StepKinds DEF Held, NextFinalReviewHeld
  <2> QED
    BY <2>3, <2>4
<1>14. SeenStillSo'
  BY <1>0, <1>1, <1>6 DEF Held, SeenStillSo, Evidence, Unattempted, Recorded
<1> QED
  BY <1>1, <1>8, <1>9, <1>10, <1>11, <1>12, <1>13, <1>14, HostAlone DEF Held

LEMMA LaunchHolds ==
    ASSUME IndInv, Held, Unspoiled, Launch PROVE Held'
<1>0. PICK k \in Steps, r \in Records : k = host.step /\ r = host.record
  BY Typed DEF HostType
<1>6. worker.at \notin Working
  <2>1. host.at # "wait"
    BY DEF Launch
  <2> QED
    BY <2>1 DEF Held, WorkersWaitedFor
<1>1. /\ host.at = "launch" /\ r = "intent" /\ HostTo("wait")
      /\ UNCHANGED <<intent, completed, torn, stage, ended, stored, spoiled, file>>
      /\ ~spoiled'
  BY <1>0, <1>6 DEF Launch, Killed, Working, journal, IndInv, HostOK, Unspoiled
<1>2. PICK a : /\ a = IF k = 1 \/ (host.seen = Evidence(k) /\ ~spoiled') THEN Task(k) ELSE "failed"
               /\ worker' = [at |-> a, step |-> k]
  BY <1>0, <1>1 DEF Launch
<1>3. worker'.at = a /\ worker'.step = k
  BY <1>2
<1>4. /\ host'.at = "wait" /\ host'.step = k /\ host'.record = r
      /\ host'.again = host.again
  BY <1>0, <1>1, Typed DEF HostTo, HostType, HostStates
<1>5. \A j, q : Has(j, q)' <=> Has(j, q)
  BY <1>1 DEF Has
<1>7. PaymentsHeld'
  BY <1>1, <1>6 DEF Held, PaymentsHeld, Working
<1>8. WorkersWaitedFor'
  BY <1>3, <1>4 DEF WorkersWaitedFor
<1>9. RecordsHeld' /\ AgainTold'
  <2>1. RecordsHeld'
    BY <1>1, <1>4, Zenon DEF Held, RecordsHeld
  <2>2. AgainTold'
    BY <1>0, <1>1, <1>4 DEF Held, AgainTold
  <2> QED
    BY <2>1, <2>2
<1>10. ReceiptsBehind'
  BY <1>0, <1>1, <1>3, <1>4 DEF Held, ReceiptsBehind, ReceiptsWhole
<1>11. LastReceipts'
  BY <1>0, <1>1, <1>5 DEF Held, LastReceipts
<1>12. OutputsHeld'
  BY <1>1, <1>6 DEF Held, OutputsHeld, Working
<1>13. IntentsFirst'
  BY <1>0, <1>1, <1>3, <1>4, <1>5 DEF Held, IntentsFirst
<1>14. FinalReviewHeld'
  <2>1. ASSUME Has(15, "intent"), ~Recorded(15) PROVE k = 15 /\ a = "intent"
    <3>1. k = 15 /\ host.seen = Evidence(15)
      BY <1>0, <1>1, <2>1 DEF Held, FinalReviewHeld, SeenStillSo
    <3>2. Unattempted(15)
      BY <1>1, <1>6, <2>1, StepKinds DEF Held, PaymentsHeld, Unattempted, Recorded,
         Working
    <3>3. ~Saved(15)
      BY <2>1, StepKinds DEF Saved, IndInv, StageOK
    <3>4. Task(15) = "intent"
      BY <2>1, <3>2, <3>3 DEF Task, SubmitFinalReview, SubmitPrimary, SubmissionTask
    <3> QED
      BY <1>1, <1>2, <3>1, <3>4
  <2> QED
    BY <1>0, <1>1, <1>3, <1>4, <1>5, <2>1 DEF Held, FinalReviewHeld, Recorded
<1>15. NextFinalReviewHeld'
  <2>1. ASSUME Has(17, "claim"), stage < 17 PROVE k = 17 /\ a = "intent"
    <3>1. k = 17 /\ host.seen = Evidence(17) /\ Unattempted(17)
      BY <1>0, <1>1, <2>1 DEF Held, NextFinalReviewHeld, SeenStillSo
    <3>2. ~Saved(17)
      BY <2>1, Typed DEF Saved
    <3>3. Task(17) = "intent"
      BY <3>1, <3>2 DEF Task, SubmitNextFinalReview
    <3> QED
      BY <1>1, <1>2, <3>1, <3>3
  <2> QED
    BY <1>1, <1>3, <1>4, <1>5, <2>1 DEF Held, NextFinalReviewHeld
<1>16. SeenStillSo' /\ EndedLater'
  BY <1>1, <1>4 DEF Held, SeenStillSo, EndedLater
<1> QED
  BY <1>7, <1>8, <1>9, <1>10, <1>11, <1>12, <1>13, <1>14, <1>15, <1>16 DEF Held

LEMMA CollectHolds ==
    ASSUME IndInv, Held, Unspoiled, Collect PROVE Held'
<1>0. PICK k \in Steps, r \in Records : k = host.step /\ r = host.record
  BY Typed DEF HostType
<1>1. /\ host.at = "wait" /\ r = "intent" /\ worker'.at = "none"
      /\ worker.at \in {"none", "done", "waiting", "failed"}
      /\ UNCHANGED <<intent, completed, torn, stage, ended, stored, spoiled, file>>
  BY <1>0, NoWorkerTyped DEF Collect, journal, IndInv, HostOK
<1>2. \/ /\ worker.at = "done" /\ Publishable(k, "receipt", host.again)
         /\ host'.at = "write" /\ host'.record = "receipt" /\ host'.step = k
         /\ host'.again = host.again
      \/ /\ ~(worker.at = "done" /\ Publishable(k, "receipt", host.again))
         /\ host'.at = "idle"
  BY <1>0, Typed, NoHostTyped DEF Collect, HostType, HostStates, Records, Unspoiled
<1>3. \A j, q : Has(j, q)' <=> Has(j, q)
  BY <1>1 DEF Has
<1>4. PaymentsHeld' /\ WorkersWaitedFor' /\ OutputsHeld'
  BY <1>1 DEF Held, PaymentsHeld, WorkersWaitedFor, OutputsHeld, Working
<1>5. RecordsHeld' /\ AgainTold'
  <2>1. RecordsHeld'
    BY <1>1, <1>2 DEF Held, RecordsHeld
  <2>2. AgainTold'
    BY <1>0, <1>1, <1>2 DEF Held, AgainTold
  <2> QED
    BY <2>1, <2>2
<1>6. ReceiptsBehind'
  BY <1>0, <1>1, <1>2 DEF Held, ReceiptsBehind, ReceiptsWhole, Working
<1>7. LastReceipts'
  <2>1. ASSUME stage \in Unrepeatable, ~Has(stage, "receipt")
        PROVE  k = stage /\ host'.at = "write" /\ host'.record = "receipt" /\ host'.step = k
    <3>1. k = stage /\ worker.at = "done"
      BY <1>0, <1>1, <2>1 DEF Held, LastReceipts
    <3>2. k \notin Repaired /\ k # 1
      BY <2>1, <3>1 DEF Unrepeatable, Repaired
    <3>3. file[k]["receipt"] = "none"
      BY <1>1, <2>1, <3>1, <3>2, StepKinds DEF Held, RecordsHeld, Has
    <3>4. Publishable(k, "receipt", host.again)
      BY <3>3 DEF Publishable
    <3> QED
      BY <1>2, <3>1, <3>4
  <2> QED
    BY <1>1, <1>3, <2>1 DEF LastReceipts
<1>8. IntentsFirst'
  BY <1>0, <1>1, <1>2, <1>3 DEF Held, IntentsFirst, Working
<1>9. FinalReviewHeld' /\ NextFinalReviewHeld'
  BY <1>0, <1>1, <1>3 DEF Held, FinalReviewHeld, NextFinalReviewHeld, Recorded
<1>10. SeenStillSo' /\ EndedLater'
  BY <1>1, <1>2 DEF Held, SeenStillSo, EndedLater
<1> QED
  BY <1>4, <1>5, <1>6, <1>7, <1>8, <1>9, <1>10 DEF Held

(* Which script each step has. *)
LEMMA ScriptOf ==
    /\ Script(1) = Submission(1) /\ Script(2) = Observation(2)
    /\ Script(3) = NextPrimary(3) /\ Script(4) = NextPrimaryObservation(4)
    /\ Script(5) = PrimaryResults(5)
    /\ Script(6) = FirstAdjudication(6) /\ Script(7) = FirstAdjudicationObservation(7)
    /\ \A k \in {8, 10, 12} : Script(k) = NextAdjudication(k)
    /\ \A k \in {9, 11, 13} : Script(k) = NextAdjudicationObservation(k)
    /\ Script(14) = AdjudicationResults(14)
    /\ Script(15) = FinalReview(15) /\ Script(16) = FinalReviewObservation(16)
    /\ Script(17) = NextFinalReview(17)
<1>1. /\ Script(1) = Submission(1) /\ Script(2) = Observation(2)
      /\ Script(3) = NextPrimary(3) /\ Script(4) = NextPrimaryObservation(4)
      /\ Script(5) = PrimaryResults(5)
  BY DEF Script
<1>2. /\ Script(6) = FirstAdjudication(6) /\ Script(7) = FirstAdjudicationObservation(7)
      /\ Script(14) = AdjudicationResults(14)
  BY DEF Script
<1>3. /\ Script(8) = NextAdjudication(8) /\ Script(10) = NextAdjudication(10)
      /\ Script(12) = NextAdjudication(12)
  BY DEF Script, ThirdAdjudication, FourthAdjudication
<1>4. /\ Script(9) = NextAdjudicationObservation(9)
      /\ Script(11) = NextAdjudicationObservation(11)
      /\ Script(13) = NextAdjudicationObservation(13)
  BY DEF Script, ThirdAdjudicationObservation, FourthAdjudicationObservation
<1>5. /\ Script(15) = FinalReview(15) /\ Script(16) = FinalReviewObservation(16)
      /\ Script(17) = NextFinalReview(17)
  BY DEF Script
<1> QED
  BY <1>1, <1>2, <1>3, <1>4, <1>5

(* A script starts a worker only with its intent there. *)
LEMMA LaunchHasIntent ==
    ASSUME IndInv, NEW k \in Steps, Script(k) = "launch"
    PROVE  Has(k, "intent") \/ k <= stage
<1> DEFINE Good(d) == d = "launch" => Has(k, "intent") \/ k <= stage
<1> USE DEF Saved
<1>1. /\ Good(Submission(k)) /\ Good(Observation(k)) /\ Good(NextPrimary(k))
      /\ Good(NextPrimaryObservation(k)) /\ Good(PrimaryResults(k))
  BY DEF Submission, Observation, NextPrimary, NextPrimaryObservation, PrimaryResults
<1>2. /\ Good(FirstAdjudication(k)) /\ Good(FirstAdjudicationObservation(k))
      /\ Good(NextAdjudication(k)) /\ Good(NextAdjudicationObservation(k))
      /\ Good(AdjudicationResults(k))
  BY DEF FirstAdjudication, FirstAdjudicationObservation, NextAdjudication,
     NextAdjudicationObservation, AdjudicationResults
<1>3. Good(FinalReview(k)) /\ Good(FinalReviewObservation(k)) /\ Good(NextFinalReview(k))
  BY DEF FinalReview, FinalReviewObservation, NextFinalReview
<1> HIDE DEF Good
<1>4. k \in {1, 2, 3, 4, 5} => Good(Script(k))
  BY <1>1, ScriptOf
<1>5. k \in {6, 7, 8, 9, 10, 11, 12, 13, 14} => Good(Script(k))
  BY <1>2, ScriptOf
<1>6. k \in {15, 16, 17} => Good(Script(k))
  BY <1>3, ScriptOf
<1>7. \/ k \in {1, 2, 3, 4, 5} \/ k \in {6, 7, 8, 9, 10, 11, 12, 13, 14}
      \/ k \in {15, 16, 17}
  BY DEF Steps
<1> QED
  BY <1>4, <1>5, <1>6, <1>7 DEF Good

LEMMA StartHolds ==
    ASSUME IndInv, Held, NEW k \in Due, Start(k) PROVE Held'
<1>0. /\ k \in Steps /\ k \in 1 .. 17 /\ k \in {stage, stage + 1} /\ stage \in Nat
  BY Typed DEF Due, Steps
<1>1. /\ host.at = "idle" /\ Attested(k) /\ Legible(k) /\ file' = Relinked(k)
      /\ UNCHANGED <<intent, completed, torn, stage, ended, stored, spoiled, worker>>
  BY DEF Start, journal
<1>2. /\ \A j \in Steps, q \in Records : Has(j, q)' <=> Has(j, q)
      /\ \A j \in Steps, q \in Records :
            file'[j][q] = IF file[j][q] = "linked"
                             /\ ((j = k /\ k \in Relinks) \/ (j = k - 1 /\ k \in RelinksPrevious))
                          THEN "whole" ELSE file[j][q]
  BY <1>0, <1>1, RelinkedSame DEF Relinked
<1>3. worker.at \notin Working
  BY <1>1 DEF Held, WorkersWaitedFor
<1>4. PICK d : d = Decision(k)
  OBVIOUS
<1>5. \/ UNCHANGED host
      \/ /\ d \in Records \cup {"launch"} /\ d = Script(k) /\ Sound(k, d)
         /\ host'.at = IF d = "launch" THEN "launch" ELSE "write"
         /\ host'.step = k
         /\ host'.record = IF d = "launch" THEN "intent" ELSE d
         /\ host'.again = Again(k) /\ host'.seen = Evidence(k)
  <2>1. CASE UNCHANGED host
    BY <2>1
  <2>2. CASE /\ d \notin {"rest", "refuse"}
             /\ host' = [at |-> IF d = "launch" THEN "launch" ELSE "write", step |-> k,
                         record |-> IF d = "launch" THEN "intent" ELSE d,
                         again |-> Again(k), seen |-> Evidence(k)]
    <3>1. d = Script(k)
      BY <1>4, <2>2 DEF Decision
    <3>2. d \in Records \cup {"launch"} /\ Sound(k, d)
      BY <1>0, <2>2, <3>1, ScriptDecides DEF Decisions
    <3> QED
      BY <2>2, <3>1, <3>2
  <2> QED
    BY <1>4, <2>1, <2>2 DEF Start
<1>6. host'.at \in {"idle", "launch", "write"} /\ (host'.at # "idle" => host'.step = k)
  BY <1>1, <1>5
<1>7. \A j \in Steps, q \in Records : file[j][q] = "whole" => file'[j][q] = "whole"
  BY <1>2
<1>8. WorkersWaitedFor'
  BY <1>1, <1>3 DEF WorkersWaitedFor
<1>9. RecordsHeld' /\ AgainTold'
  <2>1. ASSUME NEW j \in Steps, NEW q \in Records
        PROVE  /\ j \notin Repaired => file'[j][q] \in {"none", "whole"}
               /\ j \in Repaired => file'[j][q] # "restaged"
    BY <1>1, <1>2 DEF Held, RecordsHeld
  <2>2. AgainTold'
    <3>1. k \notin {3, 8, 10, 12} => Again(k) = FALSE
      BY DEF Again
    <3> QED
      BY <1>1, <1>5, <3>1 DEF AgainTold
  <2> QED
    BY <1>6, <2>1, <2>2 DEF RecordsHeld
<1>10. ReceiptsBehind'
  <2>1. ASSUME NEW j \in Steps, j < k PROVE file'[j]["receipt"] = "whole"
    <3>1. CASE j < stage
      BY <1>7, <3>1, StepKinds DEF Held, ReceiptsBehind, ReceiptsWhole
    <3>2. CASE j = k - 1 /\ k > 1
      BY <1>1, <1>2, <3>2, StepKinds DEF Attested
    <3> QED
      BY <1>0, <2>1, <3>1, <3>2 DEF Steps
  <2> QED
    BY <1>1, <1>6, <1>7, <2>1, StepKinds DEF Held, ReceiptsBehind, ReceiptsWhole
<1>11. LastReceipts'
  <2>1. stage \in Unrepeatable => stage \in Steps
    BY DEF Unrepeatable, Steps
  <2> QED
    BY <1>1, <1>2, <2>1, StepKinds DEF Held, LastReceipts
<1>12. IntentsFirst'
  <2>1. host'.at # "idle" /\ (host'.record = "receipt" \/ host'.at \in {"launch", "wait"})
           => Has(k, "intent")
    <3>1. ASSUME d = "launch", d = Script(k) PROVE Has(k, "intent")
      BY <1>0, <3>1, LaunchHasIntent DEF Held, IntentsFirst
    <3>2. ASSUME d = "receipt", Sound(k, d) PROVE Has(k, "intent")
      BY <1>0, <3>2 DEF Held, IntentsFirst, Sound
    <3> QED
      BY <1>1, <1>5, <3>1, <3>2
  <2> QED
    BY <1>0, <1>1, <1>2, <1>6, <2>1, Typed, PartsAreSubmits, StepKinds DEF Held, IntentsFirst
<1>13. FinalReviewHeld' /\ NextFinalReviewHeld'
  BY <1>1, <1>2, StepKinds DEF Held, FinalReviewHeld, NextFinalReviewHeld, Recorded
<1>14. SeenStillSo'
  <2>1. Evidence(k)' = Evidence(k)
    BY <1>1 DEF Evidence, Unattempted, Recorded
  <2>2. k \in {15, 17} => worker.at \notin Working
    BY <1>3
  <2>3. ASSUME k = 17, d \in Records \cup {"launch"}, d = Script(k) PROVE Unattempted(17)
    <3>1. d = NextFinalReview(17)
      BY <2>3 DEF Script
    <3>2. stage < 17
      BY <1>0, <2>3, <3>1 DEF NextFinalReview, Saved, Records
    <3>3. ~Has(17, "claim")
      BY <1>1, <3>2 DEF Held, NextFinalReviewHeld
    <3>4. ~Has(17, "intent")
      BY <3>3 DEF IndInv, FilesOK
    <3> QED
      BY <3>4, StepKinds DEF Held, IntentsFirst, PaymentsHeld, Unattempted
  <2>4. Unattempted(17)' <=> Unattempted(17)
    BY <1>1 DEF Unattempted
  <2> QED
    BY <1>1, <1>5, <2>1, <2>2, <2>3, <2>4 DEF SeenStillSo
<1> QED
  BY <1>1, <1>8, <1>9, <1>10, <1>11, <1>12, <1>13, <1>14, HostAlone DEF Held

---------------------------------------------------------------------------
(* The run stands still only after a fault in a window.                    *)

LEMMA InitHolds == Init => Held /\ Unspoiled
<1> SUFFICES ASSUME Init PROVE Held /\ Unspoiled
  OBVIOUS
<1>1. /\ stage = 0 /\ ended = FALSE /\ stored = {} /\ intent = {} /\ torn = {}
      /\ host.at = "idle" /\ worker.at = "none"
      /\ \A p \in Parts : completed[p] = 0
      /\ \A k \in Steps, r \in Records : file[k][r] = "none"
  BY NoHostTyped, NoWorkerTyped DEF Init, JournalInit
<1>2. \A k \in Steps, r \in Records : ~Has(k, r)
  BY <1>1 DEF Has
<1>3. PaymentsHeld /\ WorkersWaitedFor /\ RecordsHeld /\ AgainTold /\ OutputsHeld
  BY <1>1 DEF PaymentsHeld, WorkersWaitedFor, RecordsHeld, AgainTold, OutputsHeld, Working
<1>4. ReceiptsBehind
  BY <1>1, Typed, InitInv DEF ReceiptsBehind, ReceiptsWhole, Steps, Working
<1>5. LastReceipts /\ EndedLater
  BY <1>1 DEF LastReceipts, EndedLater, Unrepeatable
<1>6. IntentsFirst
  BY <1>1, Typed, InitInv DEF IntentsFirst, Steps, Working
<1>7. FinalReviewHeld /\ NextFinalReviewHeld /\ SeenStillSo
  BY <1>1, <1>2, StepKinds DEF FinalReviewHeld, NextFinalReviewHeld, SeenStillSo
<1>8. Unspoiled
  BY DEF Init, Unspoiled
<1> QED
  BY <1>3, <1>4, <1>5, <1>6, <1>7, <1>8 DEF Held

LEMMA NextHolds ==
    ASSUME IndInv, Clear => Held /\ Unspoiled, [Next]_vars, Clear'
    PROVE  Held' /\ Unspoiled'
<1>1. CASE HostDies
  <2>1. Clear
    <3>1. host.step \in Steps /\ host.at \in Places
      BY Typed DEF HostType, Places
    <3>2. Fault(host.step, host.at)
      BY <1>1 DEF HostDies
    <3> QED
      BY <3>1, <3>2, FaultClear
  <2>2. Unspoiled'
    BY <1>1, <2>1 DEF HostDies, Unspoiled
  <2> QED
    BY <1>1, <2>1, <2>2, HostDiesHolds
<1>2. CASE WorkerDies
  <2>1. Clear
    BY <1>2, Typed, FaultClear DEF WorkerDies, Places
  <2>2. worker.at # "save"
    <3>1. Fault(worker.step, worker.at) /\ worker.step \in Steps /\ worker.at \in Places
      BY <1>2, Typed DEF WorkerDies, Places
    <3>2. ~Window([step |-> worker.step, at |-> worker.at])
      BY <3>1, FaultClear
    <3> QED
      BY <3>2 DEF Window, SaveWindow
  <2>3. Unspoiled'
    BY <1>2, <2>1, <2>2 DEF WorkerDies, Killed, Unspoiled
  <2> QED
    BY <1>2, <2>1, <2>3, WorkerDiesHolds
<1>3. CASE ProviderFails
  BY <1>3, FailsHolds
<1>4. CASE HostStep \/ WorkerStep \/ EndBatch \/ UNCHANGED vars
  <2>1. died' = died
    BY <1>4 DEF HostStep, Start, WriteRecord, LinkRecord, UnlinkRecord, Launch, Collect,
       WorkerStep, Claim, CallProvider, RecordBatch, Download, Fades, Save, SaveObservation,
       SavePrimarySubmission, SavePrimaryObservation, SavePrimaryResults,
       SaveAdjudicationSubmission, SaveAdjudicationObservation, SaveAdjudicationResults,
       SaveFinalReviewSubmission, SaveFinalReviewObservation, EndBatch, vars
  <2>2. Held /\ Unspoiled
    BY <2>1 DEF Clear
  <2>7. Unspoiled'
    <3>1. CASE Launch
      <4>1. worker.at # "save"
        BY <2>2, <3>1 DEF Launch, Held, WorkersWaitedFor, Working
      <4> QED
        BY <2>2, <3>1, <4>1 DEF Launch, Killed, Unspoiled
    <3>2. CASE ~Launch
      BY <1>4, <2>2, <3>2
         DEF HostStep, Start, WriteRecord, LinkRecord, UnlinkRecord, Collect,
         WorkerStep, Claim, CallProvider, RecordBatch, Download, Fades, Save, SaveObservation,
         SavePrimarySubmission, SavePrimaryObservation, SavePrimaryResults,
         SaveAdjudicationSubmission, SaveAdjudicationObservation, SaveAdjudicationResults,
         SaveFinalReviewSubmission, SaveFinalReviewObservation, EndBatch, vars, Unspoiled
    <3> QED
      BY <3>1, <3>2
  <2>3. CASE HostStep
    BY <2>2, <2>7, <2>3, StartHolds, WriteHolds, LinkHolds, UnlinkHolds, LaunchHolds, CollectHolds
       DEF HostStep
  <2>4. CASE WorkerStep
    BY <2>2, <2>7, <2>4, WorkerHolds
  <2>5. CASE EndBatch
    BY <2>2, <2>7, <2>5, OthersHold DEF EndBatch, BatchEnds
  <2>6. CASE UNCHANGED vars
    BY <2>2, <2>7, <2>6, OthersHold DEF vars, journal
  <2> QED
    BY <1>4, <2>3, <2>4, <2>5, <2>6, <2>7
<1> QED
  BY <1>1, <1>2, <1>3, <1>4 DEF Next, Faults

(* Where nothing was lost and no script runs, every script can read what   *)
(* there is of its records and write what there is not.                    *)
LEMMA Readable ==
    ASSUME IndInv, Held, host.at = "idle", NEW k \in Steps
    PROVE  /\ Legible(k)
           /\ \A r \in Records : ~Has(k, r) => Publishable(k, r, Again(k))
<1>1. \A r \in Records : /\ k \notin Repaired => file[k][r] \in {"none", "whole"}
                         /\ k \in Repaired => file[k][r] \in FileStates \ {"restaged"}
  BY Typed DEF Held, RecordsHeld, FileType
<1>2. Legible(k)
  <2>1. CASE k = 1
    BY <1>1, <2>1 DEF Legible, Repaired
  <2>2. CASE k = 16
    BY <1>1, <2>2 DEF Legible, Repaired, Pending
  <2>3. CASE k \in {14, 15, 17}
    BY <1>1, <2>3 DEF Legible, Repaired, Pending
  <2>4. CASE k = 13
    BY <1>1, <2>4 DEF Legible, Repaired, Pending
  <2>5. CASE k \notin {1, 13, 14, 15, 16, 17}
    <3>1. \A r \in Records : file[k][r] = "linked" => k \in Relinks
      BY <1>1 DEF Repaired, Relinks
    <3> QED
      BY <2>5, <3>1 DEF Legible
  <2> QED
    BY <2>1, <2>2, <2>3, <2>4, <2>5
<1>3. ASSUME NEW r \in Records, ~Has(k, r) PROVE Publishable(k, r, Again(k))
  <2>1. CASE k \notin Repaired
    <3>1. file[k][r] = "none"
      BY <1>1, <1>3, <2>1 DEF Has
    <3> QED
      BY <3>1 DEF Publishable
  <2>2. CASE k \in Repaired
    <3>1. Again(k) = FALSE
      BY <2>2 DEF Again, Repaired
    <3>2. Content(Again(k)) = "staged" /\ Replaced(k) = {"empty", "cut"}
      BY <2>2, <3>1 DEF Content, Replaced, Repaired
    <3>3. file[k][r] \in {"none", "empty", "cut", "staged", "linked", "whole"}
      BY <1>1, <2>2 DEF FileStates
    <3> QED
      BY <3>2, <3>3 DEF Publishable
  <2> QED
    BY <2>1, <2>2
<1> QED
  BY <1>2, <1>3

(* What each worker does. *)
LEMMA TaskOf ==
    /\ \A k \in {1, 3, 6, 8, 10, 12, 15} : Task(k) = SubmitPrimary(k)
    /\ \A k \in {2, 4, 7, 9, 11, 13} : Task(k) = ObservePrimary(k)
    /\ \A k \in {5, 14} : Task(k) = ProcessPrimaryResults(k)
    /\ Task(16) = ObserveFinalReview(16) /\ Task(17) = SubmitNextFinalReview(17)
<1>1. ASSUME NEW k \in {1, 3, 6, 8, 10, 12, 15} PROVE Task(k) = SubmitPrimary(k)
  BY DEF Task, SubmitNextPrimary, SubmitFirstAdjudication, SubmitNextAdjudication,
     SubmitThirdAdjudication, SubmitFourthAdjudication, SubmitFinalReview
<1>2. ASSUME NEW k \in {2, 4, 7, 9, 11, 13} PROVE Task(k) = ObservePrimary(k)
  BY DEF Task, ObserveFirstAdjudication, ObserveNextAdjudication,
     ObserveThirdAdjudication, ObserveFourthAdjudication
<1>3. ASSUME NEW k \in {5, 14} PROVE Task(k) = ProcessPrimaryResults(k)
  BY DEF Task, ProcessAdjudicationResults
<1>4. Task(16) = ObserveFinalReview(16) /\ Task(17) = SubmitNextFinalReview(17)
  BY DEF Task
<1> QED
  BY <1>1, <1>2, <1>3, <1>4

(* A saved step without its receipt: its script gets to write it. *)
LEMMA SavedHelps ==
    ASSUME IndInv, Held, Unspoiled, host.at = "idle", worker.at = "none",
           NEW k \in Steps, k = stage, ~Has(k, "receipt")
    PROVE  Helps(k)
<1>1. k \in 1 .. 17 /\ Saved(k) /\ k \notin Unrepeatable
  BY DEF Saved, Steps, Held, LastReceipts
<1>2. Attested(k)
  <2>1. k > 1 => k - 1 \in Steps /\ k - 1 < stage
    BY <1>1 DEF Steps
  <2> QED
    BY <2>1 DEF Attested, Held, ReceiptsBehind, ReceiptsWhole
<1>3. Legible(k) /\ Publishable(k, "receipt", Again(k))
  BY Readable, StepKinds
<1>4. Decision(k) = Script(k)
  BY <1>1, <1>2, <1>3 DEF Decision, Unspoiled
<1>5. /\ Has(k, "intent")
      /\ k \in {14, 15} => Has(k, "claim")
      /\ k = 1 => ~Ambiguous(k)
  BY <1>1, PartsAreSubmits
     DEF Held, IntentsFirst, IndInv, FilesOK, StageOK, Ambiguous, Submits
<1>6. Task(k) = "done"
  <2>1. \/ k \in {1, 3, 6, 8, 10, 12, 15} \/ k \in {2, 4, 7, 9, 11, 13} \/ k \in {5, 14}
    BY <1>1 DEF Unrepeatable
  <2> QED
    BY <1>1, <2>1, TaskOf DEF SubmitPrimary, ObservePrimary, ProcessPrimaryResults
<1>7. Script(k) \in {"receipt", "launch"}
  <2>1. CASE k \in {1, 2, 3}
    BY <1>1, <1>5, <2>1, ScriptOf DEF Submission, Observation, NextPrimary
  <2>2. CASE k \in {4, 5, 6}
    BY <1>1, <1>5, <2>2, ScriptOf
       DEF NextPrimaryObservation, PrimaryResults, FirstAdjudication
  <2>3. CASE k \in {7, 8, 10, 12}
    BY <1>1, <2>3, ScriptOf DEF FirstAdjudicationObservation, NextAdjudication
  <2>4. CASE k \in {14, 15}
    <3>1. ~(Has(15, "claim") # Has(15, "intent")) \/ k # 15
      BY <1>5 DEF Has
    <3> QED
      BY <1>1, <1>5, <2>4, <3>1, ScriptOf DEF AdjudicationResults, FinalReview
  <2> QED
    BY <1>1, <2>1, <2>2, <2>3, <2>4 DEF Unrepeatable
<1> QED
  BY <1>2, <1>3, <1>4, <1>6, <1>7 DEF Helps, Records

(* The next step of a run that goes on: its script gets somewhere. *)
LEMMA NextHelps ==
    ASSUME IndInv, Held, Unspoiled, host.at = "idle", worker.at = "none",
           NEW k \in Steps, k = stage + 1, ~ended, Attested(k)
    PROVE  Helps(k)
<1>1. k \in 1 .. 17 /\ stage \in Nat /\ ~Saved(k) /\ ~Has(k, "receipt")
  <2>1. k \in 1 .. 17 /\ stage \in Nat
    BY Typed DEF Steps
  <2>2. ~(stage >= k) /\ ~(k <= stage)
    BY <2>1
  <2> QED
    BY <2>1, <2>2 DEF Saved, IndInv, FilesOK
<1>2. /\ Legible(k)
      /\ \A r \in Records : ~Has(k, r) => Publishable(k, r, Again(k))
  BY Readable
<1>3. Decision(k) = Script(k)
  BY <1>2 DEF Decision, Unspoiled
<1>4. \A p \in Parts : Recorded(p) \/ Unattempted(p)
  BY DEF Held, PaymentsHeld, Recorded, Unattempted
<1>5. k \in Submits => ~Ambiguous(k)
  BY <1>4, PartsAreSubmits DEF Ambiguous
<1>6. k \in Observes => k \notin stored
  BY <1>1 DEF Held, OutputsHeld
<1>7. Script(k) \notin {"rest", "refuse"}
  <2>1. CASE k \in {1, 2, 3}
    BY <1>1, <1>5, <2>1, ScriptOf DEF Submission, Observation, NextPrimary, Submits
  <2>2. CASE k \in {4, 5, 6}
    BY <1>1, <1>6, <2>2, ScriptOf
       DEF NextPrimaryObservation, PrimaryResults, FirstAdjudication, Observes
  <2>3. CASE k \in {7, 8, 10, 12}
    BY <1>1, <1>6, <2>3, ScriptOf
       DEF FirstAdjudicationObservation, NextAdjudication, Observes
  <2>4. CASE k \in {9, 11, 13, 16}
    BY <1>1, <1>6, <2>4, ScriptOf
       DEF NextAdjudicationObservation, FinalReviewObservation, Observes
  <2>5. CASE k = 14
    BY <1>1, <2>5, ScriptOf DEF AdjudicationResults
  <2>6. CASE k = 15
    <3>1. /\ Has(15, "claim") <=> Has(15, "intent")
          /\ Has(15, "intent") => Recorded(15)
      BY DEF Held, FinalReviewHeld, IndInv, FilesOK
    <3>2. ~(Has(15, "claim") # Has(15, "intent"))
      BY <3>1 DEF Has
    <3> QED
      BY <1>1, <2>6, <3>1, <3>2, ScriptOf DEF FinalReview
  <2>7. CASE k = 17
    <3>1. ~Has(17, "claim")
      BY <1>1, <2>7 DEF Held, NextFinalReviewHeld
    <3> QED
      BY <1>1, <2>7, <3>1, ScriptOf DEF NextFinalReview
  <2> QED
    BY <1>1, <2>1, <2>2, <2>3, <2>4, <2>5, <2>6, <2>7
<1>8. Script(k) = "launch" => Task(k) \notin {"failed", "done"}
  <2>1. CASE k \in {1, 3, 6, 8, 10, 12, 15}
    <3>1. k \in Parts
      BY <2>1, PartsAreSubmits DEF Submits
    <3> QED
      BY <1>1, <1>4, <2>1, <3>1, TaskOf DEF SubmitPrimary, SubmissionTask
  <2>2. CASE k \in {2, 4, 7, 9, 11, 13}
    BY <1>1, <1>6, <2>2, TaskOf DEF ObservePrimary, CheckpointHolds, ObservationTask, Observes
  <2>3. CASE k \in {5, 14}
    BY <1>1, <2>3, TaskOf DEF ProcessPrimaryResults
  <2>4. CASE k = 16
    BY <1>1, <1>6, <2>4, TaskOf DEF ObserveFinalReview, CheckpointHolds, ObservationTask, Observes
  <2>5. CASE k = 17
    BY <2>5, ScriptOf DEF NextFinalReview
  <2> QED
    BY <1>1, <2>1, <2>2, <2>3, <2>4, <2>5
<1>9. Script(k) \in Records => ~Has(k, Script(k))
  BY ScriptDecides DEF Sound
<1>10. Script(k) \in Records \cup {"launch"}
  BY <1>7, ScriptDecides DEF Decisions
<1> QED
  BY <1>2, <1>3, <1>8, <1>9, <1>10 DEF Helps

LEMMA StandsStillFinished ==
    ASSUME IndInv, Held, Unspoiled, Stuck PROVE Finished
<1>1. /\ host.at = "idle" /\ worker.at = "none"
      /\ \A k \in Due : ~Helps(k)
      /\ stage \in 0 .. 17
  BY DEF Stuck, IndInv, TypeOK
<1>2. stage # 0 => stage \in Steps /\ stage \in Due /\ Has(stage, "receipt")
  <2>1. stage # 0 => stage \in Steps
    BY <1>1 DEF Steps
  <2>2. stage # 0 => stage \in Due
    BY <2>1 DEF Due
  <2> QED
    BY <1>1, <2>1, <2>2, SavedHelps
<1>3. CASE ended \/ stage = 17
  <2>1. stage # 0
    BY <1>1, <1>3 DEF Held, EndedLater
  <2> QED
    BY <1>2, <1>3, <2>1 DEF Finished
<1>4. CASE ~ended /\ stage # 17
  <2> DEFINE k == stage + 1
  <2>1. k \in Steps /\ k \in Due
    <3>1. k \in 1 .. 17
      BY <1>1, <1>4
    <3> QED
      BY <3>1 DEF Due, Steps
  <2>2. ~Attested(k)
    BY <1>1, <1>4, <2>1, NextHelps
  <2>3. stage # 0 /\ file[stage]["receipt"] # "whole"
    BY <1>1, <2>2 DEF Attested
  <2>4. stage \in Repaired /\ file[stage]["receipt"] = "linked"
    <3>1. stage \in Repaired
      BY <1>1, <1>2, <2>3, StepKinds DEF Held, RecordsHeld, Has
    <3> QED
      BY <1>2, <2>3, <3>1 DEF Has, Repaired
  <2>5. stage = 2
    <3>1. stage = 4 => k \in RelinksPrevious
      BY DEF RelinksPrevious
    <3>2. stage = 4 => Attested(k)
      BY <2>4, <3>1 DEF Attested
    <3> QED
      BY <2>2, <2>4, <3>2 DEF Repaired
  <2>6. Relinked(2) # file
    <3>1. Relinked(2)[2]["receipt"] = "whole"
      BY <2>4, <2>5, StepKinds DEF Relinked, Relinks, Steps
    <3> QED
      BY <2>4, <2>5, <3>1
  <2>7. Attested(2)
    <3>1. 1 \in Steps
      BY DEF Steps
    <3> QED
      BY <2>5, <3>1 DEF Held, ReceiptsBehind, ReceiptsWhole, Attested
  <2>8. Legible(2)
    BY <1>1, <1>2, <2>5, Readable
  <2>9. Helps(2)
    BY <2>6, <2>7, <2>8 DEF Helps
  <2> QED
    BY <1>1, <1>2, <2>5, <2>9
<1> QED
  BY <1>3, <1>4

(* However many scripts and workers die, and whatever they leave running:  *)
(* the run comes to its last receipt or can be taken further by the same   *)
(* scripts, unless a fault hit one of the named windows.                   *)
THEOREM StopsOnlyThere == Spec => []StopsOnlyInWindows
<1>1. Init => (Clear => Held /\ Unspoiled)
  BY InitHolds
<1>2. IndInv /\ (Clear => Held /\ Unspoiled) /\ [Next]_vars => (Clear => Held /\ Unspoiled)'
  BY NextHolds
<1>3. IndInv /\ (Clear => Held /\ Unspoiled) => StopsOnlyInWindows
  <2> SUFFICES ASSUME IndInv, Clear => Held /\ Unspoiled, Stuck, ~Finished
               PROVE  \E i \in 1 .. Len(died) : Window(died[i])
    BY DEF StopsOnlyInWindows, Window
  <2>1. ~Clear
    BY StandsStillFinished
  <2> QED
    BY <2>1 DEF Clear
<1> QED
  BY <1>1, <1>2, <1>3, IndInvHolds, PTL DEF Spec

=============================================================================
