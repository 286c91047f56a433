-------------------------- MODULE SpeakerReviewHost --------------------------
(***************************************************************************)
(* The root side of a private speaker review.  An operator has one run     *)
(* directory taken through seventeen steps, one script each; a script is   *)
(* run again, with the same request, until it has left its receipt.        *)
(*                                                                         *)
(* Each script, alone under the deployment's file locks, reads all the     *)
(* evidence there is, decides, publishes an intent (some publish a claim   *)
(* of the authorization before), starts a worker container that takes the  *)
(* run one step further, and publishes a receipt.  The script may die and  *)
(* leave its container running, the container may die or run out of time;  *)
(* records reach their name by a staging file and a hard link, so a crash  *)
(* leaves an empty or cut staging file, a whole one, or a record with two  *)
(* names.  Scripts differ in which of these they put right.                *)
(***************************************************************************)
EXTENDS SubmissionJournal, FiniteSets

CONSTANTS
    MaxFaults,    \* bound: crashes and calls the provider refuses
    FaultSpan     \* bound: steps between the first of them and the last

ASSUME HostAssumption ==
    /\ MaxFaults \in Nat /\ FaultSpan \in Nat
    /\ Parts = {1, 3, 6, 8, 10, 12, 15, 17}

VARIABLES
    stage,      \* the last step whose effect the saved run state shows
    ended,      \* the run failed, or needs nothing more
    stored,     \* observations whose evidence is in the run directory: the
                \* output of the batch, or the errors of one that failed
    spoiled,    \* a write into the run directory was cut off: what it left is
                \* in no script's inventory
    file,       \* step -> record -> its state on disk
    host,       \* the script that runs
    worker,     \* its container
    died        \* where crashes and refusals hit, in order (history)

vars == <<journal, stage, ended, stored, spoiled, file, host, worker, died>>

Steps == 1 .. 17
Submits == {1, 3, 6, 8, 10, 12, 15, 17}
Observes == {2, 4, 7, 9, 11, 13, 16}
Records == {"claim", "intent", "receipt"}

(* What a script saw of the run; it hands its worker digests of it.        *)
Evidence(k) ==
    [stage |-> stage, stored |-> k \in stored,
     part |-> IF k \notin Submits \/ Unattempted(k) THEN "none"
              ELSE IF Recorded(k) THEN "both" ELSE "odd"]

NoHost == [at |-> "idle", step |-> 1, record |-> "intent", again |-> FALSE,
           seen |-> [stage |-> 0, stored |-> FALSE, part |-> "none"]]
NoWorker == [at |-> "none", step |-> 1]

FileStates == {"none", "empty", "cut", "staged", "restaged", "linked", "whole"}
HostStates == {"idle", "write", "link", "unlink", "launch", "wait"}
WorkerStates == {"none", "intent", "call", "record", "download", "save",
                 "done", "waiting", "failed"}

TypeOK ==
    /\ JournalTypeOK
    /\ stage \in 0 .. 17 /\ ended \in BOOLEAN
    /\ stored \subseteq Observes /\ spoiled \in BOOLEAN
    /\ file \in [Steps -> [Records -> FileStates]]
    /\ host \in [at : HostStates, step : Steps,
                 record : Records, again : BOOLEAN,
                 seen : [stage : 0 .. 17, stored : BOOLEAN, part : {"none", "both", "odd"}]]
    /\ worker \in [at : WorkerStates, step : Steps]
    /\ worker.at = "save" => stage + 1 = worker.step
    /\ died \in Seq([step : Steps, at : HostStates \cup WorkerStates])
    /\ Len(died) <= MaxFaults

Init ==
    /\ JournalInit
    /\ stage = 0 /\ ended = FALSE /\ stored = {} /\ spoiled = FALSE
    /\ file = [k \in Steps |-> [r \in Records |-> "none"]]
    /\ host = NoHost /\ worker = NoWorker
    /\ died = << >>

-----------------------------------------------------------------------------
(* Records.  Submission creates its files in place; every other script     *)
(* goes by a staging file.                                                 *)

(* _read_record, _record: which scripts finish a record with two names     *)
(* when they read their own, or the previous step's; the others refuse it. *)
Relinks == {2, 4, 5, 6, 10, 12, 13, 14, 15}
RelinksPrevious == {5, 6, 7, 10, 11, 12, 13, 15}

Pending == {"empty", "cut", "staged", "restaged"}

Has(k, r) == file[k][r] \in (IF k = 1 THEN {"empty", "cut", "whole"} ELSE {"linked", "whole"})

Legible(k) ==
    \A r \in Records :
       CASE k = 1 -> file[k][r] \in {"none", "whole"}
         [] k = 16 -> file[k][r] \notin Pending \cup {"linked"}
         [] k \in {14, 15, 17} -> file[k][r] \notin Pending /\ (file[k][r] = "linked" => k \in Relinks)
         [] k = 13 -> r = "receipt" => file[k][r] \notin Pending
         [] OTHER -> file[k][r] = "linked" => k \in Relinks

(* No script goes on without the receipt of the step before.               *)
Attested(k) ==
    k > 1 => \/ file[k - 1]["receipt"] = "whole"
             \/ file[k - 1]["receipt"] = "linked" /\ k \in RelinksPrevious

(* What reading leaves behind.                                             *)
Relinked(k) ==
    [j \in Steps |-> [r \in Records |->
        IF file[j][r] = "linked"
           /\ ((j = k /\ k \in Relinks) \/ (j = k - 1 /\ k \in RelinksPrevious))
          THEN "whole" ELSE file[j][r]]]

(* _write_once: a staging file that a crash left is replaced, published if *)
(* it holds the same bytes, or in the way.  A receipt of a submission that *)
(* is found done reads "already_submitted" and so differs.                 *)
Replaced(k) ==
    IF k \in {2, 4} THEN {"empty", "cut"} ELSE IF k = 3 THEN {"empty"} ELSE {}

Content(again) == IF again THEN "restaged" ELSE "staged"

Publishable(k, r, again) ==
    file[k][r] \in {"none", "linked", "whole", Content(again)} \cup Replaced(k)

-----------------------------------------------------------------------------
(* What each script does next, once it can read all its records.           *)

Saved(k) == stage >= k

Submission(k) ==
    IF Has(k, "receipt") THEN "rest"
    ELSE IF ~Has(k, "intent") THEN "intent"
    ELSE IF Ambiguous(k) THEN "rest" ELSE "launch"

(* Output without a saved state is let through: its worker refuses it.     *)
Observation(k) ==
    IF Has(k, "receipt") THEN "rest"
    ELSE IF ~Has(k, "intent") THEN "intent"
    ELSE IF Saved(k) THEN "receipt" ELSE "launch"

NextPrimary(k) ==
    IF Has(k, "receipt") THEN "rest"
    ELSE IF ~Has(k, "intent") THEN "intent"
    ELSE IF Saved(k) THEN "receipt"
    ELSE IF Ambiguous(k) THEN "rest" ELSE "launch"

(* Slip: the outputs are looked at before the state. *)
NextPrimaryObservationStrict(k) ==
    IF Has(k, "receipt") THEN "rest"
    ELSE IF k \in stored THEN "refuse"
    ELSE IF ~Has(k, "intent") THEN "intent" ELSE "launch"

NextPrimaryObservation(k) ==
    IF Saved(k) THEN (IF Has(k, "receipt") THEN "rest" ELSE "receipt")
    ELSE IF k \in stored THEN "refuse"
    ELSE IF ~Has(k, "intent") THEN "intent" ELSE "launch"

(* Replays have the worker derive everything once more.                    *)
PrimaryResults(k) ==
    IF Has(k, "receipt") THEN "rest"
    ELSE IF ~Has(k, "intent") THEN "intent" ELSE "launch"

(* (It runs the worker even if there is a receipt; that changes nothing.)  *)
FirstAdjudication(k) ==
    IF ~Has(k, "intent") THEN "intent"
    ELSE IF Has(k, "receipt") THEN "rest" ELSE "launch"

FirstAdjudicationObservation(k) ==
    IF Saved(k) THEN (IF Has(k, "receipt") THEN "rest" ELSE "receipt")
    ELSE IF k \in stored THEN "refuse"
    ELSE IF ~Has(k, "intent") THEN "intent" ELSE "launch"

NextAdjudication(k) ==
    IF Saved(k) THEN (IF Has(k, "receipt") THEN "rest" ELSE "launch")
    ELSE IF ~Has(k, "intent") THEN "intent" ELSE "launch"

ThirdAdjudication(k) == NextAdjudication(k)
FourthAdjudication(k) == NextAdjudication(k)

(* "A successful provider transition is not replayable": without a receipt *)
(* what was observed is left to the operator.                              *)
NextAdjudicationObservation(k) ==
    IF Saved(k) THEN (IF Has(k, "receipt") THEN "rest" ELSE "refuse")
    ELSE IF k \in stored THEN "refuse"
    ELSE IF ~Has(k, "intent") THEN "intent" ELSE "launch"

ThirdAdjudicationObservation(k) == NextAdjudicationObservation(k)
FourthAdjudicationObservation(k) == NextAdjudicationObservation(k)

AdjudicationResults(k) ==
    IF ~Has(k, "claim") THEN "claim"
    ELSE IF ~Has(k, "intent") THEN "intent"
    ELSE IF Has(k, "receipt") THEN "rest" ELSE "launch"

(* With its intent there and not both journals of the run, it only ever    *)
(* answers "reconciliation_required".                                      *)
FinalReview(k) ==
    IF Has(k, "claim") # Has(k, "intent") THEN "refuse"
    ELSE IF ~Has(k, "claim") THEN "claim"
    ELSE IF Has(k, "receipt") THEN "rest"
    ELSE IF Saved(k) THEN "receipt"
    ELSE IF Recorded(k) THEN "launch" ELSE "rest"

FinalReviewObservation(k) ==
    IF Has(k, "receipt") THEN "rest"
    ELSE IF ~Has(k, "intent") THEN "intent"
    ELSE IF k \in stored \/ Saved(k) THEN "refuse" ELSE "launch"

NextFinalReview(k) ==
    IF Saved(k) \/ Has(k, "receipt") THEN "rest"
    ELSE IF ~Has(k, "claim") THEN "claim"
    ELSE IF ~Has(k, "intent") THEN "intent" ELSE "rest"

Script(k) ==
    CASE k = 1 -> Submission(k)
      [] k = 2 -> Observation(k)
      [] k = 3 -> NextPrimary(k)
      [] k = 4 -> NextPrimaryObservation(k)
      [] k = 5 -> PrimaryResults(k)
      [] k = 6 -> FirstAdjudication(k)
      [] k = 7 -> FirstAdjudicationObservation(k)
      [] k = 8 -> NextAdjudication(k)
      [] k = 9 -> NextAdjudicationObservation(k)
      [] k = 10 -> ThirdAdjudication(k)
      [] k = 11 -> ThirdAdjudicationObservation(k)
      [] k = 12 -> FourthAdjudication(k)
      [] k = 13 -> FourthAdjudicationObservation(k)
      [] k = 14 -> AdjudicationResults(k)
      [] k = 15 -> FinalReview(k)
      [] k = 16 -> FinalReviewObservation(k)
      [] k = 17 -> NextFinalReview(k)

(* Scripts refuse a run that is not just before or just after their step,  *)
(* and a run directory with a file they do not know.                       *)
Due == Steps \cap {stage, stage + 1}

Decision(k) ==
    IF spoiled \/ (ended /\ k > stage) \/ ~Legible(k) \/ ~Attested(k)
      THEN "refuse" ELSE Script(k)

-----------------------------------------------------------------------------
(* The script that runs. *)

(* The worker finds the part paid for and says so, and so will the receipt. *)
Again(k) == k \in {3, 8, 10, 12} /\ (Saved(k) \/ (k = 3 /\ Recorded(k)))

(* A script reads everything, decides, and goes as far as its first write  *)
(* or its worker.  One that only finishes a record with two names ends.    *)
Start(k) ==
    /\ host.at = "idle"
    /\ LET d == Decision(k)
           at == IF d = "launch" THEN "launch" ELSE "write"
       IN  /\ Legible(k) /\ Attested(k)
           /\ file' = Relinked(k)
           /\ IF (d \in {"rest", "refuse"}) \/ (d \in Records /\ ~Publishable(k, d, Again(k)))
                THEN file' # file /\ UNCHANGED host
                ELSE host' = [at |-> at, step |-> k, record |-> IF d = "launch" THEN "intent" ELSE d,
                              again |-> Again(k), seen |-> Evidence(k)]
    /\ UNCHANGED <<journal, stage, ended, stored, spoiled, worker, died>>

HostTo(at) == host' = [host EXCEPT !.at = at]
FileTo(state) == file' = [file EXCEPT ![host.step][host.record] = state]

WriteRecord ==
    /\ host.at = "write"
    /\ IF host.step = 1
         THEN FileTo("whole") /\ HostTo("unlink")
         ELSE FileTo(Content(host.again /\ host.record = "receipt")) /\ HostTo("link")
    /\ UNCHANGED <<journal, stage, ended, stored, spoiled, worker, died>>

LinkRecord ==
    /\ host.at = "link"
    /\ FileTo("linked")
    /\ HostTo("unlink")
    /\ UNCHANGED <<journal, stage, ended, stored, spoiled, worker, died>>

(* The staging name goes, and the script goes on: from the claim to the    *)
(* intent, from the intent to the worker, from the receipt to its end.     *)
UnlinkRecord ==
    /\ host.at = "unlink"
    /\ FileTo("whole")
    /\ host' = CASE host.record = "claim" /\ Publishable(host.step, "intent", FALSE) ->
                       [host EXCEPT !.at = "write", !.record = "intent"]
                 [] host.record = "intent" -> [host EXCEPT !.at = "launch"]
                 [] OTHER -> NoHost
    /\ UNCHANGED <<journal, stage, ended, stored, spoiled, worker, died>>

(* What a new worker finds to do: a paid part only to save, an ambiguous   *)
(* one to leave to the operator; nothing while a batch runs.               *)
SubmissionTask(k) ==
    IF Recorded(k) THEN "save" ELSE IF Unattempted(k) THEN "intent" ELSE "failed"

BatchOf(k) == batches[k - 1][completed[k - 1]]

(* Slip: a batch that failed is waited for like one that runs. *)
ObservationTaskPatient(k) == IF BatchOf(k) # "done" THEN "waiting" ELSE "download"

ObservationTask(k) == IF BatchOf(k) = "running" THEN "waiting" ELSE "download"

(* _validate_expected_checkpoint, _inventory: an observer refuses output    *)
(* that is there before the state says so.                                 *)
CheckpointHolds(k) == k \notin stored

(* The workers.  One that finds its step saved says that it was done; the  *)
(* last two do not resume: one refuses to observe twice, the other leaves  *)
(* any record of its part to the operator.                                 *)
SubmitPrimary(k) == IF Saved(k) THEN "done" ELSE SubmissionTask(k)
ObservePrimary(k) ==
    IF Saved(k) THEN "done"
    ELSE IF CheckpointHolds(k) THEN ObservationTask(k) ELSE "failed"
SubmitNextPrimary(k) == SubmitPrimary(k)
ProcessPrimaryResults(k) == IF Saved(k) THEN "done" ELSE "save"
SubmitFirstAdjudication(k) == SubmitPrimary(k)
ObserveFirstAdjudication(k) == ObservePrimary(k)
SubmitNextAdjudication(k) == SubmitPrimary(k)
ObserveNextAdjudication(k) == ObservePrimary(k)
SubmitThirdAdjudication(k) == SubmitPrimary(k)
ObserveThirdAdjudication(k) == ObservePrimary(k)
SubmitFourthAdjudication(k) == SubmitPrimary(k)
ObserveFourthAdjudication(k) == ObservePrimary(k)
ProcessAdjudicationResults(k) == ProcessPrimaryResults(k)
SubmitFinalReview(k) == SubmitPrimary(k)
ObserveFinalReview(k) ==
    IF ~Saved(k) /\ CheckpointHolds(k) THEN ObservationTask(k) ELSE "failed"
SubmitNextFinalReview(k) ==
    IF Saved(k) THEN "done" ELSE IF Unattempted(k) THEN "intent" ELSE "failed"

Task(k) ==
    CASE k = 1 -> SubmitPrimary(k)
      [] k \in {2, 4} -> ObservePrimary(k)
      [] k = 3 -> SubmitNextPrimary(k)
      [] k = 5 -> ProcessPrimaryResults(k)
      [] k = 6 -> SubmitFirstAdjudication(k)
      [] k = 7 -> ObserveFirstAdjudication(k)
      [] k = 8 -> SubmitNextAdjudication(k)
      [] k = 9 -> ObserveNextAdjudication(k)
      [] k = 10 -> SubmitThirdAdjudication(k)
      [] k = 11 -> ObserveThirdAdjudication(k)
      [] k = 12 -> SubmitFourthAdjudication(k)
      [] k = 13 -> ObserveFourthAdjudication(k)
      [] k = 14 -> ProcessAdjudicationResults(k)
      [] k = 15 -> SubmitFinalReview(k)
      [] k = 16 -> ObserveFinalReview(k)
      [] k = 17 -> SubmitNextFinalReview(k)

(* A worker that is killed may leave half a completed record, or, in the   *)
(* middle of its save, a temporary file or half of a derived artifact.     *)
Killed ==
    \/ UNCHANGED <<journal, spoiled>>
    \/ worker.at = "record" /\ TearRecord(worker.step) /\ UNCHANGED spoiled
    \/ worker.at = "save" /\ spoiled' = TRUE /\ UNCHANGED journal

(* _run_worker: a container left by an earlier script is killed; the new   *)
(* one refuses a run that is not the one its script has seen.  (The first  *)
(* submission's is not told.)                                              *)
Launch ==
    /\ host.at = "launch"
    /\ Killed
    /\ worker' = [at |-> IF host.step = 1 \/ (host.seen = Evidence(host.step) /\ ~spoiled')
                           THEN Task(host.step) ELSE "failed",
                  step |-> host.step]
    /\ HostTo("wait")
    /\ UNCHANGED <<stage, ended, stored, file, died>>

(* Slip: a worker that vanished is taken for one that ended well. *)
CollectUnchecked ==
    /\ host.at = "wait"
    /\ worker.at \in {"none", "done", "waiting", "failed"}
    /\ worker' = NoWorker
    /\ host' = IF /\ worker.at \in {"none", "done"}
                  /\ Publishable(host.step, "receipt", host.again)
                THEN [host EXCEPT !.at = "write", !.record = "receipt"] ELSE NoHost
    /\ UNCHANGED <<journal, stage, ended, stored, spoiled, file, died>>

(* The worker's answer, checked against the run directory read again.      *)
Collect ==
    /\ host.at = "wait"
    /\ worker.at \in {"none", "done", "waiting", "failed"}
    /\ worker' = NoWorker
    /\ host' = IF /\ worker.at = "done" /\ ~spoiled
                  /\ Publishable(host.step, "receipt", host.again)
                THEN [host EXCEPT !.at = "write", !.record = "receipt"] ELSE NoHost
    /\ UNCHANGED <<journal, stage, ended, stored, spoiled, file, died>>

-----------------------------------------------------------------------------
(* Its worker.  No script need be there any more. *)

WorkerTo(at) == worker' = [worker EXCEPT !.at = at]

(* Slip: the call is made before the intent is written. *)
ClaimLate ==
    /\ worker.at = "intent"
    /\ WorkerTo("call")
    /\ UNCHANGED <<journal, stage, ended, stored, spoiled, file, host, died>>

Claim ==
    /\ worker.at = "intent"
    /\ ClaimPart(worker.step)
    /\ WorkerTo("call")
    /\ UNCHANGED <<stage, ended, stored, spoiled, file, host, died>>

CallProvider ==
    /\ worker.at = "call"
    /\ ProviderAccepts(worker.step)
    /\ WorkerTo("record")
    /\ UNCHANGED <<stage, ended, stored, spoiled, file, host, died>>

RecordBatch ==
    /\ worker.at = "record"
    /\ RecordPart(worker.step, Len(batches[worker.step]))
    /\ WorkerTo("save")
    /\ UNCHANGED <<stage, ended, stored, spoiled, file, host, died>>

Download ==
    /\ worker.at = "download"
    /\ stored' = stored \cup {worker.step}
    /\ WorkerTo("save")
    /\ UNCHANGED <<journal, stage, ended, spoiled, file, host, died>>

(* The run state moves on. *)
Save(steps, ends) ==
    /\ worker.at = "save" /\ worker.step \in steps
    /\ stage' = worker.step
    /\ ended' = ends
    /\ WorkerTo("done")
    /\ UNCHANGED <<journal, stored, spoiled, file, host, died>>

SavePrimarySubmission == Save({1, 3}, FALSE)
SaveAdjudicationSubmission == Save({6, 8, 10, 12}, FALSE)
SaveFinalReviewSubmission == Save({15, 17}, FALSE)

(* A batch that failed ends the run.                                       *)
SaveObservation(steps) ==
    worker.step \in steps /\ Save(steps, BatchOf(worker.step) = "failed")

SavePrimaryObservation == SaveObservation({2, 4})
SaveAdjudicationObservation == SaveObservation({7, 9, 11, 13})
SaveFinalReviewObservation == SaveObservation({16})

(* So do results that leave no residue, and decisions that leave nothing   *)
(* to a final review.                                                      *)
SavePrimaryResults == \E ends \in BOOLEAN : Save({5}, ends)
SaveAdjudicationResults == \E ends \in BOOLEAN : Save({14}, ends)

(* The answer of a worker nobody waits for is lost. *)
Fades ==
    /\ host.at # "wait"
    /\ worker.at \in {"done", "waiting", "failed"}
    /\ worker' = NoWorker
    /\ UNCHANGED <<journal, stage, ended, stored, spoiled, file, host, died>>

-----------------------------------------------------------------------------
(* Faults. *)

Fault(k, at) ==
    /\ Len(died) < MaxFaults
    /\ died # << >> => k <= died[1].step + FaultSpan
    /\ died' = Append(died, [step |-> k, at |-> at])

(* The call fails after the intent is there, whether or not it was heard.  *)
ProviderFails ==
    /\ worker.at = "call"
    /\ Fault(worker.step, "call")
    /\ (ProviderAccepts(worker.step) \/ UNCHANGED journal)
    /\ WorkerTo("failed")
    /\ UNCHANGED <<stage, ended, stored, spoiled, file, host>>

(* The worker dies, or its time runs out and it is killed. *)
WorkerDies ==
    /\ worker.at \in {"intent", "call", "record", "download", "save", "done"}
    /\ Fault(worker.step, worker.at)
    /\ worker' = NoWorker
    /\ Killed
    /\ UNCHANGED <<stage, ended, stored, file, host>>

(* The script dies: what it was writing is there, empty or cut short.      *)
HostDies ==
    /\ host.at # "idle"
    /\ Fault(host.step, host.at)
    /\ host' = NoHost
    /\ \/ UNCHANGED file
       \/ /\ host.at = "write"
          /\ file[host.step][host.record] \notin {"staged", "restaged"}
          /\ \E state \in {"empty", "cut"} : FileTo(state)
    /\ UNCHANGED <<journal, stage, ended, stored, spoiled, worker>>

EndBatch ==
    /\ BatchEnds
    /\ UNCHANGED <<stage, ended, stored, spoiled, file, host, worker, died>>

HostStep == (\E k \in Due : Start(k)) \/ WriteRecord \/ LinkRecord \/ UnlinkRecord \/ Launch \/ Collect
WorkerStep ==
    \/ Claim \/ CallProvider \/ RecordBatch \/ Download
    \/ SavePrimarySubmission \/ SavePrimaryObservation \/ SavePrimaryResults
    \/ SaveAdjudicationSubmission \/ SaveAdjudicationObservation \/ SaveAdjudicationResults
    \/ SaveFinalReviewSubmission \/ SaveFinalReviewObservation \/ Fades
Faults == ProviderFails \/ WorkerDies \/ HostDies

Next == HostStep \/ WorkerStep \/ EndBatch \/ Faults

-----------------------------------------------------------------------------
(* A script is of use if it changes the run directory, a record, or may    *)
(* find the batch ended later.                                             *)
Helps(k) ==
    LET d == Decision(k)
    IN  /\ Legible(k) /\ Attested(k)
        /\ \/ Relinked(k) # file
           \/ d \in Records /\ Publishable(k, d, Again(k))
           \/ /\ d = "launch" /\ Task(k) # "failed"
              /\ Task(k) = "done" => Publishable(k, "receipt", Again(k))

(* The operator tries the scripts until one helps, a script and a worker   *)
(* run on by themselves, and the provider ends its batches.                *)
Fairness ==
    /\ SF_vars(\E k \in Due : Helps(k) /\ Start(k))
    /\ WF_vars(WriteRecord \/ LinkRecord \/ UnlinkRecord \/ Launch \/ Collect)
    /\ WF_vars(WorkerStep)
    /\ WF_vars(EndBatch)

Spec == Init /\ [][Next]_vars /\ Fairness

-----------------------------------------------------------------------------
(* The chain of receipts: whatever crashed in between, a receipt says that *)
(* the run state has taken its step, that the part it is about is paid for *)
(* and on record, and that all earlier steps have their receipts.          *)
ReceiptTellsRun ==
    \A k \in Steps : Has(k, "receipt") =>
        /\ stage >= k
        /\ k \in Submits => Recorded(k)
        /\ \A j \in 1 .. k - 1 : Has(j, "receipt")

(* However scripts and workers die, and with workers left running by dead  *)
(* scripts, no part is bought twice, none before the answers to the        *)
(* earlier ones are in hand, none after the run has ended.                 *)
Before(q) == {p \in Parts : p < q}

Ledger == INSTANCE ReviewLedger WITH
    Parts    <- Parts,
    Earlier  <- Before,
    bought   <- [p \in Parts |-> Len(batches[p])],
    answered <- {p \in Parts : p + 1 \in stored},
    closed   <- ended

ImplementsLedger == Ledger!Spec

(* Every run gets its last receipt, or stands still for the operator.      *)
Finished == (ended \/ stage = 17) /\ Has(stage, "receipt")
Stuck ==
    /\ host.at = "idle" /\ worker.at = "none"
    /\ \A k \in Due : ~Helps(k)

EndsOrStops == <>(Finished \/ Stuck)

(* It stands still only if a fault hit one of these windows:               *)
(*  - a submission between its call to the provider and the completed      *)
(*    record;                                                              *)
(*  - any worker while it stores outputs and state, or a script whose      *)
(*    replacement may kill a worker there;                                 *)
(*  - where receipts are never rebuilt, a worker that has saved the state; *)
(*  - the launch, where an intent alone is taken for a call;               *)
(*  - a record on its way to its name, except in the two scripts that put  *)
(*    any such record right.                                               *)
(* Anywhere else the same scripts, run again, take the run to its end.     *)
PaidWindow(d) == d.step \in Submits /\ d.at \in {"call", "record"}
SaveWindow(d) == d.at \in {"save", "wait"}
ReceiptWindow(d) == d.step \in {9, 11, 13, 16, 17} /\ d.at = "done"
IntentWindow(d) == d.step \in {15, 17} /\ d.at \in {"launch", "intent"}
RecordWindow(d) == d.step \notin {2, 4} /\ d.at \in {"write", "link", "unlink"}

StopsOnlyInWindows ==
    Stuck /\ ~Finished => \E i \in 1 .. Len(died) :
        \/ PaidWindow(died[i]) \/ SaveWindow(died[i]) \/ ReceiptWindow(died[i])
        \/ IntentWindow(died[i]) \/ RecordWindow(died[i])
=============================================================================
