---------------------------- MODULE SpeakerReview ----------------------------
(***************************************************************************)
(* The batch review of a season's speakers: submit_primary and advance of  *)
(* the workflow, and the human resolution of what the models left open,    *)
(* run by operators' processes over one run directory.                     *)
(*                                                                         *)
(* The run moves through rounds: primary opinions, adjudication of the     *)
(* residue, a final review, and retries of final-review requests that got  *)
(* no verdict.  A round's parts are paid for one after the other.  The     *)
(* run's state is a single file that is replaced atomically and that no    *)
(* lock protects: a process acts on the copy it loaded, however old.       *)
(* Everything else in the directory is write-once: an identical rewrite is *)
(* accepted, another content (or a file cut short by a crash) refused.     *)
(*                                                                         *)
(* What the models will answer is fixed beforehand (verdicts): the code    *)
(* derives decisions from stored outputs only, so two processes that read  *)
(* the same outputs draw the same conclusion.                              *)
(***************************************************************************)
EXTENDS SubmissionJournal

CONSTANTS
    Workers,      \* operators' processes on the run directory
    PartCount,    \* round -> parts its requests are split into
    Resolutions,  \* what humans may decide about the candidates left over
    MaxCrashes,   \* bound: processes that die in the middle of a step
    MaxReprices   \* bound: reconcile-costs commands

ASSUME ResolutionsAssumption == Resolutions # {}
ASSUME BoundsAssumption == MaxCrashes \in Nat /\ MaxReprices \in Nat

VARIABLES
    verdicts,     \* what the answers of the models amount to
    run,          \* the run-state file
    files,        \* write-once artifacts that are complete
    cut,          \* write-once artifacts cut short by a crash
    worker,       \* worker -> its step, the state it loaded and the one it saves
    crashes,
    reprices

vars == <<journal, verdicts, run, files, cut, worker, crashes, reprices>>

Rounds == DOMAIN PartCount      \* 1 primary, 2 adjudication, 3 final review,
FinalReview == 3                \* 4 and up: retries of the final review
Submitted == "submitted"

ASSUME RoundsAssumption ==
    /\ PartCount \in Seq(Nat \ {0})
    /\ Parts = UNION {{r} \X (1 .. PartCount[r]) : r \in Rounds}

Precedes(p, q) == p[1] < q[1] \/ (p[1] = q[1] /\ p[2] < q[2])
Earlier(q) == {p \in Parts : Precedes(p, q)}

(* How far the review goes: the last round it needs, and how it ends then; *)
(* "refused": the next round would exceed the budget of the run.  Only     *)
(* after a final review may candidates remain for a human.                 *)
Verdicts ==
    {v \in [last : Rounds, ending : {"completed", "needs_human", "refused"}] :
        /\ v.ending = "needs_human" => v.last >= FinalReview
        /\ v.ending = "refused" => v.last + 1 \in Rounds}

Queues == {<<"queue", k>> : k \in {"initial", "remaining", "retry"}}
Endings == Queues \cup {<<"reviewed">>, <<"terminal">>}

(* What a human review writes: the resolution, the decisions and ledger    *)
(* that follow from it, and the subtitles; each one file, with its content. *)
HumanKinds == {"resolution", "decisions", "subtitles"}
HumanFiles(kind) == {<<kind, h>> : h \in Resolutions}
Artifacts ==
    {<<"output", p>> : p \in Parts} \cup {<<"results", r>> : r \in Rounds} \cup Endings
    \cup UNION {HumanFiles(kind) : kind \in HumanKinds}

(* The run state: its status, the round under way, the completed part      *)
(* count of that round, and the batch ids of all parts (0: none yet).      *)
RunStates ==
    [status : {"prepared", Submitted, "completed", "needs_human", "failed"},
     round : Rounds, done : Nat, ids : [Parts -> 0 .. MaxBatches]]

Steps == {"idle", "poll", "download", "results", "part", "claim", "call",
          "record", "save", "finish", "fail", "resolve", "decide", "promote"}

TypeOK ==
    /\ JournalTypeOK
    /\ verdicts \in Verdicts
    /\ run \in RunStates
    /\ run.status = Submitted =>
          /\ run.done < PartCount[run.round]
          /\ run.ids[<<run.round, run.done + 1>>] # 0
    /\ files \subseteq Artifacts /\ cut \subseteq Artifacts
    /\ worker \in [Workers -> [at : Steps, state : RunStates, next : RunStates,
                            human : Resolutions]]
    /\ crashes \in 0 .. MaxCrashes
    /\ reprices \in 0 .. MaxReprices

(* A worker that has just loaded the state. *)
Loaded(step, s) ==
    [at |-> step, state |-> s, next |-> s, human |-> CHOOSE h \in Resolutions : TRUE]

Prepared == [status |-> "prepared", round |-> 1, done |-> 0, ids |-> [p \in Parts |-> 0]]

Init ==
    /\ JournalInit
    /\ verdicts \in Verdicts
    /\ run = Prepared
    /\ files = {} /\ cut = {}
    /\ worker = [w \in Workers |-> Loaded("idle", Prepared)]
    /\ crashes = 0
    /\ reprices = 0

-----------------------------------------------------------------------------
(* The state a worker has loaded, and what follows from it. *)

At(w, step) == worker[w].at = step
Copy(w) == worker[w].state
GoTo(w, step) == worker' = [worker EXCEPT ![w].at = step]
Keeping(w, step, s) == worker' = [worker EXCEPT ![w].at = step, ![w].next = s]
GiveUp(w) == worker' = [worker EXCEPT ![w] = Loaded("idle", Prepared)]

(* The part whose batch is under way. *)
ActivePart(s) == <<s.round, s.done + 1>>

(* The part a copy of the state pays for next: the first of the run, the   *)
(* next of the round, or the first of the next round.                      *)
NextPart(s) ==
    IF s.status = "prepared" THEN <<1, 1>>
    ELSE IF s.done + 1 < PartCount[s.round] THEN <<s.round, s.done + 2>>
    ELSE <<s.round + 1, 1>>

(* A mutant: the part under way is counted as done. *)
WithBatchCounted(s, n) ==
    LET p == NextPart(s)
    IN  [status |-> Submitted, round |-> p[1], done |-> p[2],
         ids |-> [s.ids EXCEPT ![p] = n]]

(* The state saved once that part has batch n. *)
WithBatch(s, n) ==
    LET p == NextPart(s)
    IN  [status |-> Submitted, round |-> p[1], done |-> p[2] - 1,
         ids |-> [s.ids EXCEPT ![p] = n]]

-----------------------------------------------------------------------------
(* Loading the state: submit (and start) on a prepared run, advance on one *)
(* with a batch under way.  In any other status these commands end at once. *)
LoadState(w) ==
    /\ At(w, "idle")
    /\ \/ run.status = "prepared" /\ worker' = [worker EXCEPT ![w] = Loaded("part", run)]
       \/ run.status = Submitted /\ worker' = [worker EXCEPT ![w] = Loaded("poll", run)]
    /\ UNCHANGED <<journal, verdicts, run, files, cut, crashes, reprices>>

(* reconcile-costs replaces the costs, and with them the whole state, by   *)
(* what it loaded before.                                                  *)
Reprice(w) ==
    /\ At(w, "idle")
    /\ reprices < MaxReprices
    /\ reprices' = reprices + 1
    /\ worker' = [worker EXCEPT ![w] = Loaded("save", run)]
    /\ UNCHANGED <<journal, verdicts, run, files, cut, crashes>>

Poll(w) ==
    /\ At(w, "poll")
    /\ LET p == ActivePart(Copy(w))
           status == batches[p][Copy(w).ids[p]]
       IN  \/ status = "failed" /\ GoTo(w, "fail")
           \/ status = "running" /\ GiveUp(w)
           \/ status = "done" /\ GoTo(w, "download")
    /\ UNCHANGED <<journal, verdicts, run, files, cut, crashes, reprices>>

(* A write-once artifact: refused when a different content is in the way. *)
WriteOnce(w, artifact, next) ==
    \/ artifact \notin cut /\ files' = files \cup {artifact} /\ GoTo(w, next)
    \/ artifact \in cut /\ UNCHANGED files /\ GiveUp(w)

(* A mutant: an output that is in the way is taken for the answer. *)
DownloadUnchecked(w) ==
    /\ At(w, "download")
    /\ LET output == <<"output", ActivePart(Copy(w))>>
       IN  files' = IF output \in cut THEN files ELSE files \cup {output}
    /\ GoTo(w, IF Copy(w).done + 1 < PartCount[Copy(w).round] THEN "part" ELSE "results")
    /\ UNCHANGED <<journal, verdicts, run, cut, crashes, reprices>>

Download(w) ==
    /\ At(w, "download")
    /\ WriteOnce(w, <<"output", ActivePart(Copy(w))>>,
                 IF Copy(w).done + 1 < PartCount[Copy(w).round] THEN "part" ELSE "results")
    /\ UNCHANGED <<journal, verdicts, run, cut, crashes, reprices>>

(* All parts of the round are stored: verdicts, parse errors, decisions,   *)
(* and the requests of the next round unless they exceed the budget.       *)
Afterwards(r) ==
    CASE r < verdicts.last -> "part"
      [] r >= verdicts.last /\ verdicts.ending = "refused" -> "idle"
      [] OTHER -> "finish"

Results(w) ==
    /\ At(w, "results")
    /\ WriteOnce(w, <<"results", Copy(w).round>>, Afterwards(Copy(w).round))
    /\ UNCHANGED <<journal, verdicts, run, cut, crashes, reprices>>

(* Consensus of the primary opinions; without residue the review ends.     *)
PrimaryResults(w) == Copy(w).round = 1 /\ Results(w)

(* The adjudicated decisions; what stays open goes to the final review.    *)
AdjudicationResults(w) == Copy(w).round = 2 /\ Results(w)

(* The last opinions; requests that got no verdict go to a retry.          *)
FinalReviewResults(w) == Copy(w).round >= FinalReview /\ Results(w)

(* A mutant: a completed record is no reason to go on. *)
ReadJournalNoResume(w) ==
    /\ At(w, "part")
    /\ IF Unattempted(NextPart(Copy(w))) THEN GoTo(w, "claim") ELSE GiveUp(w)
    /\ UNCHANGED <<journal, verdicts, run, files, cut, crashes, reprices>>

(* _submit_part: the journal is read, the intent is created, the provider  *)
(* is called, the completed record is created.                             *)
ReadJournal(w) ==
    /\ At(w, "part")
    /\ LET p == NextPart(Copy(w))
       IN  \/ Recorded(p) /\ Keeping(w, "save", WithBatch(Copy(w), completed[p]))
           \/ Unattempted(p) /\ GoTo(w, "claim")
           \/ Ambiguous(p) /\ GiveUp(w)
    /\ UNCHANGED <<journal, verdicts, run, files, cut, crashes, reprices>>

(* A mutant: the intent is written without exclusive creation. *)
WriteIntentShared(w) ==
    /\ At(w, "claim")
    /\ intent' = intent \cup {NextPart(Copy(w))}
    /\ GoTo(w, "call")
    /\ UNCHANGED <<completed, torn, batches, verdicts, run, files, cut, crashes, reprices>>

WriteIntent(w) ==
    /\ At(w, "claim")
    /\ \/ ClaimPart(NextPart(Copy(w))) /\ GoTo(w, "call")
       \/ NextPart(Copy(w)) \in intent /\ GiveUp(w) /\ UNCHANGED journal
    /\ UNCHANGED <<verdicts, run, files, cut, crashes, reprices>>

(* A mutant: the answer goes into the state before the journal has it. *)
CallProviderUnrecorded(w) ==
    /\ At(w, "call")
    /\ LET p == NextPart(Copy(w))
       IN  /\ ProviderAccepts(p)
           /\ Keeping(w, "save", WithBatch(Copy(w), Len(batches[p]) + 1))
    /\ UNCHANGED <<verdicts, run, files, cut, crashes, reprices>>

CallProvider(w) ==
    /\ At(w, "call")
    /\ LET p == NextPart(Copy(w))
       IN  /\ ProviderAccepts(p)
           /\ \/ Keeping(w, "record", WithBatch(Copy(w), Len(batches[p]) + 1))
              \/ GiveUp(w)                  \* accepted, and the answer was lost
    /\ UNCHANGED <<verdicts, run, files, cut, crashes, reprices>>

ProviderRefuses(w) ==
    /\ At(w, "call")
    /\ GiveUp(w)
    /\ UNCHANGED <<journal, verdicts, run, files, cut, crashes, reprices>>

WriteCompleted(w) ==
    /\ At(w, "record")
    /\ LET p == NextPart(Copy(w)) IN RecordPart(p, worker[w].next.ids[p])
    /\ GoTo(w, "save")
    /\ UNCHANGED <<verdicts, run, files, cut, crashes, reprices>>

(* The state file is replaced, whatever it says by now. *)
SaveState(w) ==
    /\ At(w, "save")
    /\ run' = worker[w].next
    /\ GiveUp(w)
    /\ UNCHANGED <<journal, verdicts, files, cut, crashes, reprices>>

(* Where a review ends: the queue of one that never retried moves to a     *)
(* second name when the first is taken, by an earlier attempt to end, too. *)
EndingOf(s) ==
    IF verdicts.ending # "needs_human" THEN <<"reviewed">>
    ELSE IF s.round > FinalReview THEN <<"queue", "retry">>
    ELSE IF <<"queue", "initial">> \in files \cup cut THEN <<"queue", "remaining">>
    ELSE <<"queue", "initial">>

(* The end is published before the state says so: the subtitles and their  *)
(* ledger or the human queue, or the evidence of a batch that failed.      *)
Publish(w, ending, s) ==
    /\ \/ /\ ending \notin cut
          /\ files' = files \cup {ending}
          /\ Keeping(w, "save", s)
       \/ ending \in cut /\ UNCHANGED files /\ GiveUp(w)
    /\ UNCHANGED <<journal, verdicts, run, cut, crashes, reprices>>

Finalize(w) ==
    /\ At(w, "finish")
    /\ Publish(w, EndingOf(Copy(w)), [Copy(w) EXCEPT !.status = verdicts.ending, !.done = @ + 1])

FailBatch(w) ==
    /\ At(w, "fail")
    /\ Publish(w, <<"terminal">>, [Copy(w) EXCEPT !.status = "failed"])

-----------------------------------------------------------------------------
(* The human review of a run that needs one.  A resolution is bound to the *)
(* content of the queue, which both names of the queue share.              *)
CurrentQueue(s) ==
    IF s.round > FinalReview THEN <<"queue", "retry">>
    ELSE IF <<"queue", "remaining">> \in files \cup cut THEN <<"queue", "remaining">>
    ELSE <<"queue", "initial">>

LoadForResolution(w) ==
    /\ At(w, "idle")
    /\ run.status = "needs_human"
    /\ CurrentQueue(run) \in files
    /\ \E h \in Resolutions :
          worker' = [worker EXCEPT ![w] = [Loaded("resolve", run) EXCEPT !.human = h]]
    /\ UNCHANGED <<journal, verdicts, run, files, cut, crashes, reprices>>

(* A file of the human review is there with another content. *)
Taken(w, kind) ==
    (files \cup cut) \cap (HumanFiles(kind) \ {<<kind, worker[w].human>>}) # {}

WriteHumanFile(w, kind, next) ==
    /\ \/ ~Taken(w, kind) /\ WriteOnce(w, <<kind, worker[w].human>>, next)
       \/ Taken(w, kind) /\ UNCHANGED files /\ GiveUp(w)
    /\ UNCHANGED <<journal, verdicts, run, cut, crashes, reprices>>

(* A mutant: the resolution is written over an earlier one. *)
WriteResolutionOver(w) ==
    /\ At(w, "resolve")
    /\ files' = (files \ HumanFiles("resolution")) \cup {<<"resolution", worker[w].human>>}
    /\ GoTo(w, "decide")
    /\ UNCHANGED <<journal, verdicts, run, cut, crashes, reprices>>

WriteResolution(w) == At(w, "resolve") /\ WriteHumanFile(w, "resolution", "decide")
WriteHumanDecisions(w) == At(w, "decide") /\ WriteHumanFile(w, "decisions", "promote")

(* The state is completed from the one loaded, once the subtitles are out. *)
PromoteOutputs(w) ==
    /\ At(w, "promote")
    /\ \/ /\ ~Taken(w, "subtitles")
          /\ Publish(w, <<"subtitles", worker[w].human>>, [Copy(w) EXCEPT !.status = "completed"])
       \/ /\ Taken(w, "subtitles") /\ GiveUp(w)
          /\ UNCHANGED <<journal, verdicts, run, files, cut, crashes, reprices>>

-----------------------------------------------------------------------------
(* The process dies in the middle of a step.  A file it was writing may be *)
(* cut short; a provider call under way may have been accepted.            *)
Unfinished(w, kind) == IF Taken(w, kind) THEN {} ELSE {<<kind, worker[w].human>>}

WritingNow(w) ==
    CASE At(w, "download") -> {<<"output", ActivePart(Copy(w))>>}
      [] At(w, "results")  -> {<<"results", Copy(w).round>>}
      [] At(w, "finish")   -> {EndingOf(Copy(w))}
      [] At(w, "fail")     -> {<<"terminal">>}
      [] At(w, "resolve")  -> Unfinished(w, "resolution")
      [] At(w, "decide")   -> Unfinished(w, "decisions")
      [] At(w, "promote")  -> Unfinished(w, "subtitles")
      [] OTHER             -> {}

Crash(w) ==
    /\ ~At(w, "idle")
    /\ crashes < MaxCrashes
    /\ crashes' = crashes + 1
    /\ GiveUp(w)
    /\ LET p == NextPart(Copy(w))
       IN  \/ UNCHANGED <<journal, cut>>
           \/ \E a \in WritingNow(w) \ (files \cup cut) :
                 cut' = cut \cup {a} /\ UNCHANGED journal
           \/ At(w, "claim") /\ ClaimPart(p) /\ UNCHANGED cut
           \/ At(w, "call") /\ ProviderAccepts(p) /\ UNCHANGED cut
           \/ At(w, "record") /\ TearRecord(p) /\ UNCHANGED cut
    /\ UNCHANGED <<verdicts, run, files, reprices>>

EndBatch ==
    /\ BatchEnds
    /\ UNCHANGED <<verdicts, run, files, cut, worker, crashes, reprices>>

Step(w) ==
    \/ LoadState(w) \/ Poll(w) \/ Download(w)
    \/ PrimaryResults(w) \/ AdjudicationResults(w) \/ FinalReviewResults(w)
    \/ ReadJournal(w) \/ WriteIntent(w) \/ CallProvider(w) \/ ProviderRefuses(w)
    \/ WriteCompleted(w) \/ SaveState(w) \/ Finalize(w) \/ FailBatch(w)
    \/ WriteResolution(w) \/ WriteHumanDecisions(w) \/ PromoteOutputs(w)

Next ==
    \/ EndBatch
    \/ \E w \in Workers : Step(w) \/ Reprice(w) \/ LoadForResolution(w) \/ Crash(w)

(* The command is run again until the run has ended (--wait, or the        *)
(* operator), and the provider ends every batch within its window.  Humans *)
(* need not resolve anything.                                              *)
Fairness == WF_vars(EndBatch) /\ \A w \in Workers : WF_vars(Step(w))

Spec == Init /\ [][Next]_vars /\ Fairness

-----------------------------------------------------------------------------
(* _submit_part, docs/operations/speaker-review-submission-recovery.md:    *)
(* however processes race, die or work on an old state, the provider is    *)
(* asked for at most one batch per part.                                   *)
PaidOnce == \A p \in Parts : Len(batches[p]) <= 1

(* save_run_state comes last.  A batch id that the run state holds is the  *)
(* one the part's journal names, so losing the state loses nothing; a run  *)
(* that is completed has its subtitles, by the models or, whatever several *)
(* humans resolved at a time, by the one resolution that is on file.       *)
BatchesAsJournaled ==
    \A p \in Parts : run.ids[p] # 0 => Recorded(p) /\ run.ids[p] = completed[p]

Published ==
    \/ verdicts.ending = "completed" /\ <<"reviewed">> \in files
    \/ \E h \in Resolutions : \A kind \in HumanKinds : files \cap HumanFiles(kind) = {<<kind, h>>}

CompletedAsPublished == run.status = "completed" => Published

StateTellsRecords == BatchesAsJournaled /\ CompletedAsPublished

(* The order of advance: no part is bought before the answers to all       *)
(* earlier ones are stored, and none once the review has published its     *)
(* end, although an old state may be saved over the end.                   *)
Ledger == INSTANCE ReviewLedger WITH
    Parts    <- Parts,
    Earlier  <- Earlier,
    bought   <- [p \in Parts |-> Len(batches[p])],
    answered <- {p \in Parts : <<"output", p>> \in files},
    closed   <- files \cap Endings # {}

ImplementsLedger == Ledger!Spec

(* Every run ends for good, or stops where an operator must look: at a     *)
(* part whose journal is ambiguous, at a file cut short by a crash (the    *)
(* first human queue excepted, which has a second name), or at its budget. *)
Ended == run.status \in {"completed", "needs_human", "failed"}
Stopped ==
    \/ \E p \in Parts : Ambiguous(p)
    \/ cut \ {<<"queue", "initial">>} # {}
    \/ verdicts.ending = "refused" /\ <<"results", verdicts.last>> \in files

EndsOrStops == <>[](Ended \/ Stopped)
=============================================================================
