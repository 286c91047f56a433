-------------------------- MODULE SubmissionJournal --------------------------
(***************************************************************************)
(* The submission journal of a speaker-review run and the batch provider   *)
(* at its other end.  A part of the review (one request file) is paid for  *)
(* when the provider accepts a batch for it.  The journal brackets that    *)
(* call with two write-once files, intent and completed; the process may   *)
(* die, or the answer be lost, between any two of these steps.             *)
(***************************************************************************)
EXTENDS Naturals, Sequences

CONSTANTS
    Parts,        \* the parts of the review that may be submitted
    MaxBatches    \* bound: batches the provider accepts for one part

ASSUME MaxBatchesAssumption == MaxBatches \in Nat \ {0}

VARIABLES
    intent,       \* parts whose intent file exists (whole or cut short)
    completed,    \* part -> number of the batch its completed file names,
                  \* 0 when there is no such file
    torn,         \* parts whose completed file was cut short by a crash
    batches       \* part -> the provider's batches for it, oldest first

journal == <<intent, completed, torn, batches>>

BatchStatuses == {"running", "done", "failed"}

JournalTypeOK ==
    /\ intent \subseteq Parts
    /\ completed \in [Parts -> 0 .. MaxBatches]
    /\ torn \subseteq Parts
    /\ batches \in [Parts -> Seq(BatchStatuses)]
    /\ \A p \in Parts : Len(batches[p]) <= MaxBatches

JournalInit ==
    /\ intent = {}
    /\ completed = [p \in Parts |-> 0]
    /\ torn = {}
    /\ batches = [p \in Parts |-> << >>]

-----------------------------------------------------------------------------
(* What _submit_part reads before it acts. *)

(* A matching pair of records supplies the existing batch. *)
Recorded(p) == p \in intent /\ completed[p] # 0 /\ p \notin torn

(* Nothing was ever attempted for the part. *)
Unattempted(p) == p \notin intent /\ completed[p] = 0 /\ p \notin torn

(* Everything else stops the run until an operator reconciles it. *)
Ambiguous(p) == ~Recorded(p) /\ ~Unattempted(p)

(* The intent is created exclusively: whoever comes second is refused. *)
ClaimPart(p) ==
    /\ p \notin intent
    /\ intent' = intent \cup {p}
    /\ UNCHANGED <<completed, torn, batches>>

(* The provider takes the batch.  Whether the caller learns of it is       *)
(* another matter: the answer may be lost or its 60 seconds run out.       *)
ProviderAccepts(p) ==
    /\ Len(batches[p]) < MaxBatches
    /\ batches' = [batches EXCEPT ![p] = Append(@, "running")]
    /\ UNCHANGED <<intent, completed, torn>>

(* The completed record names the batch n that was accepted. *)
RecordPart(p, n) ==
    /\ completed' = [completed EXCEPT ![p] = n]
    /\ UNCHANGED <<intent, torn, batches>>

(* The process dies while it writes the completed record. *)
TearRecord(p) ==
    /\ torn' = torn \cup {p}
    /\ UNCHANGED <<intent, completed, batches>>

(* A batch ends, well or badly (failed, expired, cancelled), in its time.  *)
BatchEnds ==
    /\ \E p \in Parts, how \in {"done", "failed"} :
          \E n \in 1 .. Len(batches[p]) :
             /\ batches[p][n] = "running"
             /\ batches' = [batches EXCEPT ![p][n] = how]
    /\ UNCHANGED <<intent, completed, torn>>

=============================================================================
