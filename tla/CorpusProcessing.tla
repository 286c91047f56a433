------------------------- MODULE CorpusProcessing -------------------------
(***************************************************************************)
(* How a reviewed corpus gets from the operator's machine into the search  *)
(* index.  An object is a bundle of all reviewed episodes of the season,   *)
(* named by its digest.  receive_private_corpus publishes it on the host,  *)
(* run_private_corpus_processing copies it into a workspace, runs a        *)
(* container on that and records a receipt, and the container ingests and  *)
(* indexes the episodes one after another, each with two calls of Qdrant:  *)
(* the new points are upserted, then those of other versions are deleted.  *)
(*                                                                         *)
(* The shell helpers hold file locks for as long as a request runs, so     *)
(* `host` is the one request that got them; another is refused and changes *)
(* nothing.  The container does not hold the locks: when the request is    *)
(* killed, its worker may go on, a "stray", while the next request runs.   *)
(*                                                                         *)
(* Bounds: faults (MaxFaults), one stray at a time.  Not modelled: another *)
(* catalogue or release (the deployment lock excludes it), `validate`,     *)
(* staging directories that a killed request leaves behind.                *)
(***************************************************************************)
EXTENDS Naturals

CONSTANTS Digests,      \* the objects
          Versions,     \* source versions: an episode's text, by its hash
          Episodes,     \* how many episodes the season has
          Content,      \* Content[d][e]: the version of episode e in object d
          MaxFaults,
          None

ASSUME ContentAssumption ==
    /\ Episodes \in Nat \ {0}
    /\ Content \in [Digests -> [1 .. Episodes -> Versions]]
    /\ None \notin Digests
    /\ MaxFaults \in Nat

VARIABLES object,       \* object[d]: is it published?
          workspace,    \* workspace[d]: is its copy for the container there?
          receipt,      \* receipt[d]: is it recorded as applied?
          index,        \* index[e]: the versions whose points are in Qdrant
          host,         \* the request that holds the locks
          worker,       \* the container of the request, and one without
          want,         \* the object the operator wants applied
          settled,      \* history: the last receipt, nothing else begun since
          overlapped,   \* history: two objects were ingested at once
          faults

files == <<object, workspace, receipt>>
history == <<settled, overlapped>>
vars == <<files, index, host, worker, want, history, faults>>

(* A name that was linked is there, and only after a sync it survives a    *)
(* loss of power; a directory whose entries were not synced may be torn.   *)
Linked == {"linked", "synced"}
Free == [op |-> "none", digest |-> None, at |-> "done"]
NoWorker == [digest |-> None, episode |-> 0, at |-> "done"]

TypeOK ==
    /\ object \in [Digests -> {"none"} \cup Linked]
    /\ workspace \in [Digests -> {"none", "torn"} \cup Linked]
    /\ receipt \in [Digests -> {"none"} \cup Linked]
    /\ index \in [1 .. Episodes -> SUBSET Versions]
    /\ host = Free \/ host \in
          [op : {"receive"}, digest : Digests, at : {"publish", "sync", "answer"}] \cup
          [op : {"ingest"}, digest : Digests,
           at : {"materialize", "check", "work", "record", "answer"}]
    /\ \A slot \in {"own", "stray"} : worker[slot] = NoWorker \/ worker[slot] \in
          [digest : Digests, episode : 1 .. Episodes, at : {"upsert", "delete"}]
    /\ want \in Digests \cup {None}
    /\ settled \in Digests \cup {None} /\ overlapped \in BOOLEAN
    /\ faults \in 0 .. MaxFaults

Init ==
    /\ object = [d \in Digests |-> "none"]
    /\ workspace = object /\ receipt = object
    /\ index = [e \in 1 .. Episodes |-> {}]
    /\ host = Free
    /\ worker = [slot \in {"own", "stray"} |-> NoWorker]
    /\ want = None /\ settled = None /\ overlapped = FALSE
    /\ faults = 0

Fault == faults < MaxFaults /\ faults' = faults + 1
At(op, step) == host.op = op /\ host.at = step
Step(step) == host' = [host EXCEPT !.at = step]

-----------------------------------------------------------------------------
(* The operator transfers an object that is not there, and asks for its    *)
(* ingestion until told that it is applied.                                *)
Decide(d) ==
    /\ want = None /\ want' = d
    /\ UNCHANGED <<files, index, host, worker, history, faults>>

(* Another digest is asked for while this one is unfinished.               *)
Abandon ==
    /\ want # None /\ host = Free /\ Fault
    /\ want' = None
    /\ UNCHANGED <<files, index, host, worker, history>>

(* receive_private_corpus: the archive is received, verified and extracted *)
(* in a transaction directory of its own.                                  *)
Receive ==
    /\ host = Free /\ want # None /\ object[want] = "none"
    /\ host' = [op |-> "receive", digest |-> want, at |-> "publish"]
    /\ UNCHANGED <<files, index, worker, want, history, faults>>

(* The whole tree is synced before it gets its name.                       *)
Publish ==
    /\ At("receive", "publish")
    /\ object' = [object EXCEPT ![host.digest] = "linked"]
    /\ Step("sync")
    /\ UNCHANGED <<workspace, receipt, index, worker, want, history, faults>>

SyncObject ==
    /\ At("receive", "sync")
    /\ object' = [object EXCEPT ![host.digest] = "synced"]
    /\ Step("answer")
    /\ UNCHANGED <<workspace, receipt, index, worker, want, history, faults>>

-----------------------------------------------------------------------------
(* process_request: the object is verified, ...                            *)
Ingest ==
    /\ host = Free /\ want # None /\ object[want] # "none"
    /\ host' = [op |-> "ingest", digest |-> want, at |-> "materialize"]
    /\ UNCHANGED <<files, index, worker, want, history, faults>>

(* Slip: a workspace that is there already is another request's.           *)
MaterializeAnew ==
    /\ At("ingest", "materialize")
    /\ IF workspace[host.digest] # "none"
         THEN host' = Free /\ UNCHANGED workspace
         ELSE Step("check") /\ workspace' = [workspace EXCEPT ![host.digest] = "linked"]
    /\ UNCHANGED <<object, receipt, index, worker, want, history, faults>>

(* ... copied, unless an earlier request did so: its copy is verified, and *)
(* nothing is ever done about one that is torn.                            *)
Materialize ==
    /\ At("ingest", "materialize")
    /\ CASE workspace[host.digest] = "none" ->
              Step("check") /\ workspace' = [workspace EXCEPT ![host.digest] = "linked"]
         [] workspace[host.digest] = "torn" -> host' = Free /\ UNCHANGED workspace
         [] OTHER -> Step("check") /\ UNCHANGED workspace
    /\ UNCHANGED <<object, receipt, index, worker, want, history, faults>>

(* ... and given to a container unless a receipt says that it is applied.  *)
Replay ==
    /\ At("ingest", "check") /\ receipt[host.digest] # "none"
    /\ Step("answer")
    /\ UNCHANGED <<files, index, worker, want, history, faults>>

RunWorker ==
    /\ At("ingest", "check") /\ receipt[host.digest] = "none"
    /\ worker' = [worker EXCEPT !["own"] =
                     [digest |-> host.digest, episode |-> 1, at |-> "upsert"]]
    /\ settled' = IF settled = host.digest THEN settled ELSE None
    /\ overlapped' = (overlapped \/ worker["stray"].digest \notin {None, host.digest})
    /\ Step("work")
    /\ UNCHANGED <<files, index, want, faults>>

Recorded ==
    /\ At("ingest", "record")
    /\ receipt' = [receipt EXCEPT ![host.digest] = "linked"]
    /\ settled' = host.digest
    /\ Step("answer")
    /\ UNCHANGED <<object, workspace, index, worker, want, overlapped, faults>>

(* The answer gets to the operator, or is lost.                            *)
Answer ==
    /\ host.at = "answer"
    /\ host' = Free
    /\ want' = IF host.op = "ingest" /\ want = host.digest THEN None ELSE want
    /\ UNCHANGED <<files, index, worker, history, faults>>

AnswerLost ==
    /\ host.at = "answer" /\ Fault
    /\ host' = Free
    /\ UNCHANGED <<files, index, worker, want, history>>

-----------------------------------------------------------------------------
(* The container: IngestReviewedCorpusService.execute.  Its repository of  *)
(* versions begins empty, so every episode is new to it and is indexed.    *)
Version(slot) == Content[worker[slot].digest][worker[slot].episode]

(* The end of the own worker is what the request waits for.                *)
WorkerEnds(slot, outcome) ==
    /\ worker' = [worker EXCEPT ![slot] = NoWorker]
    /\ CASE slot = "stray" -> UNCHANGED host
         [] slot = "own" /\ outcome = "done" -> Step("record")
         [] OTHER -> host' = Free

(* Slip: the points are not waited for, and are not there yet.             *)
UpsertNoWait(slot) ==
    /\ worker[slot].at = "upsert"
    /\ worker' = [worker EXCEPT ![slot].at = "delete"]
    /\ UNCHANGED <<files, index, host, want, history, faults>>

(* _upsert: the points of the new version, waited for.                     *)
Upsert(slot) ==
    /\ worker[slot].at = "upsert"
    /\ index' = [index EXCEPT ![worker[slot].episode] = @ \cup {Version(slot)}]
    /\ worker' = [worker EXCEPT ![slot].at = "delete"]
    /\ UNCHANGED <<files, host, want, history, faults>>

NextEpisode(slot) ==
    IF worker[slot].episode = Episodes
      THEN WorkerEnds(slot, "done")
      ELSE /\ worker' = [worker EXCEPT ![slot].at = "upsert", ![slot].episode = @ + 1]
           /\ UNCHANGED host

(* Slip: RETIRED_SOURCE_VERSION, and an empty repository knows of none.    *)
DeleteRetired(slot) ==
    /\ worker[slot].at = "delete"
    /\ NextEpisode(slot)
    /\ UNCHANGED <<files, index, want, history, faults>>

(* _delete_episode_language: every other version of the episode.           *)
Delete(slot) ==
    /\ worker[slot].at = "delete"
    /\ index' = [index EXCEPT ![worker[slot].episode] = @ \cap {Version(slot)}]
    /\ NextEpisode(slot)
    /\ UNCHANGED <<files, want, history, faults>>

(* A call fails, or only its answer is lost, or memory runs out: the       *)
(* worker exits with an error and the request is rejected.                 *)
WorkerFails(slot) ==
    /\ worker[slot] # NoWorker /\ Fault
    /\ \/ UNCHANGED index
       \/ worker[slot].at = "upsert" /\
          index' = [index EXCEPT ![worker[slot].episode] = @ \cup {Version(slot)}]
       \/ worker[slot].at = "delete" /\
          index' = [index EXCEPT ![worker[slot].episode] = @ \cap {Version(slot)}]
    /\ WorkerEnds(slot, "failed")
    /\ UNCHANGED <<files, want, history>>

-----------------------------------------------------------------------------
(* The request is rejected by a check, or killed at its time limit: the    *)
(* locks are free.  Its container is stopped, or goes on.                  *)
Killed ==
    /\ host # Free /\ Fault
    /\ host' = Free
    /\ \/ worker' = [worker EXCEPT !["own"] = NoWorker]
       \/ /\ worker["own"] # NoWorker /\ worker["stray"] = NoWorker
          /\ worker' = [worker EXCEPT !["own"] = NoWorker, !["stray"] = worker["own"]]
    /\ UNCHANGED <<files, index, want, history>>

(* What was linked may be gone, and the entries of a workspace may be.     *)
AfterLoss(name, torn) ==
    {after \in [Digests -> {"none", "synced"} \cup torn] :
        \A d \in Digests : name[d] # "linked" => after[d] = name[d]}

PowerLoss ==
    /\ Fault
    /\ object' \in AfterLoss(object, {})
    /\ workspace' \in AfterLoss(workspace, {"torn"})
    /\ receipt' \in AfterLoss(receipt, {})
    /\ host' = Free
    /\ worker' = [slot \in {"own", "stray"} |-> NoWorker]
    /\ UNCHANGED <<index, want, history>>

(* The kernel writes everything back.                                      *)
Synced(name) == [d \in Digests |-> IF name[d] = "linked" THEN "synced" ELSE name[d]]

Writeback ==
    /\ object' = Synced(object) /\ workspace' = Synced(workspace) /\ receipt' = Synced(receipt)
    /\ UNCHANGED <<index, host, worker, want, history, faults>>

Request ==
    \/ Receive \/ Publish \/ SyncObject
    \/ Ingest \/ Materialize \/ Replay \/ RunWorker \/ Recorded \/ Answer
Work(slot) == Upsert(slot) \/ Delete(slot)

Next ==
    \/ \E d \in Digests : Decide(d)
    \/ Request
    \/ \E slot \in {"own", "stray"} : Work(slot) \/ WorkerFails(slot)
    \/ Abandon \/ AnswerLost \/ Killed \/ PowerLoss \/ Writeback

(* An operator who was not told tries again, and a request and its worker  *)
(* keep running until a fault ends them.  A stray may hang.                *)
Fairness == WF_vars(Request) /\ WF_vars(Work("own"))

Spec == Init /\ [][Next]_vars /\ Fairness

-----------------------------------------------------------------------------
(* docs/operations/private-corpus-processing.md "removes older Qdrant      *)
(* source versions only after the new points are acknowledged": an episode *)
(* that can be found can always be found, through failed workers, retries  *)
(* and revised objects, unless two objects were ingested at once.          *)
AlwaysFound ==
    [][\A e \in 1 .. Episodes : index[e] # {} => index'[e] # {} \/ overlapped]_vars

(* A receipt tells what is in the index: since the last one was written,   *)
(* and until another object is begun, exactly the versions of its object   *)
(* are there, although workers that failed left others behind and strays   *)
(* of the same object still run.                                           *)
ReceiptTellsIndex ==
    settled # None /\ ~overlapped =>
        \A e \in 1 .. Episodes : index[e] = {Content[settled][e]}

(* "make retries safe": an operator who repeats a request is told in the   *)
(* end that it is applied, whatever was left by the requests that failed,  *)
(* except when a loss of power tore the workspace.                         *)
RetriesApply ==
    \A d \in Digests : (want = d) ~> (want # d \/ workspace[d] = "torn")
=============================================================================
