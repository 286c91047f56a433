------------------------ MODULE CorpusProcessingProofs ------------------------
(***************************************************************************)
(* Proofs about the search index under the private corpus scripts, for any *)
(* objects, episodes and versions and any number of faults.                *)
(***************************************************************************)
EXTENDS CorpusProcessing, TLAPS

Slots == {"own", "stray"}
Jobs == [digest : Digests, episode : 1 .. Episodes, at : {"upsert", "delete"}]
Running(slot) == worker[slot] # NoWorker

WorkerTyped == worker \in [Slots -> Jobs \cup {NoWorker}]

(* Only a request that waits for it has a worker, on its own object.       *)
Hosted == Running("own") => At("ingest", "work") /\ worker["own"].digest = host.digest

(* Unless objects overlapped, the workers are on one object: that of the   *)
(* request, and that of the last receipt if there is one.                  *)
OneObject ==
    ~overlapped =>
       /\ \A slot \in Slots : Running(slot) /\ settled # None => worker[slot].digest = settled
       /\ (At("ingest", "work") \/ At("ingest", "record")) /\ Running("stray")
             => worker["stray"].digest = host.digest

(* What a worker has done so far is in the index, although another one of  *)
(* the same object may be ahead of it or behind.                           *)
Progress ==
    ~overlapped =>
       /\ \A slot \in Slots :
             worker[slot].at = "delete" => Version(slot) \in index[worker[slot].episode]
       /\ Running("own") =>
             \A e \in 1 .. Episodes :
                e < worker["own"].episode => index[e] = {Content[host.digest][e]}
       /\ At("ingest", "record") =>
             \A e \in 1 .. Episodes : index[e] = {Content[host.digest][e]}

IndInv ==
    /\ TypeOK
    /\ WorkerTyped
    /\ Hosted
    /\ OneObject
    /\ Progress
    /\ ReceiptTellsIndex

---------------------------------------------------------------------------
(* Types. *)

HostStates ==
    {Free} \cup
    [op : {"receive"}, digest : Digests, at : {"publish", "sync", "answer"}] \cup
    [op : {"ingest"}, digest : Digests, at : {"materialize", "check", "work", "record", "answer"}]

LEMMA HostTyped == TypeOK <=>
    /\ object \in [Digests -> {"none"} \cup Linked]
    /\ workspace \in [Digests -> {"none", "torn"} \cup Linked]
    /\ receipt \in [Digests -> {"none"} \cup Linked]
    /\ index \in [1 .. Episodes -> SUBSET Versions]
    /\ host \in HostStates
    /\ \A slot \in Slots : worker[slot] = NoWorker \/ worker[slot] \in Jobs
    /\ want \in Digests \cup {None}
    /\ settled \in Digests \cup {None} /\ overlapped \in BOOLEAN
    /\ faults \in 0 .. MaxFaults
BY DEF TypeOK, HostStates, Slots, Jobs

LEMMA FreeIsFree ==
    /\ Free.op = "none" /\ Free.at = "done" /\ Free.digest = None
    /\ NoWorker.at = "done" /\ NoWorker.digest = None
BY DEF Free, NoWorker

LEMMA StepTyped ==
    ASSUME TypeOK, NEW s, Step(s),
           \/ host.op = "receive" /\ s \in {"publish", "sync", "answer"}
           \/ host.op = "ingest" /\ s \in {"materialize", "check", "work", "record", "answer"}
    PROVE  /\ host' \in HostStates /\ host.digest \in Digests
           /\ host'.op = host.op /\ host'.at = s /\ host'.digest = host.digest
BY HostTyped, FreeIsFree DEF HostStates, Step

LEMMA FaultTyped ==
    ASSUME TypeOK PROVE /\ Fault => faults' \in 0 .. MaxFaults
                        /\ faults' = faults => faults' \in 0 .. MaxFaults
BY ContentAssumption DEF TypeOK, Fault

LEMMA LossTyped ==
    ASSUME NEW torn, NEW name \in [Digests -> {"none"} \cup torn \cup Linked],
           NEW after \in AfterLoss(name, torn)
    PROVE  after \in [Digests -> {"none"} \cup torn \cup Linked]
BY DEF AfterLoss, Linked

LEMMA SyncedTyped ==
    ASSUME NEW torn, NEW name \in [Digests -> {"none"} \cup torn \cup Linked]
    PROVE  Synced(name) \in [Digests -> {"none"} \cup torn \cup Linked]
BY DEF Synced, Linked

LEMMA WorkerKnown ==
    ASSUME IndInv, NEW slot \in Slots, worker[slot] # NoWorker \/ worker[slot].at # "done"
    PROVE  /\ worker[slot] \in Jobs /\ Running(slot)
           /\ worker[slot].episode \in 1 .. Episodes /\ worker[slot].digest \in Digests
           /\ worker[slot].at \in {"upsert", "delete"}
           /\ Version(slot) \in Versions
<1>1. worker[slot] \in Jobs
  BY FreeIsFree DEF IndInv, WorkerTyped
<1>2. /\ worker[slot].episode \in 1 .. Episodes /\ worker[slot].digest \in Digests
      /\ worker[slot].at \in {"upsert", "delete"}
  BY <1>1 DEF Jobs
<1>3. Version(slot) \in Versions
  BY <1>2, ContentAssumption DEF Version
<1> QED
  BY <1>1, <1>2, <1>3, FreeIsFree DEF Running

---------------------------------------------------------------------------
(* Steps that no worker and no receipt is concerned by. *)

LEMMA HostMoves ==
    ASSUME IndInv, TypeOK', index' = index, worker' = worker,
           settled' = settled, overlapped' = overlapped,
           \/ host' = host
           \/ /\ ~At("ingest", "work")
              /\ ~(host'.op = "ingest" /\ host'.at \in {"work", "record"})
    PROVE  IndInv'
<1>1. ~(host'.op = "ingest" /\ host'.at = "work") \/ host' = host
  OBVIOUS
<1>2. WorkerTyped'
  BY DEF IndInv, WorkerTyped
<1>3. Hosted'
  BY DEF IndInv, Hosted, Running, At
<1>4. OneObject'
  BY DEF IndInv, OneObject, Running, At
<1>5. Progress'
  BY DEF IndInv, Hosted, Progress, Running, Version, At
<1>6. ReceiptTellsIndex'
  BY DEF IndInv, ReceiptTellsIndex
<1> QED
  BY <1>2, <1>3, <1>4, <1>5, <1>6 DEF IndInv

LEMMA WishKeeps ==
    ASSUME IndInv, Abandon \/ \E d \in Digests : Decide(d) PROVE IndInv'
<1>1. faults' \in 0 .. MaxFaults
  BY FaultTyped DEF IndInv, Abandon, Decide
<1>2. TypeOK'
  BY <1>1 DEF IndInv, TypeOK, Abandon, Decide, files, history
<1>3. /\ index' = index /\ worker' = worker /\ host' = host
      /\ settled' = settled /\ overlapped' = overlapped
  BY DEF Abandon, Decide, history
<1> QED
  BY <1>2, <1>3, HostMoves

LEMMA BeginKeeps == ASSUME IndInv, Receive \/ Ingest PROVE IndInv'
<1>1. want \in Digests
  BY DEF IndInv, TypeOK, Receive, Ingest
<1>2. host' \in HostStates /\ host'.at \in {"publish", "materialize"}
  BY <1>1 DEF Receive, Ingest, HostStates
<1>3. faults' \in 0 .. MaxFaults
  BY FaultTyped DEF IndInv, Receive, Ingest
<1>4. TypeOK'
  BY <1>2, <1>3 DEF IndInv, TypeOK, HostStates, Receive, Ingest, files, history
<1>5. ~At("ingest", "work")
  BY FreeIsFree DEF At, Receive, Ingest
<1>6. /\ index' = index /\ worker' = worker
      /\ settled' = settled /\ overlapped' = overlapped
  BY DEF Receive, Ingest, history
<1> QED
  BY <1>2, <1>4, <1>5, <1>6, HostMoves


LEMMA ObjectKeeps ==
    ASSUME IndInv, Publish \/ SyncObject PROVE IndInv'
<1>1. PICK s \in {"sync", "answer"} : Step(s)
  BY DEF Publish, SyncObject
<1>2. /\ host' \in HostStates /\ host.op = "receive" /\ host'.op = "receive"
      /\ host.digest \in Digests
  BY <1>1, StepTyped DEF IndInv, Publish, SyncObject, At
<1>3. faults' \in 0 .. MaxFaults
  BY FaultTyped DEF IndInv, Publish, SyncObject
<1>4. object' \in [Digests -> {"none"} \cup Linked]
  BY <1>2 DEF IndInv, TypeOK, Publish, SyncObject, Linked
<1>5. TypeOK'
  BY <1>2, <1>3, <1>4 DEF IndInv, TypeOK, HostStates, Publish, SyncObject, history
<1>6. ~At("ingest", "work") /\ ~(host'.op = "ingest")
  BY <1>2 DEF At
<1>7. /\ index' = index /\ worker' = worker
      /\ settled' = settled /\ overlapped' = overlapped
  BY DEF Publish, SyncObject, history
<1> QED
  BY <1>5, <1>6, <1>7, HostMoves

LEMMA MaterializeKeeps == ASSUME IndInv, Materialize PROVE IndInv'
<1>1. At("ingest", "materialize") /\ host.digest \in Digests
  BY FreeIsFree DEF Materialize, IndInv, TypeOK, At
<1>2. host' \in HostStates /\ ~(host'.op = "ingest" /\ host'.at \in {"work", "record"})
  <2>1. CASE host' = Free
    BY <2>1, FreeIsFree DEF HostStates
  <2>2. CASE Step("check")
    BY <1>1, <2>2, StepTyped DEF IndInv, At
  <2> QED
    BY <2>1, <2>2 DEF Materialize
<1>3. faults' \in 0 .. MaxFaults
  BY FaultTyped DEF IndInv, Materialize
<1>4. workspace' \in [Digests -> {"none", "torn"} \cup Linked]
  BY <1>1 DEF IndInv, TypeOK, Materialize, Linked
<1>5. TypeOK'
  BY <1>2, <1>3, <1>4 DEF IndInv, TypeOK, HostStates, Materialize, history
<1>6. ~At("ingest", "work")
  BY <1>1 DEF At
<1>7. /\ index' = index /\ worker' = worker
      /\ settled' = settled /\ overlapped' = overlapped
  BY DEF Materialize, history
<1> QED
  BY <1>2, <1>5, <1>6, <1>7, HostMoves

LEMMA ReplayKeeps == ASSUME IndInv, Replay PROVE IndInv'
<1>1. /\ host' \in HostStates /\ host'.at = "answer" /\ host.at = "check"
  BY StepTyped DEF IndInv, Replay, At
<1>2. faults' \in 0 .. MaxFaults
  BY FaultTyped DEF IndInv, Replay
<1>3. TypeOK'
  BY <1>1, <1>2 DEF IndInv, TypeOK, HostStates, Replay, files, history
<1>4. /\ index' = index /\ worker' = worker
      /\ settled' = settled /\ overlapped' = overlapped
  BY DEF Replay, history
<1> QED
  BY <1>1, <1>3, <1>4, HostMoves DEF At

LEMMA AnswerKeeps == ASSUME IndInv, Answer \/ AnswerLost PROVE IndInv'
<1>1. host' = Free /\ host.at = "answer" /\ host' \in HostStates
  BY DEF Answer, AnswerLost, HostStates
<1>2. faults' \in 0 .. MaxFaults
  BY FaultTyped DEF IndInv, Answer, AnswerLost
<1>3. want' \in Digests \cup {None}
  BY DEF IndInv, TypeOK, Answer, AnswerLost
<1>4. TypeOK'
  BY <1>1, <1>2, <1>3 DEF IndInv, TypeOK, HostStates, Answer, AnswerLost, files, history
<1>5. /\ index' = index /\ worker' = worker
      /\ settled' = settled /\ overlapped' = overlapped
  BY DEF Answer, AnswerLost, history
<1> QED
  BY <1>1, <1>4, <1>5, FreeIsFree, HostMoves DEF At

LEMMA WritebackKeeps == ASSUME IndInv, Writeback PROVE IndInv'
<1>1. /\ object' \in [Digests -> {"none"} \cup Linked]
      /\ receipt' \in [Digests -> {"none"} \cup Linked]
  <2>1. {"none"} \cup {} \cup Linked = {"none"} \cup Linked
    OBVIOUS
  <2>2. object' = Synced(object) /\ receipt' = Synced(receipt)
    BY DEF Writeback
  <2> QED
    BY <2>1, <2>2, SyncedTyped DEF IndInv, TypeOK
<1>2. workspace' \in [Digests -> {"none", "torn"} \cup Linked]
  <2>1. {"none"} \cup {"torn"} \cup Linked = {"none", "torn"} \cup Linked
    OBVIOUS
  <2>2. workspace' = Synced(workspace)
    BY DEF Writeback
  <2> QED
    BY <2>1, <2>2, SyncedTyped DEF IndInv, TypeOK
<1>3. /\ index' = index /\ worker' = worker /\ host' = host /\ want' = want
      /\ settled' = settled /\ overlapped' = overlapped /\ faults' = faults
  BY DEF Writeback, history
<1>4. TypeOK'
  BY <1>1, <1>2, <1>3 DEF IndInv, TypeOK
<1> QED
  BY <1>3, <1>4, HostMoves

(* A receipt is written when the own worker has been through all episodes. *)
LEMMA RecordedKeeps == ASSUME IndInv, Recorded PROVE IndInv'
<1>1. /\ host' \in HostStates /\ host.digest \in Digests
      /\ host'.at = "answer" /\ host.at = "record" /\ At("ingest", "record")
  BY StepTyped DEF IndInv, Recorded, At
<1>2. /\ index' = index /\ worker' = worker /\ settled' = host.digest
      /\ overlapped' = overlapped /\ host.digest # None
  BY <1>1, ContentAssumption DEF Recorded
<1>3. faults' \in 0 .. MaxFaults
  BY FaultTyped DEF IndInv, Recorded
<1>4. receipt' \in [Digests -> {"none"} \cup Linked]
  BY <1>1 DEF IndInv, TypeOK, Recorded, Linked
<1>5. TypeOK'
  BY <1>1, <1>2, <1>3, <1>4 DEF IndInv, TypeOK, HostStates, Recorded
<1>6. WorkerTyped'
  BY <1>2 DEF IndInv, WorkerTyped
<1>7. ~Running("own")
  BY <1>1 DEF IndInv, Hosted, At
<1>8. Hosted'
  BY <1>2, <1>7 DEF Hosted, Running
<1>9. OneObject'
  <2>1. ~overlapped /\ Running("stray") => worker["stray"].digest = host.digest
    BY <1>1 DEF IndInv, OneObject
  <2> QED
    BY <1>1, <1>2, <1>7, <2>1 DEF OneObject, Running, Slots, At
<1>10. Progress'
  BY <1>1, <1>2, <1>7 DEF IndInv, Progress, Running, Version, At
<1>11. ReceiptTellsIndex'
  BY <1>1, <1>2 DEF IndInv, Progress, ReceiptTellsIndex
<1> QED
  BY <1>5, <1>6, <1>8, <1>9, <1>10, <1>11 DEF IndInv

(* A worker begins: if the stray is on another object, they overlap.       *)
LEMMA RunWorkerKeeps == ASSUME IndInv, RunWorker PROVE IndInv'
<1>1. /\ host' \in HostStates /\ host.digest \in Digests /\ host'.digest = host.digest
      /\ host'.at = "work" /\ host'.op = "ingest" /\ host.at = "check"
  BY StepTyped DEF IndInv, RunWorker, At
<1>2. PICK d, mine : d = host.digest /\ mine = [digest |-> d, episode |-> 1, at |-> "upsert"]
  OBVIOUS
<1>3. /\ mine \in Jobs /\ mine.digest = d /\ mine.episode = 1 /\ mine.at = "upsert"
      /\ d \in Digests /\ d # None
  BY <1>1, <1>2, ContentAssumption DEF Jobs
<1>4. worker' = [worker EXCEPT !["own"] = mine]
  BY <1>2 DEF RunWorker
<1>5. WorkerTyped' /\ worker'["own"] = mine /\ worker'["stray"] = worker["stray"]
  BY <1>3, <1>4 DEF IndInv, WorkerTyped, Slots
<1>6. /\ index' = index /\ settled' \in {settled, None} /\ settled' \in {d, None}
      /\ overlapped' = (overlapped \/ worker["stray"].digest \notin {None, d})
  BY <1>2 DEF RunWorker
<1>7. faults' \in 0 .. MaxFaults
  BY FaultTyped DEF IndInv, RunWorker
<1>8. TypeOK'
  <2>1. overlapped' \in BOOLEAN
    BY DEF RunWorker, IndInv, TypeOK
  <2>2. \A slot \in Slots : worker'[slot] = NoWorker \/ worker'[slot] \in Jobs
    BY <1>5 DEF WorkerTyped
  <2> QED
    BY <1>1, <1>6, <1>7, <2>1, <2>2 DEF IndInv, TypeOK, HostStates, Slots, Jobs, RunWorker, files
<1>9. Hosted'
  BY <1>1, <1>2, <1>3, <1>5 DEF Hosted, At
<1>10. ~overlapped' => ~overlapped /\ (Running("stray") => worker["stray"].digest = d)
  <2>1. Running("stray") => worker["stray"].digest # None
    BY WorkerKnown, ContentAssumption DEF Running, Slots
  <2> QED
    BY <1>6, <2>1
<1>11. OneObject'
  BY <1>1, <1>2, <1>3, <1>5, <1>6, <1>10 DEF OneObject, Running, Slots, At
<1>12. Progress'
  <2>1. ASSUME ~overlapped', NEW slot \in Slots, worker'[slot].at = "delete"
        PROVE  Version(slot)' \in index'[worker'[slot].episode]
    <3>1. slot = "stray"
      BY <1>3, <1>5, <2>1 DEF Slots
    <3> QED
      BY <1>5, <1>6, <1>10, <2>1, <3>1 DEF IndInv, Progress, Version
  <2>2. \A e \in 1 .. Episodes : ~(e < worker'["own"].episode)
    BY <1>3, <1>5
  <2> QED
    BY <1>1, <2>1, <2>2 DEF Progress, At
<1>13. ReceiptTellsIndex'
  BY <1>6, <1>10 DEF IndInv, ReceiptTellsIndex
<1> QED
  BY <1>5, <1>8, <1>9, <1>11, <1>12, <1>13 DEF IndInv


---------------------------------------------------------------------------
(* Steps of the workers. *)

(* What a worker may do to the index at its episode.                       *)
Adds(slot) ==
    index' = [index EXCEPT ![worker[slot].episode] = @ \cup {Version(slot)}]
Narrows(slot) ==
    /\ worker[slot].at = "delete"
    /\ index' = [index EXCEPT ![worker[slot].episode] = @ \cap {Version(slot)}]
Touches(slot) == index' = index \/ Adds(slot) \/ Narrows(slot)

LEMMA SameObject ==
    ASSUME IndInv, ~overlapped, NEW s \in Slots, NEW t \in Slots, Running(s), Running(t)
    PROVE  worker[s].digest = worker[t].digest
BY DEF IndInv, Hosted, OneObject, Slots

LEMMA ExactKept ==
    ASSUME IndInv, NEW slot \in Slots, Running(slot), Touches(slot),
           NEW e \in 1 .. Episodes,
           index[e] = {Content[worker[slot].digest][e]}
    PROVE  index'[e] = {Content[worker[slot].digest][e]}
<1>1. worker[slot].episode \in 1 .. Episodes
  BY WorkerKnown DEF Running
<1>2. index \in [1 .. Episodes -> SUBSET Versions]
  BY DEF IndInv, TypeOK
<1>3. CASE worker[slot].episode = e
  <2>1. Version(slot) = Content[worker[slot].digest][e]
    BY <1>3 DEF Version
  <2> QED
    BY <1>1, <1>2, <1>3, <2>1 DEF Touches, Adds, Narrows
<1>4. CASE worker[slot].episode # e
  BY <1>1, <1>2, <1>4 DEF Touches, Adds, Narrows
<1> QED
  BY <1>3, <1>4

LEMMA IndexTouched ==
    ASSUME IndInv, NEW slot \in Slots, Running(slot), Touches(slot)
    PROVE  /\ index' \in [1 .. Episodes -> SUBSET Versions]
           /\ ~overlapped =>
                 /\ settled # None =>
                       \A e \in 1 .. Episodes : index'[e] = {Content[settled][e]}
                 /\ Running("own") =>
                       \A e \in 1 .. Episodes :
                          e < worker["own"].episode => index'[e] = {Content[host.digest][e]}
                 /\ At("ingest", "record") =>
                       \A e \in 1 .. Episodes : index'[e] = {Content[host.digest][e]}
                 /\ \A s \in Slots :
                       worker[s].at = "delete" => Version(s) \in index'[worker[s].episode]
<1>1. /\ worker[slot].episode \in 1 .. Episodes /\ Version(slot) \in Versions
      /\ worker[slot].digest \in Digests
  BY WorkerKnown DEF Running
<1>2. index \in [1 .. Episodes -> SUBSET Versions]
  BY DEF IndInv, TypeOK
<1>3. index' \in [1 .. Episodes -> SUBSET Versions]
  BY <1>1, <1>2 DEF Touches, Adds, Narrows
<1>4. ASSUME ~overlapped, settled # None
      PROVE  \A e \in 1 .. Episodes : index'[e] = {Content[settled][e]}
  <2>1. worker[slot].digest = settled
    BY <1>4 DEF IndInv, OneObject
  <2> QED
    BY <1>4, <2>1, ExactKept DEF IndInv, ReceiptTellsIndex
<1>5. ASSUME ~overlapped, Running("own"), NEW e \in 1 .. Episodes, e < worker["own"].episode
      PROVE  index'[e] = {Content[host.digest][e]}
  <2>1. worker[slot].digest = host.digest
    BY <1>5, SameObject DEF IndInv, Hosted, Slots
  <2> QED
    BY <1>5, <2>1, ExactKept DEF IndInv, Progress
<1>6. ASSUME ~overlapped, At("ingest", "record"), NEW e \in 1 .. Episodes
      PROVE  index'[e] = {Content[host.digest][e]}
  <2>1. ~Running("own")
    BY <1>6 DEF IndInv, Hosted, At
  <2>2. worker[slot].digest = host.digest
    BY <1>6, <2>1 DEF IndInv, OneObject, Slots
  <2> QED
    BY <1>6, <2>2, ExactKept DEF IndInv, Progress
<1>7. ASSUME ~overlapped, NEW s \in Slots, worker[s].at = "delete"
      PROVE  Version(s) \in index'[worker[s].episode]
  <2>1. worker[s].episode \in 1 .. Episodes /\ Running(s)
    BY <1>7, WorkerKnown
  <2>2. Version(s) \in index[worker[s].episode]
    BY <1>7 DEF IndInv, Progress
  <2>3. worker[slot].digest = worker[s].digest
    BY <1>7, <2>1, SameObject
  <2>4. worker[slot].episode = worker[s].episode => Version(slot) = Version(s)
    BY <2>3 DEF Version
  <2> QED
    BY <1>1, <1>2, <2>1, <2>2, <2>4 DEF Touches, Adds, Narrows
<1> QED
  BY <1>3, <1>4, <1>5, <1>6, <1>7

LEMMA UpsertKeeps == ASSUME IndInv, NEW slot \in Slots, Upsert(slot) PROVE IndInv'
<1>1. /\ worker[slot] \in Jobs /\ Running(slot)
      /\ worker[slot].episode \in 1 .. Episodes
  BY WorkerKnown, FreeIsFree DEF Upsert
<1>2. Adds(slot) /\ Touches(slot)
  BY DEF Upsert, Touches, Adds
<1>3. PICK mine : mine = [worker[slot] EXCEPT !.at = "delete"]
  OBVIOUS
<1>4. /\ mine \in Jobs /\ mine # NoWorker /\ mine.digest = worker[slot].digest
      /\ mine.episode = worker[slot].episode /\ mine.at = "delete"
  BY <1>1, <1>3, FreeIsFree DEF Jobs
<1>5. /\ WorkerTyped' /\ worker'[slot] = mine
      /\ \A s \in Slots : s # slot => worker'[s] = worker[s]
  <2>1. worker' = [worker EXCEPT ![slot] = mine]
    BY <1>3 DEF Upsert
  <2> QED
    BY <1>4, <2>1 DEF IndInv, WorkerTyped
<1>6. /\ host' = host /\ want' = want /\ settled' = settled /\ overlapped' = overlapped
      /\ UNCHANGED files
  BY DEF Upsert, history
<1>7. faults' \in 0 .. MaxFaults
  BY FaultTyped DEF IndInv, Upsert
<1>8. TypeOK'
  <2>1. index' \in [1 .. Episodes -> SUBSET Versions]
    BY <1>1, <1>2, IndexTouched
  <2>2. \A s \in Slots : worker'[s] = NoWorker \/ worker'[s] \in Jobs
    BY <1>5 DEF WorkerTyped
  <2> QED
    BY <1>6, <1>7, <2>1, <2>2 DEF IndInv, TypeOK, Slots, Jobs, files
<1>9. Hosted'
  BY <1>1, <1>4, <1>5, <1>6 DEF IndInv, Hosted, Running, Slots, At
<1>10. OneObject'
  BY <1>1, <1>4, <1>5, <1>6 DEF IndInv, OneObject, Running, Slots, At
<1>11. Progress'
  <2>1. ASSUME ~overlapped, NEW s \in Slots, worker'[s].at = "delete"
        PROVE  Version(s)' \in index'[worker'[s].episode]
    <3>1. CASE s = slot
      <4>1. Version(s)' = Version(slot) /\ worker'[s].episode = worker[slot].episode
        BY <1>4, <1>5, <3>1 DEF Version
      <4> QED
        BY <1>1, <1>2, <4>1 DEF Adds, IndInv, TypeOK
    <3>2. CASE s # slot
      BY <1>1, <1>2, <1>5, <2>1, <3>2, IndexTouched DEF Version
    <3> QED
      BY <3>1, <3>2
  <2>2. ASSUME ~overlapped, Running("own")', NEW e \in 1 .. Episodes, e < worker'["own"].episode
        PROVE  index'[e] = {Content[host'.digest][e]}
    <3>1. Running("own") /\ worker'["own"].episode = worker["own"].episode
      BY <1>1, <1>4, <1>5, <2>2 DEF Running, Slots
    <3> QED
      BY <1>1, <1>2, <1>6, <2>2, <3>1, IndexTouched
  <2>3. ASSUME ~overlapped, At("ingest", "record")', NEW e \in 1 .. Episodes
        PROVE  index'[e] = {Content[host'.digest][e]}
    BY <1>1, <1>2, <1>6, <2>3, IndexTouched DEF At
  <2> QED
    BY <1>6, <2>1, <2>2, <2>3 DEF Progress
<1>12. ReceiptTellsIndex'
  BY <1>1, <1>2, <1>6, IndexTouched DEF ReceiptTellsIndex
<1> QED
  BY <1>5, <1>8, <1>9, <1>10, <1>11, <1>12 DEF IndInv


(* A worker ends: the request that waited for it goes on to its receipt    *)
(* only with the whole object in the index.                                *)
LEMMA EndKeeps ==
    ASSUME IndInv, NEW slot \in Slots, Running(slot), Touches(slot),
           worker' = [worker EXCEPT ![slot] = NoWorker],
           UNCHANGED files, want' = want, settled' = settled, overlapped' = overlapped,
           faults' \in 0 .. MaxFaults,
           \/ slot = "stray" /\ host' = host
           \/ slot = "own" /\ host' = Free
           \/ /\ slot = "own" /\ Step("record")
              /\ ~overlapped =>
                    \A e \in 1 .. Episodes : index'[e] = {Content[host.digest][e]}
    PROVE  IndInv'
<1>1. /\ WorkerTyped' /\ worker'[slot] = NoWorker
      /\ \A s \in Slots : s # slot => worker'[s] = worker[s]
  BY DEF IndInv, WorkerTyped
<1>2. slot = "own" => At("ingest", "work")
  BY DEF IndInv, Hosted
<1>3. /\ host' \in HostStates
      /\ \/ slot = "stray" /\ host' = host
         \/ slot = "own" /\ host' = Free /\ host'.op = "none"
         \/ /\ slot = "own" /\ host'.op = "ingest" /\ host'.at = "record"
            /\ host'.digest = host.digest
            /\ ~overlapped => \A e \in 1 .. Episodes : index'[e] = {Content[host.digest][e]}
  <2>1. CASE slot = "stray" /\ host' = host
    BY <2>1, HostTyped DEF IndInv
  <2>2. CASE slot = "own" /\ host' = Free
    BY <2>2, FreeIsFree DEF HostStates
  <2>3. CASE /\ slot = "own" /\ Step("record")
             /\ ~overlapped =>
                   \A e \in 1 .. Episodes : index'[e] = {Content[host.digest][e]}
    BY <1>2, <2>3, StepTyped DEF IndInv, At
  <2> QED
    BY <2>1, <2>2, <2>3
<1>4. TypeOK'
  <2>1. index' \in [1 .. Episodes -> SUBSET Versions]
    BY IndexTouched
  <2>2. \A s \in Slots : worker'[s] = NoWorker \/ worker'[s] \in Jobs
    BY <1>1 DEF WorkerTyped
  <2> QED
    BY <1>3, <2>1, <2>2 DEF IndInv, TypeOK, HostStates, Slots, Jobs, files
<1>5. \A s \in Slots : Running(s)' => s # slot /\ Running(s)
  BY <1>1 DEF Running
<1>6. Hosted'
  BY <1>1, <1>2, <1>3, <1>5 DEF IndInv, Hosted, Slots, At, Running
<1>7. OneObject'
  <2>1. ASSUME ~overlapped, NEW s \in Slots, Running(s)', settled # None
        PROVE  worker'[s].digest = settled
    BY <1>1, <1>5, <2>1 DEF IndInv, OneObject
  <2>2. ASSUME ~overlapped, At("ingest", "work")' \/ At("ingest", "record")', Running("stray")'
        PROVE  worker'["stray"].digest = host'.digest
    <3>1. slot = "own" /\ Running("stray") /\ worker'["stray"] = worker["stray"]
      BY <1>1, <1>5, <2>2 DEF Slots
    <3>2. host'.digest = host.digest /\ At("ingest", "work")
      BY <1>2, <1>3, <2>2, <3>1, FreeIsFree DEF At
    <3> QED
      BY <2>2, <3>1, <3>2 DEF IndInv, OneObject
  <2> QED
    BY <2>1, <2>2 DEF OneObject
<1>8. Progress'
  <2>1. ASSUME ~overlapped, NEW s \in Slots, worker'[s].at = "delete"
        PROVE  Version(s)' \in index'[worker'[s].episode]
    <3>1. s # slot
      BY <1>1, <2>1, FreeIsFree
    <3> QED
      BY <1>1, <2>1, <3>1, IndexTouched DEF Version
  <2>2. ASSUME ~overlapped, Running("own")', NEW e \in 1 .. Episodes, e < worker'["own"].episode
        PROVE  index'[e] = {Content[host'.digest][e]}
    <3>1. slot = "stray" /\ Running("own") /\ worker'["own"] = worker["own"]
      BY <1>1, <1>5, <2>2 DEF Slots
    <3>2. host' = host
      BY <1>1, <1>3, <1>6, <2>2, <3>1, FreeIsFree DEF Hosted, At
    <3> QED
      BY <2>2, <3>1, <3>2, IndexTouched
  <2>3. ASSUME ~overlapped, At("ingest", "record")', NEW e \in 1 .. Episodes
        PROVE  index'[e] = {Content[host'.digest][e]}
    <3>1. CASE slot = "stray" /\ host' = host
      BY <2>3, <3>1, IndexTouched DEF At
    <3>2. CASE ~(slot = "stray" /\ host' = host)
      BY <1>3, <2>3, <3>2 DEF At
    <3> QED
      BY <3>1, <3>2
  <2> QED
    BY <2>1, <2>2, <2>3 DEF Progress
<1>9. ReceiptTellsIndex'
  BY IndexTouched DEF ReceiptTellsIndex
<1> QED
  BY <1>1, <1>4, <1>6, <1>7, <1>8, <1>9 DEF IndInv

LEMMA DeleteKeeps == ASSUME IndInv, NEW slot \in Slots, Delete(slot) PROVE IndInv'
<1>1. /\ worker[slot] \in Jobs /\ Running(slot) /\ worker[slot].at = "delete"
      /\ worker[slot].episode \in 1 .. Episodes /\ Version(slot) \in Versions
  BY WorkerKnown, FreeIsFree DEF Delete
<1>2. Narrows(slot) /\ Touches(slot)
  BY DEF Delete, Touches, Narrows
<1>3. /\ want' = want /\ settled' = settled /\ overlapped' = overlapped
      /\ UNCHANGED files /\ faults' = faults
  BY DEF Delete, history
<1>4. faults' \in 0 .. MaxFaults
  BY <1>3, FaultTyped DEF IndInv
<1>5. ~overlapped => index'[worker[slot].episode] = {Version(slot)}
  <2>1. ~overlapped => Version(slot) \in index[worker[slot].episode]
    BY <1>1 DEF IndInv, Progress
  <2> QED
    BY <1>1, <1>2, <2>1 DEF Narrows, IndInv, TypeOK
<1>6. CASE worker[slot].episode = Episodes
  <2>1. WorkerEnds(slot, "done")
    BY <1>6 DEF Delete, NextEpisode
  <2>2. CASE slot = "stray"
    BY <1>1, <1>2, <1>3, <1>4, <2>1, <2>2, EndKeeps DEF WorkerEnds
  <2>3. CASE slot = "own"
    <3>1. ASSUME ~overlapped, NEW e \in 1 .. Episodes
          PROVE  index'[e] = {Content[host.digest][e]}
      <4>1. CASE e = Episodes
        BY <1>1, <1>5, <1>6, <2>3, <3>1, <4>1 DEF IndInv, Hosted, Version
      <4>2. CASE e # Episodes
        <5>1. e < worker["own"].episode
          BY <1>6, <2>3, <4>2, ContentAssumption
        <5> QED
          BY <1>1, <1>2, <2>3, <3>1, <5>1, IndexTouched
      <4> QED
        BY <4>1, <4>2
    <3>2. Step("record") /\ worker' = [worker EXCEPT ![slot] = NoWorker]
      BY <2>1, <2>3 DEF WorkerEnds
    <3> QED
      BY <1>1, <1>2, <1>3, <1>4, <2>3, <3>1, <3>2, EndKeeps
  <2> QED
    BY <2>2, <2>3 DEF Slots
<1>7. CASE worker[slot].episode # Episodes
  <2>1. PICK k \in 1 .. Episodes : k = worker[slot].episode + 1
    BY <1>1, <1>7, ContentAssumption
  <2>2. PICK mine : mine = [worker[slot] EXCEPT !.at = "upsert", !.episode = k]
    OBVIOUS
  <2>3. worker' = [worker EXCEPT ![slot] = mine] /\ host' = host
    BY <1>7, <2>1, <2>2 DEF Delete, NextEpisode, IndInv, WorkerTyped
  <2>4. /\ mine \in Jobs /\ mine.at = "upsert" /\ mine.digest = worker[slot].digest
        /\ mine.episode = k /\ mine # NoWorker
    BY <1>1, <2>2, FreeIsFree DEF Jobs
  <2>5. /\ WorkerTyped' /\ worker'[slot] = mine
        /\ \A s \in Slots : s # slot => worker'[s] = worker[s]
    BY <2>3, <2>4 DEF IndInv, WorkerTyped
  <2>6. TypeOK'
    <3>1. index' \in [1 .. Episodes -> SUBSET Versions]
      BY <1>1, <1>2, IndexTouched
    <3>2. \A s \in Slots : worker'[s] = NoWorker \/ worker'[s] \in Jobs
      BY <2>5 DEF WorkerTyped
    <3> QED
      BY <1>3, <1>4, <2>3, <3>1, <3>2 DEF IndInv, TypeOK, Slots, Jobs, files
  <2>7. Hosted'
    BY <1>1, <2>3, <2>4, <2>5 DEF IndInv, Hosted, Running, Slots, At
  <2>8. OneObject'
    BY <1>1, <1>3, <2>3, <2>4, <2>5 DEF IndInv, OneObject, Running, Slots, At
  <2>9. Progress'
    <3>1. ASSUME ~overlapped, NEW s \in Slots, worker'[s].at = "delete"
          PROVE  Version(s)' \in index'[worker'[s].episode]
      <4>1. s # slot
        BY <2>4, <2>5, <3>1
      <4> QED
        BY <1>1, <1>2, <2>5, <3>1, <4>1, IndexTouched DEF Version
    <3>2. ASSUME ~overlapped, Running("own")', NEW e \in 1 .. Episodes,
                 e < worker'["own"].episode
          PROVE  index'[e] = {Content[host'.digest][e]}
      <4>1. CASE slot = "own"
        <5>1. CASE e = worker[slot].episode
          BY <1>1, <1>5, <2>3, <3>2, <4>1, <5>1 DEF IndInv, Hosted, Version
        <5>2. CASE e # worker[slot].episode
          <6>1. e < worker["own"].episode
            BY <1>1, <2>1, <2>4, <2>5, <3>2, <4>1, <5>2
          <6> QED
            BY <1>1, <1>2, <2>3, <3>2, <4>1, <6>1, IndexTouched
        <5> QED
          BY <5>1, <5>2
      <4>2. CASE slot # "own"
        <5>1. Running("own") /\ worker'["own"] = worker["own"]
          BY <2>5, <3>2, <4>2 DEF Running, Slots
        <5> QED
          BY <1>1, <1>2, <2>3, <3>2, <5>1, IndexTouched
      <4> QED
        BY <4>1, <4>2
    <3>3. ASSUME ~overlapped, At("ingest", "record")', NEW e \in 1 .. Episodes
          PROVE  index'[e] = {Content[host'.digest][e]}
      BY <1>1, <1>2, <2>3, <3>3, IndexTouched DEF At
    <3> QED
      BY <1>3, <3>1, <3>2, <3>3 DEF Progress
  <2>10. ReceiptTellsIndex'
    BY <1>1, <1>2, <1>3, IndexTouched DEF ReceiptTellsIndex
  <2> QED
    BY <2>5, <2>6, <2>7, <2>8, <2>9, <2>10 DEF IndInv
<1> QED
  BY <1>6, <1>7

LEMMA WorkerFailsKeeps ==
    ASSUME IndInv, NEW slot \in Slots, WorkerFails(slot) PROVE IndInv'
<1>1. Running(slot) /\ Touches(slot)
  BY DEF WorkerFails, Running, Touches, Adds, Narrows
<1>2. /\ want' = want /\ settled' = settled /\ overlapped' = overlapped
      /\ UNCHANGED files
  BY DEF WorkerFails, history
<1>3. faults' \in 0 .. MaxFaults
  BY FaultTyped DEF IndInv, WorkerFails
<1>4. /\ worker' = [worker EXCEPT ![slot] = NoWorker]
      /\ \/ slot = "stray" /\ host' = host
         \/ slot = "own" /\ host' = Free
  BY DEF WorkerFails, WorkerEnds, Slots
<1> QED
  BY <1>1, <1>2, <1>3, <1>4, EndKeeps


---------------------------------------------------------------------------
(* Requests that end early. *)

LEMMA KilledKeeps == ASSUME IndInv, Killed PROVE IndInv'
<1>1. /\ host' = Free /\ host'.op = "none" /\ host' \in HostStates
      /\ index' = index /\ want' = want /\ settled' = settled /\ overlapped' = overlapped
      /\ UNCHANGED files
  BY FreeIsFree DEF Killed, history, HostStates
<1>2. faults' \in 0 .. MaxFaults
  BY FaultTyped DEF IndInv, Killed
<1>3. /\ WorkerTyped' /\ worker'["own"] = NoWorker
      /\ \/ worker'["stray"] = worker["stray"]
         \/ worker'["stray"] = worker["own"]
  <2>1. worker \in [Slots -> Jobs \cup {NoWorker}]
    BY DEF IndInv, WorkerTyped
  <2>2. CASE worker' = [worker EXCEPT !["own"] = NoWorker]
    BY <2>1, <2>2 DEF WorkerTyped, Slots
  <2>3. CASE worker' = [worker EXCEPT !["own"] = NoWorker, !["stray"] = worker["own"]]
    BY <2>1, <2>3 DEF WorkerTyped, Slots
  <2> QED
    BY <2>2, <2>3 DEF Killed
<1>4. TypeOK'
  <2>1. \A s \in Slots : worker'[s] = NoWorker \/ worker'[s] \in Jobs
    BY <1>3 DEF WorkerTyped
  <2> QED
    BY <1>1, <1>2, <2>1 DEF IndInv, TypeOK, HostStates, Slots, Jobs, files
<1>5. ~At("ingest", "work")' /\ ~At("ingest", "record")' /\ ~Running("own")'
  BY <1>1, <1>3 DEF At, Running
<1>6. Hosted'
  BY <1>5 DEF Hosted
<1>7. OneObject'
  BY <1>1, <1>3, <1>5 DEF IndInv, OneObject, Running, Slots
<1>8. Progress'
  <2>1. ASSUME ~overlapped, NEW s \in Slots, worker'[s].at = "delete"
        PROVE  Version(s)' \in index'[worker'[s].episode]
    <3>1. s = "stray"
      BY <1>3, <2>1, FreeIsFree DEF Slots
    <3>2. PICK t \in Slots : worker'[s] = worker[t]
      BY <1>3, <3>1 DEF Slots
    <3> QED
      BY <1>1, <2>1, <3>2 DEF IndInv, Progress, Version
  <2> QED
    BY <1>1, <1>5, <2>1 DEF Progress
<1>9. ReceiptTellsIndex'
  BY <1>1 DEF IndInv, ReceiptTellsIndex
<1> QED
  BY <1>3, <1>4, <1>6, <1>7, <1>8, <1>9 DEF IndInv

LEMMA PowerLossKeeps == ASSUME IndInv, PowerLoss PROVE IndInv'
<1>1. /\ host' = Free /\ host'.op = "none" /\ host' \in HostStates
      /\ index' = index /\ want' = want /\ settled' = settled /\ overlapped' = overlapped
  BY FreeIsFree DEF PowerLoss, history, HostStates
<1>2. faults' \in 0 .. MaxFaults
  BY FaultTyped DEF IndInv, PowerLoss
<1>3. WorkerTyped' /\ \A s \in Slots : worker'[s] = NoWorker
  BY DEF PowerLoss, WorkerTyped, Slots
<1>4. /\ object' \in [Digests -> {"none"} \cup Linked]
      /\ receipt' \in [Digests -> {"none"} \cup Linked]
  <2>1. {"none"} \cup {} \cup Linked = {"none"} \cup Linked
    OBVIOUS
  <2>2. object' \in AfterLoss(object, {}) /\ receipt' \in AfterLoss(receipt, {})
    BY DEF PowerLoss
  <2> QED
    BY <2>1, <2>2, LossTyped DEF IndInv, TypeOK
<1>5. workspace' \in [Digests -> {"none", "torn"} \cup Linked]
  <2>1. {"none"} \cup {"torn"} \cup Linked = {"none", "torn"} \cup Linked
    OBVIOUS
  <2>2. workspace' \in AfterLoss(workspace, {"torn"})
    BY DEF PowerLoss
  <2> QED
    BY <2>1, <2>2, LossTyped DEF IndInv, TypeOK
<1>6. TypeOK'
  BY <1>1, <1>2, <1>3, <1>4, <1>5 DEF IndInv, TypeOK, HostStates, Slots
<1>7. Hosted' /\ OneObject'
  BY <1>3 DEF Hosted, OneObject, Running, Slots
<1>8. Progress'
  BY <1>1, <1>3, FreeIsFree DEF Progress, Running, Slots, At
<1>9. ReceiptTellsIndex'
  BY <1>1 DEF IndInv, ReceiptTellsIndex
<1> QED
  BY <1>3, <1>6, <1>7, <1>8, <1>9 DEF IndInv

---------------------------------------------------------------------------
(* The theorems. *)

LEMMA InitOK == Init => IndInv
<1> SUFFICES ASSUME Init PROVE IndInv
  OBVIOUS
<1>1. \A s \in Slots : worker[s] = NoWorker
  BY DEF Init, Slots
<1>2. TypeOK
  <2>1. /\ object \in [Digests -> {"none"} \cup Linked]
        /\ workspace \in [Digests -> {"none", "torn"} \cup Linked]
        /\ receipt \in [Digests -> {"none"} \cup Linked]
    BY DEF Init
  <2>2. index \in [1 .. Episodes -> SUBSET Versions]
    BY DEF Init
  <2>3. /\ want \in Digests \cup {None} /\ settled \in Digests \cup {None}
        /\ overlapped \in BOOLEAN
    BY DEF Init
  <2>5. faults \in 0 .. MaxFaults
    BY ContentAssumption DEF Init
  <2>4. host \in HostStates
    BY DEF Init, HostStates
  <2> QED
    BY <1>1, <2>1, <2>2, <2>3, <2>4, <2>5, HostTyped
<1>3. WorkerTyped
  BY DEF Init, WorkerTyped, Slots
<1>4. Hosted /\ OneObject
  BY <1>1 DEF Hosted, OneObject, Running, Slots
<1>5. Progress
  BY <1>1, FreeIsFree DEF Init, Progress, Running, Slots, At
<1>6. ReceiptTellsIndex
  BY DEF Init, ReceiptTellsIndex
<1> QED
  BY <1>2, <1>3, <1>4, <1>5, <1>6 DEF IndInv

LEMMA NextKeeps == IndInv /\ [Next]_vars => IndInv'
<1> SUFFICES ASSUME IndInv, [Next]_vars PROVE IndInv'
  OBVIOUS
<1>1. CASE Request
  BY <1>1, BeginKeeps, ObjectKeeps, MaterializeKeeps, ReplayKeeps, RunWorkerKeeps,
     RecordedKeeps, AnswerKeeps DEF Request
<1>2. ASSUME NEW slot \in Slots, Work(slot) \/ WorkerFails(slot) PROVE IndInv'
  BY <1>2, UpsertKeeps, DeleteKeeps, WorkerFailsKeeps DEF Work
<1>3. CASE UNCHANGED vars
  <2>1. /\ UNCHANGED <<files, index, host, worker, want, settled, overlapped, faults>>
    BY <1>3 DEF vars, history
  <2>2. TypeOK'
    BY <2>1 DEF IndInv, TypeOK, files
  <2> QED
    BY <2>1, <2>2, HostMoves
<1> QED
  BY <1>1, <1>2, <1>3, WishKeeps, AnswerKeeps, KilledKeeps, PowerLossKeeps, WritebackKeeps
     DEF Next, Slots

(* The inductive invariant: what the workers have done so far is in the    *)
(* index, as long as no two objects overlapped.                            *)
THEOREM IndInvHolds == Spec => []IndInv
BY InitOK, NextKeeps, PTL DEF Spec

(* Files, requests, workers and the index keep their types.                *)
THEOREM TypeCorrect == Spec => []TypeOK
<1>1. IndInv => TypeOK
  BY DEF IndInv
<1> QED
  BY <1>1, IndInvHolds, PTL

(* receive, process_request, execute: since the last receipt, and until    *)
(* another object is begun, the index holds exactly the versions of its    *)
(* object.                                                                 *)
THEOREM ReceiptIsTrue == Spec => []ReceiptTellsIndex
<1>1. IndInv => ReceiptTellsIndex
  BY DEF IndInv
<1> QED
  BY <1>1, IndInvHolds, PTL

(* docs/operations/private-corpus-processing.md "removes older Qdrant      *)
(* source versions only after the new points are acknowledged": an episode *)
(* that can be found stays so, unless two objects were ingested at once.   *)
THEOREM EpisodesStay == Spec => AlwaysFound
<1> DEFINE Stays == \A e \in 1 .. Episodes : index[e] # {} => index'[e] # {} \/ overlapped
<1>1. ASSUME IndInv, Next PROVE Stays
  <2>1. CASE index' = index
    BY <2>1
  <2>2. ASSUME NEW slot \in Slots, Running(slot), Adds(slot) PROVE Stays
    BY <1>1, <2>2, WorkerKnown DEF Running, Adds, IndInv, TypeOK
  <2>3. ASSUME NEW slot \in Slots, Running(slot), Narrows(slot) PROVE Stays
    <3>1. ~overlapped => Version(slot) \in index[worker[slot].episode]
      BY <1>1, <2>3 DEF IndInv, Progress, Narrows
    <3> QED
      BY <1>1, <2>3, <3>1, WorkerKnown DEF Running, Narrows, IndInv, TypeOK
  <2>4. ASSUME NEW slot \in Slots, Work(slot) \/ WorkerFails(slot) PROVE Stays
    <3>1. Running(slot)
      BY <2>4, FreeIsFree DEF Work, Upsert, Delete, WorkerFails, Running
    <3>2. index' = index \/ Adds(slot) \/ Narrows(slot)
      BY <2>4 DEF Work, Upsert, Delete, WorkerFails, Adds, Narrows
    <3> QED
      BY <2>1, <2>2, <2>3, <3>1, <3>2
  <2>5. \/ index' = index
        \/ \E slot \in Slots : Work(slot) \/ WorkerFails(slot)
    BY <1>1 DEF Next, Request, Decide, Receive, Publish, SyncObject, Ingest, Materialize,
       Replay, RunWorker, Recorded, Answer, Abandon, AnswerLost, Killed, PowerLoss,
       Writeback, Slots
  <2> QED
    BY <2>1, <2>4, <2>5
<1>2. IndInv /\ [Next]_vars => [Stays]_vars
  BY <1>1
<1> QED
  BY <1>2, IndInvHolds, PTL DEF Spec, AlwaysFound

=============================================================================
