---------------------------- MODULE AgentJobStream ----------------------------
(***************************************************************************)
(* How a browser learns the end of an agent job: Server-Sent Events over   *)
(* the job's event log (AgentJobEventStream and the route that opens it),  *)
(* and the client in static/app.js that reconnects with the id of the last *)
(* event it got, polls the job once the connection failed, and reads the   *)
(* status and the evidence when it learns that the job has ended.          *)
(*                                                                         *)
(* The log and the row are those of AgentJobLifecycle, which AgentJobs     *)
(* implements: whatever the runtime does to them, it does in those steps.  *)
(***************************************************************************)
EXTENDS Naturals, Sequences, FiniteSets

CONSTANTS
    Job,            \* the job the browser submitted
    MaxEvents,      \* sse_max_events: events of one stream, and the largest cursor
    Batch,          \* sse_replay_batch: events read at once
    MaxRecoveries,  \* bound: executions that are interrupted and recovered
    MaxFaults       \* bound: lost connections and requests that fail

ASSUME StreamAssumption ==
    /\ MaxEvents \in Nat \ {0}
    /\ Batch \in 1 .. MaxEvents
    /\ MaxRecoveries \in Nat
    /\ MaxFaults \in Nat

VARIABLES
    status, events, \* the row of the job and its log
    stream,         \* the server's iterator over the log
    wire,           \* frames under way to the browser (numbers of events)
    client,         \* the browser's state of the job
    seen,           \* numbers of the events the browser got, in order
    faults

vars == <<status, events, stream, wire, client, seen, faults>>

Life == INSTANCE AgentJobLifecycle WITH Jobs <- {Job}, status <- status, events <- events

Log == events[Job]
Row == status[Job]
Ended == Row \in Life!Terminal

Closed == [open |-> FALSE, cursor |-> 0, pending |-> << >>, emitted |-> 0, ended |-> FALSE]

(* source: the EventSource; poll: the polling chain, with the status its   *)
(* request was answered; finish: the reads of finishAgentJob, likewise;    *)
(* shown: what the user sees in the end.                                   *)
Asking == {"asked"} \cup Life!Status
ClientStates ==
    [source : {"none", "connecting", "open", "closed"},
     last   : Nat,
     poll   : {"off", "timer"} \cup Asking,
     finish : {"no"} \cup Asking,
     shown  : {"nothing", "answer", "job failed", "no result", "gave up"}]

TypeOK ==
    /\ Life!TypeOK
    /\ stream.open \in BOOLEAN /\ stream.ended \in BOOLEAN
    /\ stream.cursor \in Nat /\ stream.emitted \in 0 .. MaxEvents
    /\ Len(stream.pending) < Batch
    /\ \A i \in 1 .. Len(wire) : wire[i] \in 1 .. Len(Log)
    /\ client \in ClientStates
    /\ faults \in 0 .. MaxFaults

Init ==
    /\ Life!Init
    /\ stream = Closed
    /\ wire = << >>
    /\ client = [source |-> "none", last |-> 0, poll |-> "off", finish |-> "no", shown |-> "nothing"]
    /\ seen = << >>
    /\ faults = 0

Fault == faults < MaxFaults /\ faults' = faults + 1

-----------------------------------------------------------------------------
(* The job.  Its creation is the answer to the browser's submission, which *)
(* opens the EventSource, or polls at once where the browser has none.     *)
Submit ==
    /\ Life!Create(Job)
    /\ \/ client' = [client EXCEPT !.source = "connecting"]
       \/ client' = [client EXCEPT !.source = "closed", !.poll = "asked"]
    /\ UNCHANGED <<stream, wire, seen, faults>>

Recoveries == {i \in DOMAIN Log : Log[i] = "recovered"}

Run ==
    /\ \/ Life!Claim(Job)
       \/ Life!Reject(Job)
       \/ \E outcome \in Life!Terminal : Life!Finish(Job, outcome)
       \/ Cardinality(Recoveries) < MaxRecoveries /\ Life!Recover({Job})
    /\ UNCHANGED <<stream, wire, client, seen, faults>>

-----------------------------------------------------------------------------
(* The server's side: agent_job_events and AgentJobEventStream.__anext__.  *)

(* onerror: the browser starts to poll, once.                              *)
Polling(poll) == IF poll = "off" THEN "timer" ELSE poll

(* The browser (re)connects with the number of the last event it got.      *)
Connect ==
    /\ client.source = "connecting"
    /\ client.last <= MaxEvents
    /\ stream' = [Closed EXCEPT !.open = TRUE, !.cursor = client.last]
    /\ client' = [client EXCEPT !.source = "open"]
    /\ UNCHANGED <<status, events, wire, seen, faults>>

(* Slip: only a connection that was open starts the polls.                 *)
RefusedSilently ==
    /\ client.source = "connecting"
    /\ IF client.last > MaxEvents THEN UNCHANGED faults ELSE Fault
    /\ client' = [client EXCEPT !.source = "closed"]
    /\ UNCHANGED <<status, events, stream, wire, seen>>

(* A cursor above sse_max_events is refused with 422, an unavailable store *)
(* answers 503, and after either an EventSource does not try again.        *)
Refused ==
    /\ client.source = "connecting"
    /\ IF client.last > MaxEvents THEN UNCHANGED faults ELSE Fault
    /\ client' = [client EXCEPT !.source = "closed", !.poll = Polling(@)]
    /\ UNCHANGED <<status, events, stream, wire, seen>>

(* A request that never reaches the server is tried again.                 *)
Unreached ==
    /\ client.source = "connecting"
    /\ Fault
    /\ client' = [client EXCEPT !.poll = Polling(@)]
    /\ UNCHANGED <<status, events, stream, wire, seen>>

(* Slip: the event at the cursor is read again.                            *)
EventsAfterInclusive(cursor) ==
    [i \in 1 .. Len(Log) - cursor + (IF cursor = 0 THEN 0 ELSE 1) |->
        IF cursor = 0 THEN i ELSE cursor + i - 1]

(* list_events_after: the numbers of the events after the cursor, in order.*)
EventsAfter(cursor) == [i \in 1 .. Len(Log) - cursor |-> cursor + i]

Read ==
    IF stream.pending # << >> THEN stream.pending
    ELSE LET after == EventsAfter(stream.cursor)
             room  == MaxEvents - stream.emitted
             size  == IF Batch < room THEN Batch ELSE room
         IN  IF Len(after) <= size THEN after ELSE SubSeq(after, 1, size)

(* A frame is yielded, and only then does the cursor advance.              *)
Yield ==
    /\ stream.open
    /\ stream.emitted < MaxEvents
    /\ ~(stream.ended /\ stream.pending = << >>)
    /\ Read # << >>
    /\ LET number == Head(Read)
       IN  /\ wire' = Append(wire, number)
           /\ stream' = [stream EXCEPT !.cursor = number,
                                       !.pending = Tail(Read),
                                       !.emitted = @ + 1,
                                       !.ended = Log[number] \in Life!Terminal]
    /\ UNCHANGED <<status, events, client, seen, faults>>

(* The iterator ends after the terminal event, at its limit, or because    *)
(* the browser is gone.                                                    *)
Stop ==
    /\ stream.open
    /\ \/ stream.emitted = MaxEvents
       \/ stream.ended /\ stream.pending = << >>
       \/ client.source # "open"
    /\ stream' = Closed
    /\ UNCHANGED <<status, events, wire, client, seen, faults>>

(* Its time is up, with events still to come.                              *)
TimesOut ==
    /\ stream.open
    /\ Fault
    /\ stream' = Closed
    /\ UNCHANGED <<status, events, wire, client, seen>>

-----------------------------------------------------------------------------
(* The browser's side. *)

Waiting == client.shown = "nothing"

(* A job is finished once: finishAgentJob returns when it is under way.    *)
(* The transport is closed; a poll whose answer is under way stays.        *)
Finishing(how) ==
    [client EXCEPT !.finish = how, !.source = "closed",
                   !.poll = IF @ = "timer" THEN "off" ELSE @]

(* A frame arrives; a terminal one makes the browser read the status.      *)
Deliver ==
    /\ client.source = "open" /\ wire # << >>
    /\ seen' = Append(seen, Head(wire))
    /\ IF Log[Head(wire)] \in Life!Terminal
         THEN /\ client' = [Finishing("asked") EXCEPT !.last = Head(wire)]
              /\ wire' = << >>
         ELSE /\ client' = [client EXCEPT !.last = Head(wire)]
              /\ wire' = Tail(wire)
    /\ UNCHANGED <<status, events, stream, faults>>

(* onerror, and the browser will connect again: the stream has ended.      *)
Disconnect ==
    /\ client.source = "open"
    /\ ~stream.open /\ wire = << >>
    /\ client' = [client EXCEPT !.source = "connecting", !.poll = Polling(@)]
    /\ UNCHANGED <<status, events, stream, wire, seen, faults>>

(* The connection breaks, with frames under way.                           *)
Break ==
    /\ client.source = "open"
    /\ Fault
    /\ client' = [client EXCEPT !.source = "connecting", !.poll = Polling(@)]
    /\ wire' = << >>
    /\ stream' = Closed
    /\ UNCHANGED <<status, events, seen>>

(* pollAgentJob: the timer fires, the server reads the row, and the answer *)
(* arrives some time later, or never.                                      *)
PollAsk ==
    /\ Waiting /\ client.poll = "timer"
    /\ client' = [client EXCEPT !.poll = IF client.finish = "no" THEN "asked" ELSE "off"]
    /\ UNCHANGED <<status, events, stream, wire, seen, faults>>

PollRead ==
    /\ Waiting /\ client.poll = "asked"
    /\ client' = [client EXCEPT !.poll = Row]
    /\ UNCHANGED <<status, events, stream, wire, seen, faults>>

PollAnswer ==
    /\ Waiting /\ client.poll \in Life!Status
    /\ client' = IF client.poll \notin Life!Terminal THEN [client EXCEPT !.poll = "timer"]
                 ELSE IF client.finish # "no" THEN [client EXCEPT !.poll = "off"]
                 ELSE [Finishing(client.poll) EXCEPT !.poll = "off"]
    /\ wire' = IF client'.source = "closed" THEN << >> ELSE wire
    /\ UNCHANGED <<status, events, stream, seen, faults>>

PollFails ==
    /\ Waiting /\ client.poll = "asked"
    /\ Fault
    /\ client' = [client EXCEPT !.poll = "timer"]
    /\ UNCHANGED <<status, events, stream, wire, seen>>

(* finishAgentJob: the status is read unless the poll brought it.          *)
FinishRead ==
    /\ Waiting /\ client.finish = "asked"
    /\ client' = [client EXCEPT !.finish = Row]
    /\ UNCHANGED <<status, events, stream, wire, seen, faults>>

(* Finalized: the transport is closed and nothing more is accepted.        *)
Finalize(outcome) ==
    /\ client' = [client EXCEPT !.shown = outcome, !.source = "closed", !.poll = "off"]
    /\ wire' = << >>
    /\ UNCHANGED <<status, events, stream, seen>>

(* A failed job shows its failure, one without a result an error, and an   *)
(* answer is shown with its evidence.                                      *)
Show ==
    /\ Waiting /\ client.finish \in Life!Status
    /\ Finalize(CASE client.finish = "failed" -> "job failed"
                  [] client.finish \in {"succeeded", "safe_refusal"} -> "answer"
                  [] OTHER -> "no result")
    /\ UNCHANGED faults

(* The reads of finishAgentJob fail.                                       *)
ShowFails ==
    /\ Waiting /\ client.finish # "no"
    /\ Fault
    /\ Finalize("gave up")

(* The deadline passes (the bound on polls agrees with it: attempts times  *)
(* interval is the deadline), or the user leaves the conversation.         *)
Deadline ==
    /\ client.source # "none" /\ Waiting
    /\ Fault
    /\ Finalize("gave up")

Server == Connect \/ Refused \/ Unreached \/ Yield \/ Stop \/ TimesOut
Browser == \/ Deliver \/ Disconnect \/ Break \/ Deadline
           \/ PollAsk \/ PollRead \/ PollAnswer \/ PollFails
           \/ FinishRead \/ Show \/ ShowFails

Next == Submit \/ Run \/ Server \/ Browser

(* The server and the browser keep running; nothing makes the job end, and *)
(* nothing makes a request fail.                                           *)
Fairness ==
    /\ WF_vars(Connect) /\ WF_vars(client.last > MaxEvents /\ Refused)
    /\ WF_vars(Yield) /\ WF_vars(Stop)
    /\ WF_vars(Deliver) /\ WF_vars(Disconnect)
    /\ WF_vars(PollAsk) /\ WF_vars(PollRead) /\ WF_vars(PollAnswer)
    /\ WF_vars(FinishRead) /\ WF_vars(Show)

Spec == Init /\ [][Next]_vars /\ Fairness

-----------------------------------------------------------------------------
(* docs/agent-jobs-api.md "replay only events after that sequence": across *)
(* all its connections the browser gets every event once and in order,     *)
(* although frames were lost under way and streams ended in between.       *)
EventsOnceInOrder ==
    /\ seen = [i \in 1 .. Len(seen) |-> i]
    /\ client.last = Len(seen)

(* finishAgentJob after a terminal event reads a row that is terminal: row *)
(* and event are one transaction and nothing changes them later.  The user *)
(* sees the outcome that is stored, and never the error of a job without   *)
(* result.                                                                 *)
ShowsWhatIsStored ==
    /\ client.shown = "answer" => Row \in {"succeeded", "safe_refusal"}
    /\ client.shown = "job failed" => Row = "failed"
    /\ client.shown # "no result"

(* startAgentEvents, onerror: a job that has ended is shown to its user,   *)
(* also when a cursor was refused, a store was away or a stream was cut.   *)
EndReachesUser == (Ended /\ client.source # "none") ~> client.shown # "nothing"
=============================================================================
