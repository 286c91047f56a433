------------------------ MODULE AgentJobLifecycle ------------------------
(***************************************************************************)
(* What the agent-job store promises, with the processes, threads and      *)
(* leases taken away: a job is created queued, is claimed, ends exactly    *)
(* once, and may be put back to the queue by recovery as long as it has    *)
(* not ended.  Every change of a row appends one event in the same         *)
(* transaction, which is what Server-Sent-Event replay reads.              *)
(*                                                                         *)
(* AgentJobs implements this specification.                                *)
(***************************************************************************)
EXTENDS Naturals, Sequences

CONSTANT Jobs          \* identities of agent jobs (owner, idempotency key)

VARIABLES status,      \* status[j]: the status column of the row of j
          events       \* events[j]: the kinds of the event rows of j, in order

vars == <<status, events>>

(* AgentJobStatus.terminal *)
Terminal == {"succeeded", "safe_refusal", "failed"}

(* "absent" is a job with no row yet. *)
Status == {"absent", "queued", "running"} \cup Terminal

(* "recovered" is the queued event whose payload carries recovered: true. *)
Kind == {"queued", "running", "recovered"} \cup Terminal

TypeOK == /\ status \in [Jobs -> Status]
          /\ events \in [Jobs -> Seq(Kind)]

Init == /\ status = [j \in Jobs |-> "absent"]
        /\ events = [j \in Jobs |-> <<>>]

---------------------------------------------------------------------------

(* One transaction: the row of j takes status s and an event of kind k is  *)
(* appended with the next sequence number.                                 *)
Write(j, s, k) ==
    /\ status' = [status EXCEPT ![j] = s]
    /\ events' = [events EXCEPT ![j] = Append(@, k)]

Create(j) == /\ status[j] = "absent"
             /\ Write(j, "queued", "queued")

Claim(j) == /\ status[j] = "queued"
            /\ Write(j, "running", "running")

(* Slip: the outcome is stored whatever the row says. *)
FinishUnguarded(j, outcome) == Write(j, outcome, outcome)

Finish(j, outcome) == /\ status[j] = "running"
                      /\ Write(j, outcome, outcome)

(* Dispatch was refused for a job that never started. *)
Reject(j) == /\ status[j] = "queued"
             /\ Write(j, "failed", "failed")

(* Slip: recovery takes every row for an interrupted one. *)
RecoverUnguarded(S) ==
    /\ status' = [j \in Jobs |-> IF j \in S THEN "queued" ELSE status[j]]
    /\ events' = [j \in Jobs |-> IF j \in S THEN Append(events[j], "recovered")
                                           ELSE events[j]]

(* Recovery returns a set of running jobs to the queue in one transaction. *)
Recover(S) ==
    /\ \A j \in S : status[j] = "running"
    /\ status' = [j \in Jobs |-> IF j \in S THEN "queued" ELSE status[j]]
    /\ events' = [j \in Jobs |-> IF j \in S THEN Append(events[j], "recovered")
                                           ELSE events[j]]

Next == \/ \E j \in Jobs : \/ Create(j)
                           \/ Claim(j)
                           \/ Reject(j)
                           \/ \E o \in Terminal : Finish(j, o)
        \/ \E S \in SUBSET Jobs : Recover(S)

Spec == Init /\ [][Next]_vars

---------------------------------------------------------------------------

(* Which event may follow which. *)
Follows(k) == CASE k \in {"queued", "recovered"} -> {"running", "failed"}
                [] k = "running"                 -> Terminal \cup {"recovered"}
                [] OTHER                         -> {}

(* The status an event of kind k reports. *)
Reported(k) == IF k = "recovered" THEN "queued" ELSE k

(* The log of a job starts with its creation, follows the life cycle, has  *)
(* nothing after a terminal event, and its last event is the stored status.*)
LogCoherent ==
    \A j \in Jobs :
       /\ (status[j] = "absent") <=> (events[j] = <<>>)
       /\ events[j] # <<>> => /\ events[j][1] = "queued"
                              /\ status[j] = Reported(events[j][Len(events[j])])
       /\ \A i \in 1..(Len(events[j]) - 1) : events[j][i+1] \in Follows(events[j][i])
=============================================================================
