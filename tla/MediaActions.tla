---------------------------- MODULE MediaActions ----------------------------
(***************************************************************************)
(* Approved media writes: MediaActionGraphWorkflow over MediaActionService,*)
(* the approval repository and a media provider adapter.                   *)
(*                                                                         *)
(* A caller is a thread inside start or resume of the workflow.  Several   *)
(* may be on the same command: a second start with the same idempotency    *)
(* key, a decision sent twice, a retry after an error.  Every step is one  *)
(* critical section of the repository or the provider, one request to the  *)
(* media server, or one audit event.                                       *)
(*                                                                         *)
(* A command stands for its digest: two commands differ when any parameter *)
(* does.  The principal is one the authorization policy accepts.           *)
(***************************************************************************)
EXTENDS Integers, Sequences

CONSTANTS
    Commands,       \* media commands
    Keys,           \* idempotency keys
    KeyOf,          \* KeyOf[m]: the key of command m
    RevisionOf,     \* RevisionOf[m]: the connection revision m was made for
    Undoes,         \* Undoes[m]: the commands whose effect m takes back
    Repeatable,     \* commands whose request is sent again (retry_safe)
    Callers,        \* threads inside the workflow
    NoCommand,      \* none
    NoCaller,       \* the provider's lock is free
    Adapter,        \* "mock" or "jellyfin"
    TTL,            \* approval_ttl
    MaxAttempts,    \* maximum_attempts
    LostAnswers,    \* TRUE: the server may act on a request whose answer is lost
    OtherHands,     \* TRUE: what the server shows changes by other hands too
    MaxTime,        \* bound: the last instant of the clock
    MaxRevision,    \* bound: the last revision of the connection
    MaxFaults       \* bound: requests that fail

ASSUME KeysAssumption == KeyOf \in [Commands -> Keys]
ASSUME RevisionAssumption == RevisionOf \in [Commands -> Nat]
ASSUME UndoesAssumption == Undoes \in [Commands -> SUBSET Commands]
ASSUME NoneAssumption == NoCommand \notin Commands /\ NoCaller \notin Callers
ASSUME AdapterAssumption == Adapter \in {"mock", "jellyfin"} /\ LostAnswers \in BOOLEAN /\ OtherHands \in BOOLEAN
ASSUME LimitAssumption == TTL \in Nat \ {0} /\ MaxAttempts \in Nat \ {0}
ASSUME BoundsAssumption == MaxTime \in Nat /\ MaxRevision \in Nat /\ MaxFaults \in Nat

VARIABLES
    approval,       \* approval[k]: the approval request made for key k
    audit,          \* audit[k]: the stages audited for it
    executions,     \* executions[k]: the provider's record of key k
    writes,         \* writes[m]: how often the server carried m out
    lost,           \* lost[m]: how often its answer to that was lost (history)
    shown,          \* commands whose effect verify() would find
    disturbed,      \* commands whose effect was taken back, or whose verify()
                    \* failed (history)
    lock,           \* the caller that holds the provider's lock
    call,           \* call[c]: where caller c is
    revision,       \* connection revision of the server
    clock,
    faults          \* failed requests so far

vars == <<approval, audit, executions, writes, lost, shown, disturbed, lock, call,
          revision, clock, faults>>

---------------------------------------------------------------------------

Status == {"absent", "pending", "approved", "rejected", "executed", "verified"}
Stage  == {"proposed", "approved", "rejected", "executed", "verified"}

Label == {"idle", "propose", "lookup", "add", "route", "decide", "read",
          "execute", "check", "lock", "recheck", "perform", "save", "emit", "verify"}

Call == [at : Label, cmd : Commands \cup {NoCommand}, now : Nat,
         stage : Stage, replay : BOOLEAN, tries : 0..(MaxAttempts - 1)]

Idle == [at |-> "idle", cmd |-> NoCommand, now |-> 0,
         stage |-> "proposed", replay |-> FALSE, tries |-> 0]

Approval == [status : Status, cmd : Commands \cup {NoCommand}, expires : Nat]

NoApproval == [status |-> "absent", cmd |-> NoCommand, expires |-> 0]

(* The type invariant of the workflow. *)
TypeOK == /\ approval \in [Keys -> Approval]
          /\ audit \in [Keys -> Seq(Stage)]
          /\ executions \in [Keys -> Commands \cup {NoCommand}]
          /\ writes \in [Commands -> Nat] /\ lost \in [Commands -> Nat]
          /\ shown \subseteq Commands /\ disturbed \subseteq Commands
          /\ lock \in Callers \cup {NoCaller}
          /\ call \in [Callers -> Call]
          /\ revision \in 0..MaxRevision
          /\ clock \in 0..MaxTime
          /\ faults \in 0..MaxFaults

Init == /\ approval = [k \in Keys |-> NoApproval]
        /\ audit = [k \in Keys |-> <<>>]
        /\ executions = [k \in Keys |-> NoCommand]
        /\ writes = [m \in Commands |-> 0] /\ lost = [m \in Commands |-> 0]
        /\ shown = {} /\ disturbed = {}
        /\ lock = NoCaller
        /\ call = [c \in Callers |-> Idle]
        /\ revision = 0
        /\ clock = 0
        /\ faults = 0

---------------------------------------------------------------------------

At(c, l) == call[c].at = l
Goto(c, l) == call' = [call EXCEPT ![c].at = l]
Return(c) == call' = [call EXCEPT ![c] = Idle]

(* The approval of the command that c is on. *)
Key(c) == KeyOf[call[c].cmd]
Mine(c) == approval[Key(c)].cmd = call[c].cmd

(* A request fails: no connection, an open circuit, a refusal. *)
Fault == faults < MaxFaults /\ faults' = faults + 1
NoFault == UNCHANGED faults

world    == <<revision, clock>>
store    == <<approval, audit>>
server   == <<writes, lost, shown, disturbed>>
provider == <<executions, lock, server>>

---------------------------------------------------------------------------
(* The graph: start, resume and the routes between its nodes.              *)

Start(c, m) ==
    /\ At(c, "idle")
    /\ call' = [call EXCEPT ![c] = [Idle EXCEPT !.at = "propose", !.cmd = m]]
    /\ UNCHANGED <<store, provider, world, faults>>

(* The interrupt hands the decision to the approval node. *)
Resume(c, m, stage) ==
    /\ At(c, "idle")
    /\ approval[KeyOf[m]].cmd = m
    /\ call' = [call EXCEPT ![c] = [Idle EXCEPT !.at = "decide", !.cmd = m,
                                                !.stage = stage]]
    /\ UNCHANGED <<store, provider, world, faults>>

(* A pending approval interrupts the graph, an approved one is executed,   *)
(* anything else ends it.                                                  *)
Route(c) ==
    /\ At(c, "route")
    /\ IF approval[Key(c)].status = "approved" THEN Goto(c, "execute") ELSE Return(c)
    /\ UNCHANGED <<store, provider, world, faults>>

---------------------------------------------------------------------------
(* The service.                                                            *)

(* propose, decide and execute_approved first ask the server whether the   *)
(* connection is still the one the command was made for.                   *)
RequireConnectionRevision(c) ==
    /\ call[c].at \in {"propose", "decide", "execute"}
    /\ \/ /\ revision = RevisionOf[call[c].cmd]
          /\ Goto(c, CASE At(c, "propose") -> "lookup"
                       [] At(c, "decide")  -> "read"
                       [] OTHER            -> "check")
          /\ NoFault
       \/ revision # RevisionOf[call[c].cmd] /\ Return(c) /\ NoFault
       \/ Return(c) /\ Fault
    /\ UNCHANGED <<store, provider, world>>

(* propose: an approval of the same command is returned, the key of        *)
(* another command is refused.                                             *)
Lookup(c) ==
    /\ At(c, "lookup")
    /\ \/ /\ approval[Key(c)].status = "absent"
          /\ call' = [call EXCEPT ![c].at = "add", ![c].now = clock]
       \/ /\ approval[Key(c)].status # "absent"
          /\ IF Mine(c) THEN Goto(c, "route") ELSE Return(c)
    /\ UNCHANGED <<store, provider, world, faults>>

(* propose: add, which refuses a key that was taken in the meantime. *)
Add(c) ==
    /\ At(c, "add")
    /\ \/ /\ approval[Key(c)].status = "absent"
          /\ approval' = [approval EXCEPT ![Key(c)] =
                             [status |-> "pending", cmd |-> call[c].cmd,
                              expires |-> call[c].now + TTL]]
          /\ call' = [call EXCEPT ![c].at = "emit", ![c].stage = "proposed"]
       \/ /\ approval[Key(c)].status # "absent"
          /\ Return(c)
          /\ UNCHANGED approval
    /\ UNCHANGED <<audit, provider, world, faults>>

(* decide: the exact approval, pending and not expired. *)
Read(c) ==
    /\ At(c, "read")
    /\ IF Mine(c) /\ approval[Key(c)].status = "pending"
                  /\ clock <= approval[Key(c)].expires
       THEN Goto(c, "save") ELSE Return(c)
    /\ UNCHANGED <<store, provider, world, faults>>

(* execute_approved: the exact approval, approved. *)
Check(c) ==
    /\ At(c, "check")
    /\ IF Mine(c) /\ approval[Key(c)].status = "approved"
       THEN Goto(c, "lock") ELSE Return(c)
    /\ UNCHANGED <<store, provider, world, faults>>

(* The status that the transition to a stage starts from. *)
Expected(stage) == CASE stage \in {"approved", "rejected"} -> "pending"
                     [] stage = "executed"                 -> "approved"
                     [] OTHER                              -> "executed"

(* Slip: save does not compare the status. *)
SaveUnguarded(c) ==
    /\ At(c, "save")
    /\ approval' = [approval EXCEPT ![Key(c)].status = call[c].stage]
    /\ Goto(c, "emit")
    /\ UNCHANGED <<audit, provider, world, faults>>

(* Slip: the stage is audited before it is saved. *)
SaveAfterEmit(c) ==
    /\ At(c, "save")
    /\ audit' = [audit EXCEPT ![Key(c)] = Append(@, call[c].stage)]
    /\ \/ /\ approval[Key(c)].status = Expected(call[c].stage)
          /\ approval' = [approval EXCEPT ![Key(c)].status = call[c].stage]
          /\ IF call[c].stage \in {"approved", "rejected"} THEN Goto(c, "route")
             ELSE IF call[c].stage = "executed" THEN Goto(c, "verify") ELSE Return(c)
       \/ /\ approval[Key(c)].status # Expected(call[c].stage)
          /\ Return(c)
          /\ UNCHANGED approval
    /\ UNCHANGED <<provider, world, faults>>

(* save(..., expected_status): one of several callers wins. *)
Save(c) ==
    /\ At(c, "save")
    /\ \/ /\ approval[Key(c)].status = Expected(call[c].stage)
          /\ approval' = [approval EXCEPT ![Key(c)].status = call[c].stage]
          /\ Goto(c, "emit")
       \/ /\ approval[Key(c)].status # Expected(call[c].stage)
          /\ Return(c)
          /\ UNCHANGED approval
    /\ UNCHANGED <<audit, provider, world, faults>>

(* _emit, and on to what follows the stage. *)
Emit(c) ==
    /\ At(c, "emit")
    /\ audit' = [audit EXCEPT ![Key(c)] = Append(@, call[c].stage)]
    /\ CASE call[c].stage = "executed" -> Goto(c, "verify")
         [] call[c].stage = "verified" -> Return(c)
         [] OTHER                      -> Goto(c, "route")
    /\ UNCHANGED <<approval, provider, world, faults>>

---------------------------------------------------------------------------
(* The provider adapter.                                                   *)

Acquire(c) == /\ At(c, "lock")
              /\ lock = NoCaller
              /\ lock' = c
              /\ Goto(c, "recheck")
              /\ UNCHANGED <<store, executions, server, world, faults>>

(* execute raises and leaves the lock. *)
Fail(c) == Return(c) /\ lock' = NoCaller

(* execute: the Jellyfin adapter asks for the revision once more, the mock *)
(* only whether it is available.                                           *)
Recheck(c) ==
    /\ At(c, "recheck")
    /\ \/ /\ Adapter = "mock" \/ revision = RevisionOf[call[c].cmd]
          /\ Goto(c, "perform")
          /\ UNCHANGED lock
          /\ NoFault
       \/ /\ Adapter = "jellyfin" /\ revision # RevisionOf[call[c].cmd]
          /\ Fail(c)
          /\ NoFault
       \/ Fail(c) /\ Fault
    /\ UNCHANGED <<store, executions, server, world>>

(* The server carries out the command, which may take back another's effect. *)
Performed(c) ==
    LET m == call[c].cmd
    IN  /\ writes' = [writes EXCEPT ![m] = @ + 1]
        /\ shown' = (shown \ Undoes[m]) \cup {m}
        /\ disturbed' = disturbed \cup (shown \cap Undoes[m])

(* The result goes back to the service, which marks the approval executed. *)
Answer(c, replay) ==
    /\ call' = [call EXCEPT ![c].at = "save", ![c].stage = "executed",
                            ![c].replay = replay]
    /\ lock' = NoCaller

(* execute: a recorded key is answered from the record. *)
Replay(c) ==
    /\ At(c, "perform")
    /\ executions[Key(c)] # NoCommand
    /\ IF executions[Key(c)] = call[c].cmd THEN Answer(c, TRUE) ELSE Fail(c)
    /\ UNCHANGED <<store, executions, server, world, faults>>

(* Slip: the execution is not recorded under its key. *)
PerformUnrecorded(c) ==
    /\ At(c, "perform")
    /\ executions[Key(c)] = NoCommand
    /\ Performed(c)
    /\ Answer(c, FALSE)
    /\ UNCHANGED <<store, executions, lost, world, faults>>

(* execute: the server carries the command out and answers. *)
Perform(c) ==
    /\ At(c, "perform")
    /\ executions[Key(c)] = NoCommand
    /\ Performed(c)
    /\ executions' = [executions EXCEPT ![Key(c)] = call[c].cmd]
    /\ Answer(c, FALSE)
    /\ UNCHANGED <<store, lost, world, faults>>

(* Slip: an off-by-one in the number of attempts. *)
PerformFailsOnceMore(c) ==
    /\ At(c, "perform")
    /\ executions[Key(c)] = NoCommand
    /\ Fault
    /\ \/ Fail(c)
       \/ /\ Adapter = "jellyfin" /\ call[c].cmd \in Repeatable
          /\ call[c].tries < MaxAttempts
          /\ call' = [call EXCEPT ![c].tries = @ + 1]
          /\ UNCHANGED lock
    /\ UNCHANGED <<store, executions, server, world>>

(* execute: the request fails, perhaps after the server acted on it.  Only *)
(* a repeatable request is sent again.                                     *)
PerformFails(c) ==
    /\ At(c, "perform")
    /\ executions[Key(c)] = NoCommand
    /\ Fault
    /\ \/ UNCHANGED server
       \/ LostAnswers /\ Performed(c) /\ lost' = [lost EXCEPT ![call[c].cmd] = @ + 1]
    /\ \/ Fail(c)
       \/ /\ Adapter = "jellyfin"
          /\ call[c].cmd \in Repeatable
          /\ call[c].tries + 1 < MaxAttempts
          /\ call' = [call EXCEPT ![c].tries = @ + 1]
          /\ UNCHANGED lock
    /\ UNCHANGED <<store, executions, world>>

(* Slip: the mock, too, compares the whole result. *)
RecognizedWhole(c) == ~call[c].replay

(* The Jellyfin adapter compares the whole result with the one recorded,   *)
(* in which idempotent_replay is false; the mock compares the command.     *)
Recognized(c) == Adapter = "mock" \/ ~call[c].replay

(* verify: under the lock; it raises on a result it does not recognize,    *)
(* and otherwise asks the server whether it shows the effect.  A failed    *)
(* request or another state of the server ends the call.                   *)
Verify(c) ==
    /\ At(c, "verify")
    /\ lock = NoCaller
    /\ \/ /\ Recognized(c) /\ call[c].cmd \in shown
          /\ call' = [call EXCEPT ![c].at = "save", ![c].stage = "verified"]
          /\ UNCHANGED disturbed /\ NoFault
       \/ /\ ~(Recognized(c) /\ call[c].cmd \in shown)
          /\ Return(c)
          /\ UNCHANGED disturbed /\ NoFault
       \/ /\ Return(c)
          /\ disturbed' = disturbed \cup {call[c].cmd} /\ Fault
    /\ UNCHANGED <<store, executions, lock, writes, lost, shown, world>>

---------------------------------------------------------------------------

(* The server stops showing an effect: somebody takes it back in Jellyfin, *)
(* a playback ends, a mock is set up with stale_writes.                    *)
ServerChanges(m) ==
    /\ OtherHands /\ m \in shown
    /\ shown' = shown \ {m}
    /\ disturbed' = disturbed \cup {m}
    /\ UNCHANGED <<store, executions, lock, writes, lost, call, world, faults>>

(* The server is upgraded, or its users and items are mapped anew. *)
ReviseConnection == /\ revision < MaxRevision
                    /\ revision' = revision + 1
                    /\ UNCHANGED <<store, provider, call, clock, faults>>

Tick == /\ clock < MaxTime
        /\ clock' = clock + 1
        /\ UNCHANGED <<store, provider, call, revision, faults>>

GraphStep(c) == \/ \E m \in Commands : Start(c, m)
                \/ \E m \in Commands : \E s \in {"approved", "rejected"} : Resume(c, m, s)
                \/ Route(c)

ServiceStep(c) == \/ RequireConnectionRevision(c) \/ Lookup(c) \/ Add(c) \/ Read(c)
                  \/ Check(c) \/ Save(c) \/ Emit(c)

ProviderStep(c) == \/ Acquire(c) \/ Recheck(c) \/ Replay(c) \/ Perform(c)
                   \/ PerformFails(c) \/ Verify(c)

Next == \/ \E c \in Callers : GraphStep(c) \/ ServiceStep(c) \/ ProviderStep(c)
        \/ \E m \in Commands : ServerChanges(m)
        \/ ReviseConnection
        \/ Tick

Spec == Init /\ [][Next]_vars

---------------------------------------------------------------------------
(* Properties.                                                             *)

Approved == {"approved", "executed", "verified"}

(* The server carries out only what was approved: a command that was       *)
(* written has the approval of its key, for exactly its digest, and that   *)
(* approval was granted and never taken back.                              *)
ApprovedWritesOnly ==
    \A m \in Commands : writes[m] > 0 =>
       /\ approval[KeyOf[m]].cmd = m
       /\ approval[KeyOf[m]].status \in Approved

(* A command is carried out once more than its answer was lost, however    *)
(* many callers execute it and however often, started anew or sent again:  *)
(* the provider's lock and its record of keys answer the others.           *)
WrittenOnce == \A m \in Commands : writes[m] <= 1 + lost[m]

Rank(s) == CASE s = "absent" -> 0 [] s = "pending" -> 1
             [] s \in {"approved", "rejected"} -> 2
             [] s = "executed" -> 3 [] OTHER -> 4

(* An approval is decided once and only goes forward: of a granting and a  *)
(* rejecting decision, or of two executions, that read the same status,    *)
(* one is refused, and a rejected approval stays rejected.                 *)
DecidedOnce ==
    [][\A k \in Keys :
          approval'[k].status # approval[k].status =>
             /\ Rank(approval'[k].status) = Rank(approval[k].status) + 1
             /\ approval[k].status # "rejected"]_vars

(* The stages that led to a status. *)
History(s) == CASE s = "absent"   -> {}
                [] s = "pending"  -> {"proposed"}
                [] s = "rejected" -> {"proposed", "rejected"}
                [] s = "approved" -> {"proposed", "approved"}
                [] s = "executed" -> {"proposed", "approved", "executed"}
                [] OTHER          -> {"proposed", "approved", "executed", "verified"}

Quiet == \A c \in Callers : call[c].at = "idle"

(* Once every caller has returned, the audit trail of an approval has each *)
(* stage that led to its status, once, and no other.                       *)
AuditTellsStatus ==
    Quiet => \A k \in Keys :
       /\ {audit[k][i] : i \in DOMAIN audit[k]} = History(approval[k].status)
       /\ \A i, j \in DOMAIN audit[k] : audit[k][i] = audit[k][j] => i = j

(* An executed approval that no caller is on is verified, unless the       *)
(* request of its verify() failed or its effect was taken back: by another *)
(* caller's opposite command between execute and verify, or by the server. *)
(* In particular, it does not matter which of the callers that executed it *)
(* at once saves first, the one that wrote or the one that was answered    *)
(* from the record.                                                        *)
ExecutedIsVerified ==
    \A k \in Keys :
       approval[k].status = "executed" =>
          \/ approval[k].cmd \in disturbed
          \/ \E c \in Callers : call[c].at # "idle" /\ Key(c) = k
=============================================================================
