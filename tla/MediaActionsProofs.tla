------------------------- MODULE MediaActionsProofs -------------------------
(***************************************************************************)
(* Proofs about approved media writes, for any commands, keys, callers and *)
(* adapters, with failing requests and lost answers.                       *)
(***************************************************************************)
EXTENDS MediaActions, TLAPS

(* The approval of key k belongs to one command from the moment it exists. *)
KeyOK(k) == approval[k].status = "absent" <=> approval[k].cmd = NoCommand

(* What a caller has learnt from the repository stays true while it waits: *)
(* its approval is its own, and has not gone back.                         *)
CallOK(c) ==
    /\ ~At(c, "idle") => call[c].cmd \in Commands
    /\ call[c].at \in {"decide", "read"} => call[c].stage \in {"approved", "rejected"}
    /\ call[c].at \in {"lock", "recheck", "perform"} =>
          Mine(c) /\ approval[Key(c)].status \in Approved
    /\ call[c].at \in {"save", "emit", "verify"} =>
          Mine(c) /\ approval[Key(c)].status # "absent"
    /\ At(c, "save") => call[c].stage # "proposed"

IndInv == /\ TypeOK
          /\ \A k \in Keys : KeyOK(k)
          /\ \A c \in Callers : CallOK(c)
          /\ ApprovedWritesOnly

---------------------------------------------------------------------------

(* A step that leaves the approvals alone and moves one caller. *)
LEMMA CallerMoves ==
    ASSUME IndInv, UNCHANGED <<approval, writes>>, TypeOK',
           NEW c \in Callers, CallOK(c)',
           \A d \in Callers \ {c} : call'[d] = call[d]
    PROVE  IndInv'
<1>1. \A k \in Keys : KeyOK(k)'
  BY DEF IndInv, KeyOK
<1>2. \A d \in Callers : CallOK(d)'
  <2> SUFFICES ASSUME NEW d \in Callers, d # c PROVE CallOK(d)'
    OBVIOUS
  <2> QED
    BY DEF IndInv, CallOK, At, Mine, Key
<1>3. ApprovedWritesOnly'
  BY DEF IndInv, ApprovedWritesOnly
<1> QED
  BY <1>1, <1>2, <1>3 DEF IndInv

LEMMA IdleTyped == Idle \in Call /\ NoApproval \in Approval /\ Idle.at = "idle"
BY LimitAssumption DEF Idle, Call, Label, Stage, NoApproval, Approval, Status

(* The approvals only go forward, so what every other caller knows stays.  *)
LEMMA ApprovalMoves ==
    ASSUME IndInv, NEW c \in Callers, NEW k \in Keys, NEW a \in Approval,
           approval' = [approval EXCEPT ![k] = a],
           a.status # "absent", a.cmd # NoCommand,
           approval[k].status # "absent" => a.cmd = approval[k].cmd,
           approval[k].status \in Approved => a.status \in Approved,
           UNCHANGED writes, TypeOK', CallOK(c)',
           \A d \in Callers \ {c} : call'[d] = call[d]
    PROVE  IndInv'
<1>1. /\ approval'[k] = a
      /\ \A i \in Keys \ {k} : approval'[i] = approval[i]
  BY DEF IndInv, TypeOK
<1>2. \A i \in Keys : KeyOK(i)'
  BY <1>1 DEF IndInv, KeyOK
<1>3. \A d \in Callers : CallOK(d)'
  <2> SUFFICES ASSUME NEW d \in Callers, d # c PROVE CallOK(d)'
    OBVIOUS
  <2>1. CallOK(d) /\ call'[d] = call[d] /\ call[d] \in Call
    BY DEF IndInv, TypeOK
  <2>2. call[d].at # "idle" => call[d].cmd \in Commands /\ KeyOf[call[d].cmd] \in Keys
    BY <2>1, KeysAssumption DEF CallOK, At
  <2>3. call[d].cmd \in Commands /\ approval[KeyOf[call[d].cmd]].cmd = call[d].cmd
          => approval[KeyOf[call[d].cmd]].status # "absent"
    BY <2>2, NoneAssumption, KeysAssumption DEF IndInv, KeyOK
  <2>4. CASE call[d].at = "idle"
    BY <2>1, <2>4 DEF CallOK, At
  <2>5. CASE call[d].at # "idle"
    BY <1>1, <2>1, <2>2, <2>3, <2>5 DEF CallOK, At, Mine, Key
  <2> QED
    BY <2>4, <2>5
<1>4. ApprovedWritesOnly'
  <2> SUFFICES ASSUME NEW m \in Commands, writes[m] > 0
               PROVE  /\ approval'[KeyOf[m]].cmd = m
                      /\ approval'[KeyOf[m]].status \in Approved
    BY DEF ApprovedWritesOnly
  <2>1. /\ KeyOf[m] \in Keys
        /\ approval[KeyOf[m]].cmd = m
        /\ approval[KeyOf[m]].status \in Approved
    BY KeysAssumption DEF IndInv, ApprovedWritesOnly
  <2> QED
    BY <1>1, <2>1 DEF Approved
<1> QED
  BY <1>2, <1>3, <1>4 DEF IndInv

(* What is known of a caller that is on a command. *)
LEMMA CallerTyped ==
    ASSUME IndInv, NEW c \in Callers
    PROVE  /\ call[c] \in Call /\ CallOK(c)
           /\ ~At(c, "idle") => /\ call[c].cmd \in Commands
                                /\ Key(c) \in Keys
                                /\ approval[Key(c)] \in Approval
                                /\ KeyOK(Key(c))
BY KeysAssumption DEF IndInv, TypeOK, CallOK, Key

LEMMA FaultTyped ==
    ASSUME faults \in 0..MaxFaults, Fault \/ NoFault
    PROVE  faults' \in 0..MaxFaults
BY BoundsAssumption DEF Fault, NoFault

LEMMA GotoTyped ==
    ASSUME IndInv, NEW c \in Callers, NEW l \in Label, Goto(c, l)
    PROVE  /\ call' \in [Callers -> Call]
           /\ call'[c] = [call[c] EXCEPT !.at = l]
           /\ call'[c].at = l
           /\ call'[c].cmd = call[c].cmd
           /\ call'[c].stage = call[c].stage
           /\ \A d \in Callers \ {c} : call'[d] = call[d]
<1>1. call \in [Callers -> Call]
  BY DEF IndInv, TypeOK
<1> QED
  BY <1>1 DEF Goto, Call

LEMMA ReturnTyped ==
    ASSUME IndInv, NEW c \in Callers, Return(c)
    PROVE  /\ call' \in [Callers -> Call]
           /\ call'[c] = Idle
           /\ CallOK(c)'
           /\ \A d \in Callers \ {c} : call'[d] = call[d]
<1>1. call \in [Callers -> Call] /\ Idle \in Call /\ Idle.at = "idle"
  BY IdleTyped DEF IndInv, TypeOK
<1>2. call' \in [Callers -> Call] /\ call'[c] = Idle
      /\ \A d \in Callers \ {c} : call'[d] = call[d]
  BY <1>1 DEF Return
<1>3. CallOK(c)'
  BY <1>1, <1>2 DEF CallOK, At
<1> QED
  BY <1>2, <1>3

---------------------------------------------------------------------------
(* The steps of the graph.                                                 *)

LEMMA GraphKeepsInv ==
    ASSUME IndInv, NEW c \in Callers, GraphStep(c)
    PROVE  IndInv'
<1>0. call \in [Callers -> Call] /\ Idle \in Call
  BY IdleTyped DEF IndInv, TypeOK
<1>1. ASSUME NEW m \in Commands, Start(c, m) PROVE IndInv'
  <2>1. /\ call' \in [Callers -> Call]
        /\ call'[c].at = "propose" /\ call'[c].cmd = m
        /\ \A d \in Callers \ {c} : call'[d] = call[d]
    BY <1>0, <1>1 DEF Start, Call, Label, Idle
  <2>2. TypeOK'
    BY <1>1, <2>1 DEF IndInv, TypeOK, Start, store, provider, server, world
  <2>3. CallOK(c)'
    BY <2>1 DEF CallOK, At
  <2> QED
    BY <1>1, <2>1, <2>2, <2>3, CallerMoves DEF Start, store, provider, server
<1>2. ASSUME NEW m \in Commands, NEW s \in {"approved", "rejected"}, Resume(c, m, s)
      PROVE IndInv'
  <2>1. /\ call' \in [Callers -> Call]
        /\ call'[c].at = "decide" /\ call'[c].cmd = m /\ call'[c].stage = s
        /\ \A d \in Callers \ {c} : call'[d] = call[d]
    BY <1>0, <1>2 DEF Resume, Call, Label, Stage, Idle
  <2>2. TypeOK'
    BY <1>2, <2>1 DEF IndInv, TypeOK, Resume, store, provider, server, world
  <2>3. CallOK(c)'
    BY <2>1 DEF CallOK, At
  <2> QED
    BY <1>2, <2>1, <2>2, <2>3, CallerMoves DEF Resume, store, provider, server
<1>3. CASE Route(c)
  <2>1. /\ call' \in [Callers -> Call]
        /\ CallOK(c)'
        /\ \A d \in Callers \ {c} : call'[d] = call[d]
    <3>1. CASE Goto(c, "execute")
      BY <1>3, <3>1, GotoTyped, CallerTyped DEF Route, CallOK, At, Label
    <3>2. CASE Return(c)
      BY <3>2, ReturnTyped
    <3> QED
      BY <1>3, <3>1, <3>2 DEF Route
  <2>2. TypeOK'
    BY <1>3, <2>1 DEF IndInv, TypeOK, Route, store, provider, server, world
  <2> QED
    BY <1>3, <2>1, <2>2, CallerMoves DEF Route, store, provider, server
<1> QED
  BY <1>1, <1>2, <1>3 DEF GraphStep

---------------------------------------------------------------------------
(* The steps of the service.                                               *)

LEMMA AddKeepsInv ==
    ASSUME IndInv, NEW c \in Callers, Add(c)
    PROVE  IndInv'
<1>1. CASE approval[Key(c)].status # "absent"
  <2>1. Return(c) /\ UNCHANGED <<approval, audit, provider, world, faults>>
    BY <1>1 DEF Add
  <2>2. TypeOK'
    BY <2>1, ReturnTyped DEF IndInv, TypeOK, provider, server, world
  <2> QED
    BY <2>1, <2>2, ReturnTyped, CallerMoves DEF provider, server
<1>2. CASE approval[Key(c)].status = "absent"
  <2> DEFINE a == [status |-> "pending", cmd |-> call[c].cmd,
                   expires |-> call[c].now + TTL]
  <2>1. /\ At(c, "add") /\ call[c] \in Call /\ call[c].cmd \in Commands /\ Key(c) \in Keys
        /\ call \in [Callers -> Call]
    BY CallerTyped DEF Add, At, IndInv, TypeOK
  <2>2. a \in Approval
    BY <2>1, LimitAssumption DEF Approval, Status, Call
  <2>3. /\ approval' = [approval EXCEPT ![Key(c)] = a]
        /\ call' = [call EXCEPT ![c].at = "emit", ![c].stage = "proposed"]
        /\ UNCHANGED <<audit, provider, world, faults>>
    BY <1>2 DEF Add
  <2>4. /\ call' \in [Callers -> Call]
        /\ call'[c].at = "emit" /\ call'[c].cmd = call[c].cmd
        /\ \A d \in Callers \ {c} : call'[d] = call[d]
    BY <2>1, <2>3 DEF Call, Label, Stage
  <2>5. TypeOK'
    BY <2>1, <2>2, <2>3, <2>4 DEF IndInv, TypeOK, provider, server, world
  <2>6. CallOK(c)'
    BY <2>1, <2>3, <2>4 DEF CallOK, At, Mine, Key, IndInv, TypeOK
  <2>7. a.status # "absent" /\ a.cmd # NoCommand
    BY <2>1, NoneAssumption
  <2>8. approval[Key(c)].status \notin Approved
    BY <1>2 DEF Approved
  <2> HIDE DEF a
  <2> QED
    BY <1>2, <2>1, <2>2, <2>3, <2>4, <2>5, <2>6, <2>7, <2>8, ApprovalMoves
       DEF provider, server
<1> QED
  BY <1>1, <1>2

LEMMA SaveKeepsInv ==
    ASSUME IndInv, NEW c \in Callers, Save(c)
    PROVE  IndInv'
<1> DEFINE s == call[c].stage
           a == [approval[Key(c)] EXCEPT !.status = s]
<1>1. /\ call[c] \in Call /\ call[c].cmd \in Commands /\ Key(c) \in Keys
      /\ approval[Key(c)] \in Approval /\ KeyOK(Key(c)) /\ CallOK(c)
      /\ s # "proposed" /\ Mine(c)
  BY CallerTyped DEF Save, At, CallOK
<1>2. CASE approval[Key(c)].status # Expected(s)
  <2>1. Return(c) /\ UNCHANGED <<approval, audit, provider, world, faults>>
    BY <1>2 DEF Save
  <2>2. TypeOK'
    BY <2>1, ReturnTyped DEF IndInv, TypeOK, provider, server, world
  <2> QED
    BY <2>1, <2>2, ReturnTyped, CallerMoves DEF provider, server
<1>3. CASE approval[Key(c)].status = Expected(s)
  <2>1. /\ approval' = [approval EXCEPT ![Key(c)].status = s]
        /\ Goto(c, "emit")
        /\ UNCHANGED <<audit, provider, world, faults>>
    BY <1>3 DEF Save
  <2>2. a \in Approval /\ a.status = s /\ a.cmd = approval[Key(c)].cmd
    BY <1>1 DEF Approval, Call, Stage, Status
  <2>3. approval' = [approval EXCEPT ![Key(c)] = a]
    BY <1>1, <2>1 DEF IndInv, TypeOK
  <2>4. /\ call' \in [Callers -> Call]
        /\ call'[c].at = "emit" /\ call'[c].cmd = call[c].cmd
        /\ \A d \in Callers \ {c} : call'[d] = call[d]
    BY <2>1, GotoTyped DEF Label
  <2>5. TypeOK'
    BY <1>1, <2>1, <2>2, <2>3, <2>4 DEF IndInv, TypeOK, provider, server, world
  <2>6. CallOK(c)'
    <3>1. approval'[Key(c)] = a /\ Key(c)' = Key(c)
      BY <1>1, <2>3, <2>4 DEF IndInv, TypeOK, Key
    <3> QED
      BY <1>1, <2>2, <2>4, <3>1 DEF CallOK, At, Mine, Call, Stage
  <2>7. a.status # "absent" /\ a.cmd # NoCommand
    BY <1>1, <2>2, NoneAssumption DEF Call, Stage, Mine
  <2>8. approval[Key(c)].status \in Approved => a.status \in Approved
    BY <1>1, <1>3, <2>2 DEF Approved, Expected, Call, Stage
  <2> HIDE DEF a
  <2> QED
    BY <1>1, <2>1, <2>2, <2>3, <2>4, <2>5, <2>6, <2>7, <2>8, ApprovalMoves
       DEF provider, server
<1> QED
  BY <1>2, <1>3

LEMMA ServiceKeepsInv ==
    ASSUME IndInv, NEW c \in Callers, ServiceStep(c)
    PROVE  IndInv'
<1>1. CASE RequireConnectionRevision(c)
  <2>1. /\ call' \in [Callers -> Call]
        /\ CallOK(c)'
        /\ \A d \in Callers \ {c} : call'[d] = call[d]
    <3>1. CASE Return(c)
      BY <3>1, ReturnTyped
    <3>2. CASE At(c, "propose") /\ Goto(c, "lookup")
      BY <3>2, GotoTyped, CallerTyped DEF CallOK, At, Label
    <3>3. CASE At(c, "decide") /\ Goto(c, "read")
      BY <3>3, GotoTyped, CallerTyped DEF CallOK, At, Label
    <3>4. CASE At(c, "execute") /\ Goto(c, "check")
      BY <3>4, GotoTyped, CallerTyped DEF CallOK, At, Label
    <3> QED
      BY <1>1, <3>1, <3>2, <3>3, <3>4 DEF RequireConnectionRevision, At
  <2>2. faults' \in 0..MaxFaults
    BY <1>1, FaultTyped DEF IndInv, TypeOK, RequireConnectionRevision
  <2>3. TypeOK'
    BY <1>1, <2>1, <2>2
       DEF IndInv, TypeOK, RequireConnectionRevision, store, provider, server, world
  <2> QED
    BY <1>1, <2>1, <2>3, CallerMoves DEF RequireConnectionRevision, store, provider, server
<1>2. CASE Lookup(c)
  <2>1. /\ call' \in [Callers -> Call]
        /\ CallOK(c)'
        /\ \A d \in Callers \ {c} : call'[d] = call[d]
    <3>1. CASE Return(c)
      BY <3>1, ReturnTyped
    <3>2. CASE Goto(c, "route")
      BY <1>2, <3>2, GotoTyped, CallerTyped DEF Lookup, CallOK, At, Label
    <3>3. CASE call' = [call EXCEPT ![c].at = "add", ![c].now = clock]
      <4>1. call \in [Callers -> Call] /\ clock \in Nat /\ call[c].cmd \in Commands
        BY <1>2, CallerTyped, BoundsAssumption DEF Lookup, At, IndInv, TypeOK
      <4> QED
        BY <3>3, <4>1 DEF CallOK, At, Call, Label
    <3> QED
      BY <1>2, <3>1, <3>2, <3>3 DEF Lookup
  <2>2. TypeOK'
    BY <1>2, <2>1 DEF IndInv, TypeOK, Lookup, store, provider, server, world
  <2> QED
    BY <1>2, <2>1, <2>2, CallerMoves DEF Lookup, store, provider, server
<1>3. CASE Add(c)
  BY <1>3, AddKeepsInv
<1>4. CASE Read(c)
  <2>1. /\ call' \in [Callers -> Call]
        /\ CallOK(c)'
        /\ \A d \in Callers \ {c} : call'[d] = call[d]
    <3>1. CASE Return(c)
      BY <3>1, ReturnTyped
    <3>2. CASE Mine(c) /\ approval[Key(c)].status = "pending" /\ Goto(c, "save")
      <4>1. call[c].cmd \in Commands /\ call[c].stage \in {"approved", "rejected"}
        BY <1>4, CallerTyped DEF Read, At, CallOK
      <4>2. UNCHANGED approval
        BY <1>4 DEF Read, store
      <4> QED
        BY <3>2, <4>1, <4>2, GotoTyped DEF CallOK, At, Label, Mine, Key
    <3> QED
      BY <1>4, <3>1, <3>2 DEF Read
  <2>2. TypeOK'
    BY <1>4, <2>1 DEF IndInv, TypeOK, Read, store, provider, server, world
  <2> QED
    BY <1>4, <2>1, <2>2, CallerMoves DEF Read, store, provider, server
<1>5. CASE Check(c)
  <2>1. /\ call' \in [Callers -> Call]
        /\ CallOK(c)'
        /\ \A d \in Callers \ {c} : call'[d] = call[d]
    <3>1. CASE Return(c)
      BY <3>1, ReturnTyped
    <3>2. CASE Mine(c) /\ approval[Key(c)].status = "approved" /\ Goto(c, "lock")
      <4>1. call[c].cmd \in Commands
        BY <1>5, CallerTyped DEF Check, At
      <4>2. UNCHANGED approval
        BY <1>5 DEF Check, store
      <4> QED
        BY <3>2, <4>1, <4>2, GotoTyped DEF CallOK, At, Label, Mine, Key, Approved
    <3> QED
      BY <1>5, <3>1, <3>2 DEF Check
  <2>2. TypeOK'
    BY <1>5, <2>1 DEF IndInv, TypeOK, Check, store, provider, server, world
  <2> QED
    BY <1>5, <2>1, <2>2, CallerMoves DEF Check, store, provider, server
<1>6. CASE Save(c)
  BY <1>6, SaveKeepsInv
<1>7. CASE Emit(c)
  <2>0. At(c, "emit") /\ call[c] \in Call /\ call[c].cmd \in Commands /\ Key(c) \in Keys
    BY <1>7, CallerTyped DEF Emit, At
  <2>a. UNCHANGED approval /\ Mine(c) /\ approval[Key(c)].status # "absent"
    BY <1>7, CallerTyped DEF Emit, At, CallOK
  <2>1. /\ call' \in [Callers -> Call]
        /\ CallOK(c)'
        /\ \A d \in Callers \ {c} : call'[d] = call[d]
    <3>1. CASE Return(c)
      BY <3>1, ReturnTyped
    <3>2. CASE Goto(c, "verify")
      BY <2>0, <2>a, <3>2, GotoTyped DEF CallOK, At, Label, Mine, Key
    <3>3. CASE Goto(c, "route")
      BY <2>0, <3>3, GotoTyped DEF CallOK, At, Label
    <3> QED
      BY <1>7, <3>1, <3>2, <3>3 DEF Emit
  <2>2. audit' \in [Keys -> Seq(Stage)]
    <3>1. call[c].stage \in Stage /\ audit \in [Keys -> Seq(Stage)]
      BY <2>0 DEF Call, IndInv, TypeOK
    <3> QED
      BY <1>7, <2>0, <3>1 DEF Emit
  <2>3. TypeOK'
    BY <1>7, <2>1, <2>2 DEF IndInv, TypeOK, Emit, provider, server, world
  <2> QED
    BY <1>7, <2>1, <2>3, CallerMoves DEF Emit, provider, server
<1> QED
  BY <1>1, <1>2, <1>3, <1>4, <1>5, <1>6, <1>7 DEF ServiceStep

---------------------------------------------------------------------------
(* The steps of the provider.                                              *)

(* A caller that performs its command has the approval for it. *)
LEMMA WriteMoves ==
    ASSUME IndInv, NEW c \in Callers, At(c, "perform"), Performed(c), UNCHANGED approval,
           TypeOK', CallOK(c)', \A d \in Callers \ {c} : call'[d] = call[d]
    PROVE  IndInv'
<1>1. \A k \in Keys : KeyOK(k)'
  BY DEF IndInv, KeyOK
<1>2. \A d \in Callers : CallOK(d)'
  <2> SUFFICES ASSUME NEW d \in Callers, d # c PROVE CallOK(d)'
    OBVIOUS
  <2> QED
    BY DEF IndInv, CallOK, At, Mine, Key
<1>3. ApprovedWritesOnly'
  <2>1. /\ call[c].cmd \in Commands /\ writes \in [Commands -> Nat]
        /\ Mine(c) /\ approval[Key(c)].status \in Approved
    BY CallerTyped DEF CallOK, At, IndInv, TypeOK
  <2>2. \A m \in Commands \ {call[c].cmd} : writes'[m] = writes[m]
    BY <2>1 DEF Performed
  <2> QED
    BY <2>1, <2>2 DEF IndInv, ApprovedWritesOnly, Mine, Key
<1> QED
  BY <1>1, <1>2, <1>3 DEF IndInv

LEMMA PerformedTyped ==
    ASSUME IndInv, NEW c \in Callers, At(c, "perform"), Performed(c)
    PROVE  /\ writes' \in [Commands -> Nat]
           /\ shown' \subseteq Commands /\ disturbed' \subseteq Commands
<1>1. /\ call[c].cmd \in Commands /\ writes \in [Commands -> Nat]
      /\ shown \subseteq Commands /\ disturbed \subseteq Commands
  BY CallerTyped DEF At, IndInv, TypeOK
<1> QED
  BY <1>1 DEF Performed

LEMMA AnswerTyped ==
    ASSUME IndInv, NEW c \in Callers, NEW r \in BOOLEAN, At(c, "perform"), Answer(c, r),
           UNCHANGED approval
    PROVE  /\ call' \in [Callers -> Call]
           /\ CallOK(c)'
           /\ \A d \in Callers \ {c} : call'[d] = call[d]
           /\ lock' \in Callers \cup {NoCaller}
<1>0. call \in [Callers -> Call]
  BY DEF IndInv, TypeOK
<1>1. call[c].cmd \in Commands /\ Mine(c) /\ approval[Key(c)].status \in Approved
  BY CallerTyped DEF CallOK, At
<1>2. /\ call' \in [Callers -> Call]
      /\ call'[c].at = "save" /\ call'[c].cmd = call[c].cmd /\ call'[c].stage = "executed"
      /\ \A d \in Callers \ {c} : call'[d] = call[d]
  <2>1. call' = [call EXCEPT ![c] = [call[c] EXCEPT !.at = "save", !.stage = "executed",
                                                    !.replay = r]]
    BY <1>0 DEF Answer
  <2>2. [call[c] EXCEPT !.at = "save", !.stage = "executed", !.replay = r] \in Call
    BY <1>0 DEF Call, Label, Stage
  <2> QED
    BY <1>0, <2>1, <2>2 DEF Call
<1>3. CallOK(c)'
  BY <1>1, <1>2 DEF CallOK, At, Mine, Key, Approved
<1> QED
  BY <1>2, <1>3 DEF Answer

LEMMA PerformKeepsInv ==
    ASSUME IndInv, NEW c \in Callers, Perform(c) \/ PerformFails(c)
    PROVE  IndInv'
<1>1. CASE Perform(c)
  <2>1. At(c, "perform") /\ Performed(c) /\ Answer(c, FALSE) /\ UNCHANGED approval
    BY <1>1 DEF Perform, store
  <2>2. /\ call' \in [Callers -> Call] /\ CallOK(c)'
        /\ \A d \in Callers \ {c} : call'[d] = call[d]
        /\ lock' \in Callers \cup {NoCaller}
    BY <2>1, AnswerTyped
  <2>3. executions' \in [Keys -> Commands \cup {NoCommand}]
    BY <1>1, <2>1, CallerTyped DEF Perform, At, IndInv, TypeOK
  <2>4. TypeOK'
    BY <1>1, <2>1, <2>2, <2>3, PerformedTyped DEF IndInv, TypeOK, Perform, store, world
  <2> QED
    BY <2>1, <2>2, <2>4, WriteMoves
<1>2. CASE PerformFails(c)
  <2>1. /\ At(c, "perform") /\ UNCHANGED <<store, executions, world>>
        /\ call \in [Callers -> Call] /\ call[c] \in Call
    BY <1>2 DEF PerformFails, IndInv, TypeOK
  <2>2. faults' \in 0..MaxFaults
    BY <1>2, FaultTyped DEF PerformFails, IndInv, TypeOK
  <2>3. /\ call' \in [Callers -> Call] /\ CallOK(c)'
        /\ \A d \in Callers \ {c} : call'[d] = call[d]
        /\ lock' \in Callers \cup {NoCaller}
    <3>1. CASE Fail(c)
      BY <3>1, ReturnTyped DEF Fail
    <3>2. CASE /\ call[c].tries + 1 < MaxAttempts
               /\ call' = [call EXCEPT ![c].tries = @ + 1]
               /\ UNCHANGED lock
      <4>1. call[c].tries + 1 \in 0..(MaxAttempts - 1)
        BY <2>1, <3>2, LimitAssumption DEF Call
      <4>2. /\ call' \in [Callers -> Call]
            /\ call'[c].at = call[c].at /\ call'[c].cmd = call[c].cmd
            /\ call'[c].stage = call[c].stage
            /\ \A d \in Callers \ {c} : call'[d] = call[d]
        BY <2>1, <3>2, <4>1 DEF Call
      <4>3. CallOK(c)'
        BY <2>1, <4>2, CallerTyped DEF CallOK, At, Mine, Key, store
      <4> QED
        BY <3>2, <4>2, <4>3 DEF IndInv, TypeOK
    <3> QED
      BY <1>2, <3>1, <3>2 DEF PerformFails
  <2>4. CASE UNCHANGED server
    <3>1. TypeOK'
      BY <2>1, <2>2, <2>3, <2>4 DEF IndInv, TypeOK, store, world, server
    <3> QED
      BY <2>1, <2>3, <2>4, <3>1, CallerMoves DEF store, server
  <2>5. CASE Performed(c) /\ lost' = [lost EXCEPT ![call[c].cmd] = @ + 1]
    <3>1. lost' \in [Commands -> Nat]
      BY <2>1, <2>5, CallerTyped DEF At, IndInv, TypeOK
    <3>2. TypeOK'
      BY <2>1, <2>2, <2>3, <2>5, <3>1, PerformedTyped DEF IndInv, TypeOK, store, world
    <3> QED
      BY <2>1, <2>3, <2>5, <3>2, WriteMoves DEF store
  <2> QED
    BY <1>2, <2>4, <2>5 DEF PerformFails
<1> QED
  BY <1>1, <1>2

LEMMA ProviderKeepsInv ==
    ASSUME IndInv, NEW c \in Callers, ProviderStep(c)
    PROVE  IndInv'
<1>1. CASE Acquire(c)
  <2>1. At(c, "lock") /\ Goto(c, "recheck") /\ lock' = c /\ UNCHANGED approval
    BY <1>1 DEF Acquire, store
  <2>2. /\ call' \in [Callers -> Call]
        /\ CallOK(c)'
        /\ \A d \in Callers \ {c} : call'[d] = call[d]
    BY <2>1, GotoTyped, CallerTyped DEF CallOK, At, Label, Mine, Key
  <2>3. TypeOK'
    BY <1>1, <2>1, <2>2 DEF IndInv, TypeOK, Acquire, store, server, world
  <2> QED
    BY <1>1, <2>2, <2>3, CallerMoves DEF Acquire, store, server
<1>2. CASE Recheck(c)
  <2>1. /\ call' \in [Callers -> Call]
        /\ CallOK(c)'
        /\ \A d \in Callers \ {c} : call'[d] = call[d]
        /\ lock' \in Callers \cup {NoCaller}
    <3>1. CASE Fail(c)
      BY <3>1, ReturnTyped DEF Fail
    <3>2. CASE Goto(c, "perform") /\ UNCHANGED lock
      <4>1. At(c, "recheck") /\ UNCHANGED approval
        BY <1>2 DEF Recheck, store
      <4> QED
        BY <3>2, <4>1, GotoTyped, CallerTyped DEF CallOK, At, Label, Mine, Key, IndInv, TypeOK
    <3> QED
      BY <1>2, <3>1, <3>2 DEF Recheck
  <2>2. faults' \in 0..MaxFaults
    BY <1>2, FaultTyped DEF IndInv, TypeOK, Recheck
  <2>3. TypeOK'
    BY <1>2, <2>1, <2>2 DEF IndInv, TypeOK, Recheck, store, server, world
  <2> QED
    BY <1>2, <2>1, <2>3, CallerMoves DEF Recheck, store, server
<1>3. CASE Replay(c)
  <2>1. At(c, "perform") /\ UNCHANGED approval
    BY <1>3 DEF Replay, store
  <2>2. /\ call' \in [Callers -> Call]
        /\ CallOK(c)'
        /\ \A d \in Callers \ {c} : call'[d] = call[d]
        /\ lock' \in Callers \cup {NoCaller}
    <3>1. CASE Fail(c)
      BY <3>1, ReturnTyped DEF Fail
    <3>2. CASE Answer(c, TRUE)
      BY <2>1, <3>2, AnswerTyped
    <3> QED
      BY <1>3, <3>1, <3>2 DEF Replay
  <2>3. TypeOK'
    BY <1>3, <2>2 DEF IndInv, TypeOK, Replay, store, server, world
  <2> QED
    BY <1>3, <2>2, <2>3, CallerMoves DEF Replay, store, server
<1>4. CASE Verify(c)
  <2>0. /\ At(c, "verify") /\ UNCHANGED approval /\ call \in [Callers -> Call]
    BY <1>4 DEF Verify, store, IndInv, TypeOK
  <2>1. /\ call' \in [Callers -> Call]
        /\ \A d \in Callers \ {c} : call'[d] = call[d]
        /\ CallOK(c)'
    <3>1. CASE Return(c)
      BY <3>1, ReturnTyped
    <3>2. CASE call' = [call EXCEPT ![c].at = "save", ![c].stage = "verified"]
      <4>1. /\ call' \in [Callers -> Call]
            /\ call'[c].at = "save" /\ call'[c].cmd = call[c].cmd
            /\ call'[c].stage = "verified"
            /\ \A d \in Callers \ {c} : call'[d] = call[d]
        BY <2>0, <3>2 DEF Call, Label, Stage
      <4>2. call[c].cmd \in Commands /\ Mine(c) /\ approval[Key(c)].status # "absent"
        BY <2>0, CallerTyped DEF CallOK, At
      <4> QED
        BY <2>0, <4>1, <4>2 DEF CallOK, At, Mine, Key
    <3> QED
      BY <1>4, <3>1, <3>2 DEF Verify
  <2>2. faults' \in 0..MaxFaults /\ disturbed' \subseteq Commands
    BY <1>4, <2>0, FaultTyped, CallerTyped DEF IndInv, TypeOK, Verify, At
  <2>3. TypeOK'
    BY <1>4, <2>1, <2>2 DEF IndInv, TypeOK, Verify, store, provider, server, world
  <2> QED
    BY <1>4, <2>1, <2>3, CallerMoves DEF Verify, store, provider, server
<1> QED
  BY <1>1, <1>2, <1>3, <1>4, PerformKeepsInv DEF ProviderStep
---------------------------------------------------------------------------
(* The invariant, and what follows from it.                                *)

LEMMA InitInv == Init => IndInv
<1> SUFFICES ASSUME Init PROVE IndInv
  OBVIOUS
<1>1. TypeOK
  <2>1. <<>> \in Seq(Stage)
    OBVIOUS
  <2> QED
    BY <2>1, IdleTyped, BoundsAssumption DEF Init, TypeOK
<1>2. \A k \in Keys : KeyOK(k)
  BY DEF Init, KeyOK, NoApproval
<1>3. \A c \in Callers : CallOK(c)
  BY DEF Init, CallOK, At, Idle
<1>4. ApprovedWritesOnly
  BY DEF Init, ApprovedWritesOnly
<1> QED
  BY <1>1, <1>2, <1>3, <1>4 DEF IndInv

(* A step of none of the callers: the server, the clock, a stutter. *)
LEMMA OthersKeepInv ==
    ASSUME IndInv,
           ReviseConnection \/ Tick \/ UNCHANGED vars \/ \E m \in Commands : ServerChanges(m)
    PROVE  IndInv'
<1>1. /\ UNCHANGED <<approval, audit, executions, writes, lost, lock, call, faults>>
      /\ shown' \subseteq Commands /\ disturbed' \subseteq Commands
  BY DEF ReviseConnection, Tick, ServerChanges, vars, store, provider, server, IndInv, TypeOK
<1>2. revision' \in 0..MaxRevision /\ clock' \in 0..MaxTime
  BY BoundsAssumption DEF IndInv, TypeOK, ReviseConnection, Tick, ServerChanges, vars, world
<1>3. TypeOK'
  BY <1>1, <1>2 DEF IndInv, TypeOK
<1> QED
  BY <1>1, <1>3 DEF IndInv, KeyOK, CallOK, At, Mine, Key, ApprovedWritesOnly

LEMMA NextKeepsInv == IndInv /\ [Next]_vars => IndInv'
<1> SUFFICES ASSUME IndInv, [Next]_vars PROVE IndInv'
  OBVIOUS
<1>1. ASSUME NEW c \in Callers, GraphStep(c) \/ ServiceStep(c) \/ ProviderStep(c)
      PROVE  IndInv'
  BY <1>1, GraphKeepsInv, ServiceKeepsInv, ProviderKeepsInv
<1> QED
  BY <1>1, OthersKeepInv DEF Next

(* The inductive invariant holds in every state of the workflow. *)
THEOREM IndInvHolds == Spec => []IndInv
BY InitInv, NextKeepsInv, PTL DEF Spec

(* Approvals, audit trails, records and callers keep their types, and a    *)
(* request is never sent more than maximum_attempts times.                 *)
THEOREM TypeCorrect == Spec => []TypeOK
<1>1. IndInv => TypeOK
  BY DEF IndInv
<1> QED
  BY <1>1, IndInvHolds, PTL

(* execute_approved and the adapters: whatever the server carried out has  *)
(* the approval of its own digest, granted before.                         *)
THEOREM ApprovedWrites == Spec => []ApprovedWritesOnly
<1>1. IndInv => ApprovedWritesOnly
  BY DEF IndInv
<1> QED
  BY <1>1, IndInvHolds, PTL

---------------------------------------------------------------------------
(* Only add and save change an approval.                                   *)

Forward == \A k \in Keys :
              approval'[k].status # approval[k].status =>
                 /\ Rank(approval'[k].status) = Rank(approval[k].status) + 1
                 /\ approval[k].status # "rejected"

LEMMA StepsGoForward == IndInv /\ [Next]_vars => Forward
<1> SUFFICES ASSUME IndInv, [Next]_vars PROVE Forward
  OBVIOUS
<1>1. CASE UNCHANGED approval
  BY <1>1 DEF Forward
<1>2. ASSUME NEW c \in Callers, Add(c), approval[Key(c)].status = "absent" PROVE Forward
  <2>1. /\ approval' = [approval EXCEPT ![Key(c)] =
                            [status |-> "pending", cmd |-> call[c].cmd,
                             expires |-> call[c].now + TTL]]
        /\ approval \in [Keys -> Approval]
    BY <1>2 DEF Add, IndInv, TypeOK
  <2>2. Rank("pending") = Rank("absent") + 1
    BY DEF Rank
  <2>3. \A k \in Keys : approval'[k].status # approval[k].status =>
           approval'[k].status = "pending" /\ approval[k].status = "absent"
    BY <1>2, <2>1
  <2> QED
    BY <2>2, <2>3 DEF Forward
<1>3. ASSUME NEW c \in Callers, Save(c), approval[Key(c)].status = Expected(call[c].stage)
      PROVE  Forward
  <2>1. /\ approval' = [approval EXCEPT ![Key(c)].status = call[c].stage]
        /\ approval \in [Keys -> Approval]
    BY <1>3 DEF Save, IndInv, TypeOK
  <2>2. call[c].stage \in Stage \ {"proposed"}
    BY <1>3, CallerTyped DEF Save, At, CallOK, Call
  <2>3. /\ Rank(call[c].stage) = Rank(Expected(call[c].stage)) + 1
        /\ Expected(call[c].stage) # "rejected"
    BY <2>2 DEF Rank, Expected, Stage
  <2>4. \A k \in Keys : approval'[k].status # approval[k].status =>
           approval'[k].status = call[c].stage
           /\ approval[k].status = Expected(call[c].stage)
    BY <1>3, <2>1 DEF Approval
  <2> QED
    BY <2>3, <2>4 DEF Forward
<1>4. ASSUME NEW c \in Callers, GraphStep(c) \/ ServiceStep(c) \/ ProviderStep(c)
      PROVE  \/ UNCHANGED approval
             \/ Add(c) /\ approval[Key(c)].status = "absent"
             \/ Save(c) /\ approval[Key(c)].status = Expected(call[c].stage)
  BY <1>4 DEF GraphStep, ServiceStep, ProviderStep, Start, Resume, Route,
     RequireConnectionRevision, Lookup, Add, Read, Check, Save, Emit, Acquire,
     Recheck, Replay, Perform, PerformFails, Verify, store
<1>5. \/ ReviseConnection \/ Tick \/ UNCHANGED vars
      \/ \E m \in Commands : ServerChanges(m)
      => UNCHANGED approval
  BY DEF ReviseConnection, Tick, ServerChanges, vars, store
<1> QED
  BY <1>1, <1>2, <1>3, <1>4, <1>5 DEF Next

(* save with the status it expects: of two decisions, or two executions,   *)
(* that read the same approval one is refused, and none goes back.         *)
THEOREM DecidedForGood == Spec => DecidedOnce
<1>1. IndInv /\ [Next]_vars => [Forward]_vars
  BY StepsGoForward
<1>2. Spec => [][Forward]_vars
  BY <1>1, IndInvHolds, PTL DEF Spec
<1> QED
  BY <1>2 DEF DecidedOnce, Forward

---------------------------------------------------------------------------
(* The record of keys, and the answers that were lost.                     *)

(* What was carried out without a record was not answered. *)
Recorded ==
    \A m \in Commands :
       /\ writes[m] <= 1 + lost[m]
       /\ executions[KeyOf[m]] # m => writes[m] <= lost[m]

LEMMA StepsRecord == IndInv /\ [Next]_vars /\ Recorded => Recorded'
<1> SUFFICES ASSUME IndInv, [Next]_vars, Recorded PROVE Recorded'
  OBVIOUS
<1>0. /\ writes \in [Commands -> Nat] /\ lost \in [Commands -> Nat]
      /\ executions \in [Keys -> Commands \cup {NoCommand}]
      /\ \A m \in Commands : KeyOf[m] \in Keys
  BY KeysAssumption DEF IndInv, TypeOK
<1>1. CASE UNCHANGED <<executions, writes, lost>>
  BY <1>1 DEF Recorded
<1>2. ASSUME NEW c \in Callers, Perform(c) PROVE Recorded'
  <2>1. /\ call[c].cmd \in Commands /\ Key(c) = KeyOf[call[c].cmd]
        /\ executions[Key(c)] = NoCommand
        /\ executions' = [executions EXCEPT ![Key(c)] = call[c].cmd]
        /\ writes' = [writes EXCEPT ![call[c].cmd] = @ + 1]
        /\ lost' = lost
    BY <1>2, CallerTyped DEF Perform, Performed, At, Key
  <2>2. /\ writes'[call[c].cmd] <= 1 + lost[call[c].cmd]
        /\ executions'[KeyOf[call[c].cmd]] = call[c].cmd
    BY <1>0, <2>1, NoneAssumption DEF Recorded
  <2>3. \A m \in Commands \ {call[c].cmd} :
           /\ writes'[m] = writes[m]
           /\ executions'[KeyOf[m]] # m => executions[KeyOf[m]] # m
           /\ executions'[KeyOf[m]] = m => executions[KeyOf[m]] = m
    BY <1>0, <2>1, NoneAssumption
  <2> QED
    BY <2>1, <2>2, <2>3 DEF Recorded
<1>3. ASSUME NEW c \in Callers, PerformFails(c), Performed(c),
             lost' = [lost EXCEPT ![call[c].cmd] = @ + 1]
      PROVE  Recorded'
  <2>1. /\ call[c].cmd \in Commands
        /\ writes' = [writes EXCEPT ![call[c].cmd] = @ + 1]
        /\ executions' = executions
    BY <1>3, CallerTyped DEF PerformFails, Performed, At
  <2>2. \A m \in Commands :
           IF m = call[c].cmd THEN writes'[m] = writes[m] + 1 /\ lost'[m] = lost[m] + 1
           ELSE writes'[m] = writes[m] /\ lost'[m] = lost[m]
    BY <1>0, <1>3, <2>1
  <2>3. \A m \in Commands : writes[m] \in Nat /\ lost[m] \in Nat
    BY <1>0
  <2> QED
    BY <2>1, <2>2, <2>3 DEF Recorded
<1>4. ASSUME NEW c \in Callers, GraphStep(c) \/ ServiceStep(c) \/ ProviderStep(c)
      PROVE  \/ Perform(c) \/ UNCHANGED <<executions, writes, lost>>
             \/ /\ PerformFails(c) /\ Performed(c)
                /\ lost' = [lost EXCEPT ![call[c].cmd] = @ + 1]
  BY <1>4 DEF GraphStep, ServiceStep, ProviderStep, Start, Resume, Route,
     RequireConnectionRevision, Lookup, Add, Read, Check, Save, Emit, Acquire,
     Recheck, Replay, PerformFails, Verify, provider, server
<1>5. \/ ReviseConnection \/ Tick \/ UNCHANGED vars
      \/ \E m \in Commands : ServerChanges(m)
      => UNCHANGED <<executions, writes, lost>>
  BY DEF ReviseConnection, Tick, ServerChanges, vars, provider, server
<1> QED
  BY <1>1, <1>2, <1>3, <1>4, <1>5 DEF Next

(* The adapters' lock and record of keys: whoever executes a command and   *)
(* however often, it is carried out once, and once more for every answer   *)
(* that was lost after the server had acted.                               *)
THEOREM CarriedOutOnce == Spec => []WrittenOnce
<1>1. Init => Recorded
  <2> SUFFICES ASSUME Init, NEW m \in Commands
               PROVE  writes[m] <= 1 + lost[m] /\ writes[m] <= lost[m]
    BY DEF Recorded
  <2>1. writes[m] = 0 /\ lost[m] = 0
    BY DEF Init
  <2> QED
    BY <2>1
<1>2. Recorded => WrittenOnce
  BY DEF Recorded, WrittenOnce
<1> QED
  BY <1>1, <1>2, StepsRecord, IndInvHolds, PTL DEF Spec

---------------------------------------------------------------------------
(* The audit trail.  A stage is saved first and audited by the same caller *)
(* later: in between the trail lags by the stages about to be emitted.     *)

Told(q) == {q[i] : i \in DOMAIN q}
Once(q) == \A i, j \in DOMAIN q : q[i] = q[j] => i = j

Emitting(c, k) == At(c, "emit") /\ Key(c) = k

AuditOK(k) ==
    LET reached == History(approval[k].status) IN
    /\ Once(audit[k])
    /\ Told(audit[k]) \subseteq reached
    /\ \A s \in reached : \/ s \in Told(audit[k])
                          \/ \E c \in Callers : Emitting(c, k) /\ call[c].stage = s
    /\ \A c \in Callers : Emitting(c, k) =>
          call[c].stage \in reached /\ call[c].stage \notin Told(audit[k])
    /\ \A c, d \in Callers :
          Emitting(c, k) /\ Emitting(d, k) /\ call[c].stage = call[d].stage => c = d

AuditFollows == \A k \in Keys : AuditOK(k)

(* The three things a caller's step does to approvals and trails. *)
Saves(c) ==
    LET s == call'[c].stage
        old == History(approval[Key(c)].status)
        new == History(approval'[Key(c)].status)
    IN
    /\ call[c].at \in {"add", "save"} /\ call'[c].at = "emit"
    /\ call'[c].cmd = call[c].cmd
    /\ audit' = audit
    /\ \A k \in Keys \ {Key(c)} : approval'[k] = approval[k]
    /\ new = old \cup {s} /\ s \notin old

Audits(c) ==
    /\ At(c, "emit") /\ call'[c].at # "emit"
    /\ audit' = [audit EXCEPT ![Key(c)] = Append(@, call[c].stage)]
    /\ approval' = approval

Silent(c) ==
    /\ ~At(c, "emit") /\ call'[c].at # "emit"
    /\ UNCHANGED <<approval, audit>>

LEMMA StepKinds ==
    ASSUME IndInv, NEW c \in Callers, GraphStep(c) \/ ServiceStep(c) \/ ProviderStep(c)
    PROVE  /\ Saves(c) \/ Audits(c) \/ Silent(c)
           /\ \A d \in Callers \ {c} : call'[d] = call[d]
<1>0. call \in [Callers -> Call] /\ call[c] \in Call /\ Idle.at = "idle"
  BY IdleTyped DEF IndInv, TypeOK
<1>1. \A d \in Callers \ {c} : call'[d] = call[d]
  BY <1>0 DEF GraphStep, ServiceStep, ProviderStep, Start, Resume, Route,
     RequireConnectionRevision, Lookup, Add, Read, Check, Save, Emit, Acquire,
     Recheck, Replay, Perform, PerformFails, Verify, Goto, Return, Fail, Answer
<1>2. CASE Add(c) /\ approval[Key(c)].status = "absent"
  <2>1. /\ At(c, "add") /\ Key(c) \in Keys /\ approval \in [Keys -> Approval]
        /\ approval' = [approval EXCEPT ![Key(c)] =
                            [status |-> "pending", cmd |-> call[c].cmd,
                             expires |-> call[c].now + TTL]]
        /\ call' = [call EXCEPT ![c].at = "emit", ![c].stage = "proposed"]
        /\ audit' = audit
    BY <1>2, CallerTyped DEF Add, At, IndInv, TypeOK
  <2>2. call'[c] = [call[c] EXCEPT !.at = "emit", !.stage = "proposed"]
    BY <1>0, <2>1
  <2>3. /\ call'[c].at = "emit" /\ call'[c].stage = "proposed"
        /\ call'[c].cmd = call[c].cmd
    BY <1>0, <2>2 DEF Call
  <2>4. /\ approval'[Key(c)].status = "pending"
        /\ \A k \in Keys \ {Key(c)} : approval'[k] = approval[k]
    BY <2>1
  <2>5. /\ History("pending") = History("absent") \cup {"proposed"}
        /\ "proposed" \notin History("absent")
    BY DEF History
  <2> QED
    BY <1>1, <1>2, <2>1, <2>3, <2>4, <2>5 DEF Saves, At
<1>3. CASE Save(c) /\ approval[Key(c)].status = Expected(call[c].stage)
  <2>1. /\ At(c, "save") /\ Key(c) \in Keys /\ approval \in [Keys -> Approval]
        /\ call[c].stage \in Stage \ {"proposed"}
        /\ approval' = [approval EXCEPT ![Key(c)].status = call[c].stage]
        /\ Goto(c, "emit") /\ audit' = audit
    BY <1>0, <1>3, CallerTyped DEF Save, At, CallOK, Call, IndInv, TypeOK
  <2>2. /\ call'[c].at = "emit" /\ call'[c].stage = call[c].stage
        /\ call'[c].cmd = call[c].cmd
    BY <2>1, GotoTyped DEF Label
  <2>3. /\ History(call[c].stage) = History(Expected(call[c].stage)) \cup {call[c].stage}
        /\ call[c].stage \notin History(Expected(call[c].stage))
    BY <2>1 DEF Stage, History, Expected
  <2>4. /\ approval'[Key(c)].status = call[c].stage
        /\ \A k \in Keys \ {Key(c)} : approval'[k] = approval[k]
    BY <2>1 DEF Approval
  <2> QED
    BY <1>1, <1>3, <2>1, <2>2, <2>3, <2>4 DEF Saves, At
<1>4. CASE Emit(c)
  <2>1. call'[c].at # "emit"
    BY <1>0, <1>4 DEF Emit, Goto, Return, Call
  <2> QED
    BY <1>1, <1>4, <2>1 DEF Emit, Audits
<1>5. CASE \/ GraphStep(c) \/ ProviderStep(c)
           \/ RequireConnectionRevision(c) \/ Lookup(c) \/ Read(c) \/ Check(c)
           \/ Add(c) /\ approval[Key(c)].status # "absent"
           \/ Save(c) /\ approval[Key(c)].status # Expected(call[c].stage)
  <2>1. ~At(c, "emit") /\ UNCHANGED <<approval, audit>>
    BY <1>5 DEF GraphStep, ProviderStep, Start, Resume, Route,
       RequireConnectionRevision, Lookup, Add, Read, Check, Save, Acquire,
       Recheck, Replay, Perform, PerformFails, Verify, store, At
  <2>2. call'[c].at # "emit"
    <3>1. ASSUME NEW l, l # "emit", Goto(c, l) PROVE call'[c].at # "emit"
      BY <1>0, <3>1 DEF Goto, Call
    <3>2. ASSUME Return(c) PROVE call'[c].at # "emit"
      BY <1>0, <3>2 DEF Return
    <3>3. CASE GraphStep(c)
      <4>1. ASSUME NEW m \in Commands, Start(c, m) PROVE call'[c].at # "emit"
        BY <1>0, <4>1 DEF Start, Idle
      <4>2. ASSUME NEW m \in Commands, NEW s \in {"approved", "rejected"}, Resume(c, m, s)
            PROVE  call'[c].at # "emit"
        BY <1>0, <4>2 DEF Resume, Idle
      <4>3. CASE Route(c)
        BY <3>1, <3>2, <4>3 DEF Route
      <4> QED
        BY <3>3, <4>1, <4>2, <4>3 DEF GraphStep
    <3>4. CASE ProviderStep(c)
      BY <1>0, <3>1, <3>2, <3>4 DEF ProviderStep, Acquire, Recheck, Replay, Perform,
         PerformFails, Verify, Fail, Answer, At, Call
    <3>5. CASE RequireConnectionRevision(c)
      BY <3>1, <3>2, <3>5 DEF RequireConnectionRevision
    <3>6. CASE Lookup(c) \/ Read(c) \/ Check(c)
      BY <1>0, <3>1, <3>2, <3>6 DEF Lookup, Read, Check, Call
    <3> QED
      BY <1>5, <3>2, <3>3, <3>4, <3>5, <3>6 DEF Add, Save
  <2> QED
    BY <1>1, <2>1, <2>2 DEF Silent
<1> QED
  BY <1>2, <1>3, <1>4, <1>5 DEF ServiceStep


(* Telling one more stage. *)
LEMMA ToldOneMore ==
    ASSUME NEW q \in Seq(Stage), NEW s \in Stage, Once(q), s \notin Told(q)
    PROVE  /\ Once(Append(q, s))
           /\ Told(Append(q, s)) = Told(q) \cup {s}
<1> DEFINE p == Append(q, s)
<1>1. PICK n \in Nat : n = Len(q)
  OBVIOUS
<1>2. /\ DOMAIN q = 1 .. n /\ DOMAIN p = 1 .. (n + 1)
      /\ \A i \in 1 .. n : p[i] = q[i]
      /\ p[n + 1] = s
  BY <1>1
<1> HIDE DEF p
<1>3. \A i \in 1 .. n : q[i] # s
  BY <1>2 DEF Told
<1>4. Once(p)
  <2> SUFFICES ASSUME NEW i \in 1 .. (n + 1), NEW j \in 1 .. (n + 1), p[i] = p[j]
               PROVE  i = j
    BY <1>2 DEF Once
  <2>1. (i \in 1 .. n \/ i = n + 1) /\ (j \in 1 .. n \/ j = n + 1)
    OBVIOUS
  <2> QED
    BY <1>2, <1>3, <2>1 DEF Once
<1>5. Told(p) = Told(q) \cup {s}
  <2>1. \A i \in 1 .. (n + 1) : i \in 1 .. n \/ i = n + 1
    OBVIOUS
  <2>2. 1 .. n \subseteq 1 .. (n + 1) /\ n + 1 \in 1 .. (n + 1)
    OBVIOUS
  <2> QED
    BY <1>2, <2>1, <2>2 DEF Told
<1> QED
  BY <1>4, <1>5 DEF p

LEMMA StepKeepsAudit ==
    ASSUME IndInv, AuditFollows, NEW c \in Callers,
           Saves(c) \/ Audits(c) \/ Silent(c),
           \A d \in Callers \ {c} : call'[d] = call[d],
           NEW k \in Keys
    PROVE  AuditOK(k)'
<1> DEFINE old == History(approval[k].status)
           new == History(approval'[k].status)
           told == Told(audit[k])
<1>1. AuditOK(k) /\ audit[k] \in Seq(Stage) /\ audit \in [Keys -> Seq(Stage)]
  BY DEF AuditFollows, IndInv, TypeOK
<1>2. \A d \in Callers \ {c} : Emitting(d, k)' <=> Emitting(d, k)
  BY DEF Emitting, At, Key
<1>3. ASSUME Saves(c), Key(c) = k PROVE AuditOK(k)'
  <2> DEFINE s == call'[c].stage
  <2>1. /\ new = old \cup {s} /\ s \notin old
        /\ audit'[k] = audit[k] /\ Emitting(c, k)' /\ ~Emitting(c, k)
    BY <1>3 DEF Saves, Emitting, At, Key
  <2>2. s \notin told
    BY <1>1, <2>1 DEF AuditOK
  <2>3. \A d \in Callers : Emitting(d, k) => d # c /\ call'[d] = call[d] /\ call[d].stage # s
    BY <1>1, <2>1 DEF AuditOK
  <2>4. \A d \in Callers : Emitting(d, k)' => d = c \/ (Emitting(d, k) /\ call'[d] = call[d])
    BY <1>2
  <2> HIDE DEF old, new, told, s
  <2>5. Once(audit'[k]) /\ Told(audit'[k]) = told /\ told \subseteq new
    BY <1>1, <2>1 DEF AuditOK, told, old
  <2>6. \A t \in new : t \in told \/ \E d \in Callers : Emitting(d, k)' /\ call'[d].stage = t
    <3> SUFFICES ASSUME NEW t \in old, t \notin told
                 PROVE  \E d \in Callers : Emitting(d, k)' /\ call'[d].stage = t
      BY <2>1 DEF s
    <3>1. PICK d \in Callers : Emitting(d, k) /\ call[d].stage = t
      BY <1>1 DEF AuditOK, told, old
    <3> QED
      BY <1>2, <2>3, <3>1
  <2>7. \A d \in Callers : Emitting(d, k)' => call'[d].stage \in new /\ call'[d].stage \notin told
    BY <1>1, <2>1, <2>2, <2>4 DEF AuditOK, told, old, s
  <2>8. \A d, e \in Callers :
           Emitting(d, k)' /\ Emitting(e, k)' /\ call'[d].stage = call'[e].stage => d = e
    BY <1>1, <2>3, <2>4 DEF AuditOK, s
  <2> QED
    BY <2>5, <2>6, <2>7, <2>8 DEF AuditOK, new
<1>4. ASSUME Audits(c), Key(c) = k PROVE AuditOK(k)'
  <2> DEFINE s == call[c].stage
  <2>1. /\ audit'[k] = Append(audit[k], s) /\ new = old
        /\ Emitting(c, k) /\ ~Emitting(c, k)'
    BY <1>1, <1>4 DEF Audits, Emitting, At
  <2>2. s \in Stage /\ s \in old /\ s \notin told /\ Once(audit[k]) /\ told \subseteq old
    BY <1>1, <2>1, CallerTyped DEF AuditOK, Call
  <2>3. Once(audit'[k]) /\ Told(audit'[k]) = told \cup {s}
    BY <1>1, <2>1, <2>2, ToldOneMore
  <2>4. \A d \in Callers : Emitting(d, k)' =>
           d # c /\ Emitting(d, k) /\ call'[d] = call[d] /\ call[d].stage # s
    BY <1>1, <1>2, <2>1 DEF AuditOK
  <2> HIDE DEF old, new, told, s
  <2>5. \A t \in new : \/ t \in told \cup {s}
                       \/ \E d \in Callers : Emitting(d, k)' /\ call'[d].stage = t
    <3> SUFFICES ASSUME NEW t \in old, t \notin told, t # s
                 PROVE  \E d \in Callers : Emitting(d, k)' /\ call'[d].stage = t
      BY <2>1
    <3>1. PICK d \in Callers : Emitting(d, k) /\ call[d].stage = t
      BY <1>1 DEF AuditOK, told, old
    <3> QED
      BY <1>2, <3>1 DEF s
  <2>6. \A d \in Callers : Emitting(d, k)' =>
           call'[d].stage \in new /\ call'[d].stage \notin told \cup {s}
    BY <1>1, <2>1, <2>4 DEF AuditOK, told, old
  <2>7. \A d, e \in Callers :
           Emitting(d, k)' /\ Emitting(e, k)' /\ call'[d].stage = call'[e].stage => d = e
    BY <1>1, <2>4 DEF AuditOK
  <2>8. told \cup {s} \subseteq new
    BY <2>1, <2>2
  <2> QED
    BY <2>3, <2>5, <2>6, <2>7, <2>8 DEF AuditOK, new
<1>5. ASSUME Silent(c) \/ Key(c) # k PROVE AuditOK(k)'
  <2>1. audit'[k] = audit[k] /\ approval'[k] = approval[k]
    BY <1>1, <1>5 DEF Saves, Audits, Silent
  <2>2. ~Emitting(c, k) /\ ~Emitting(c, k)'
    BY <1>5 DEF Saves, Audits, Silent, Emitting, At, Key
  <2>3. \A d \in Callers : Emitting(d, k)' => Emitting(d, k) /\ call'[d] = call[d]
    BY <1>2, <2>2
  <2>4. \A d \in Callers : Emitting(d, k) => Emitting(d, k)' /\ call'[d] = call[d]
    BY <1>2, <2>2
  <2> HIDE DEF old, new, told
  <2> QED
    BY <1>1, <2>1, <2>3, <2>4 DEF AuditOK
<1>6. CASE Key(c) = k
  BY <1>3, <1>4, <1>5, <1>6
<1>7. CASE Key(c) # k
  BY <1>5, <1>7
<1> QED
  BY <1>6, <1>7

LEMMA InitAudit == Init => AuditFollows
<1> SUFFICES ASSUME Init, NEW k \in Keys PROVE AuditOK(k)
  BY DEF AuditFollows
<1>1. approval[k].status = "absent" /\ audit[k] = << >>
  BY DEF Init, NoApproval
<1>2. \A c \in Callers : ~Emitting(c, k)
  BY IdleTyped DEF Init, Emitting, At
<1>3. History("absent") = {} /\ Once(<< >>) /\ Told(<< >>) = {}
  BY DEF History, Once, Told
<1> QED
  BY <1>1, <1>2, <1>3 DEF AuditOK

LEMMA NextKeepsAudit == IndInv /\ AuditFollows /\ [Next]_vars => AuditFollows'
<1> SUFFICES ASSUME IndInv, AuditFollows, [Next]_vars PROVE AuditFollows'
  OBVIOUS
<1>1. ASSUME NEW c \in Callers, GraphStep(c) \/ ServiceStep(c) \/ ProviderStep(c)
      PROVE  AuditFollows'
  BY <1>1, StepKinds, StepKeepsAudit DEF AuditFollows
<1>2. CASE \/ ReviseConnection \/ Tick \/ UNCHANGED vars
           \/ \E m \in Commands : ServerChanges(m)
  BY <1>2 DEF ReviseConnection, Tick, ServerChanges, vars, store, AuditFollows, AuditOK,
     Emitting, At, Key
<1> QED
  BY <1>1, <1>2 DEF Next

(* The audit trail: once every caller has returned, each stage that led to *)
(* the status of an approval was emitted, once, and no other was.          *)
THEOREM AuditComplete == Spec => []AuditTellsStatus
<1>1. AuditFollows => AuditTellsStatus
  <2> SUFFICES ASSUME AuditFollows, Quiet, NEW k \in Keys
               PROVE  /\ Told(audit[k]) = History(approval[k].status)
                      /\ Once(audit[k])
    BY DEF AuditTellsStatus, Told, Once
  <2>1. \A c \in Callers : ~Emitting(c, k)
    BY DEF Quiet, Emitting, At
  <2> QED
    BY <2>1 DEF AuditFollows, AuditOK
<1> QED
  BY <1>1, InitAudit, NextKeepsAudit, IndInvHolds, PTL DEF Spec


---------------------------------------------------------------------------
(* Whoever saved `executed' goes on to verify what the server shows.       *)

(* What is marked as executed was carried out, and what was carried out is *)
(* shown, unless it was disturbed.                                         *)
CarriedOut ==
    /\ \A m \in Commands : writes[m] > 0 => m \in shown \cup disturbed
    /\ \A k \in Keys : executions[k] # NoCommand => writes[executions[k]] > 0
    /\ \A c \in Callers : At(c, "save") /\ call[c].stage = "executed"
                           => writes[call[c].cmd] > 0
    /\ \A k \in Keys : approval[k].status \in {"executed", "verified"}
                        => writes[approval[k].cmd] > 0

(* What a step does to the server. *)
LEMMA ServerSteps ==
    ASSUME IndInv, [Next]_vars
    PROVE  /\ \A m \in Commands : writes[m] > 0 => writes'[m] > 0
           /\ disturbed \subseteq disturbed'
           /\ shown \subseteq shown' \cup disturbed'
           /\ \A m \in Commands : writes'[m] > 0 => writes[m] > 0 \/ m \in shown'
<1>1. ASSUME NEW c \in Callers, At(c, "perform"), Performed(c)
      PROVE  /\ \A m \in Commands : writes[m] > 0 => writes'[m] > 0
             /\ disturbed \subseteq disturbed'
             /\ shown \subseteq shown' \cup disturbed'
             /\ \A m \in Commands : writes'[m] > 0 => writes[m] > 0 \/ m \in shown'
  <2>1. call[c].cmd \in Commands /\ writes \in [Commands -> Nat]
    BY <1>1, CallerTyped DEF At, IndInv, TypeOK
  <2> QED
    BY <1>1, <2>1 DEF Performed
<1>2. ASSUME NEW c \in Callers, GraphStep(c) \/ ServiceStep(c) \/ ProviderStep(c)
      PROVE  \/ At(c, "perform") /\ Performed(c)
             \/ UNCHANGED <<writes, shown>> /\ disturbed \subseteq disturbed'
  BY <1>2 DEF GraphStep, ServiceStep, ProviderStep, Start, Resume, Route,
     RequireConnectionRevision, Lookup, Add, Read, Check, Save, Emit, Acquire,
     Recheck, Replay, Perform, PerformFails, Verify, provider, server
<1>3. ASSUME \/ ReviseConnection \/ Tick \/ UNCHANGED vars
             \/ \E m \in Commands : ServerChanges(m)
      PROVE  /\ writes' = writes /\ disturbed \subseteq disturbed'
             /\ shown \subseteq shown' \cup disturbed'
  BY <1>3 DEF ReviseConnection, Tick, ServerChanges, vars, provider, server
<1> QED
  BY <1>1, <1>2, <1>3 DEF Next

(* A caller's answer from the provider is of a command that was carried out. *)
LEMMA AnswersCarriedOut ==
    ASSUME IndInv, CarriedOut, NEW c \in Callers,
           GraphStep(c) \/ ServiceStep(c) \/ ProviderStep(c),
           At(c, "save")', call'[c].stage = "executed"
    PROVE  writes'[call'[c].cmd] > 0
<1>0. call \in [Callers -> Call] /\ call[c] \in Call /\ Idle.at = "idle"
  BY IdleTyped DEF IndInv, TypeOK
<1>1. ASSUME NEW l, l # "save" PROVE ~Goto(c, l)
  BY <1>0, <1>1 DEF Goto, Call, At
<1>2. ~Return(c)
  BY <1>0 DEF Return, At
<1>3. ~GraphStep(c)
  <2>1. ASSUME NEW m \in Commands PROVE ~Start(c, m)
    BY <1>0 DEF Start, Idle, At
  <2>2. ASSUME NEW m \in Commands, NEW s \in {"approved", "rejected"} PROVE ~Resume(c, m, s)
    BY <1>0 DEF Resume, Idle, At
  <2>3. ~Route(c)
    BY <1>1, <1>2 DEF Route
  <2> QED
    BY <2>1, <2>2, <2>3 DEF GraphStep
<1>4. ~ServiceStep(c)
  <2>1. ~(RequireConnectionRevision(c) \/ Check(c) \/ Emit(c))
    BY <1>1, <1>2 DEF RequireConnectionRevision, Check, Emit
  <2>2. ~(Lookup(c) \/ Add(c))
    BY <1>0, <1>1, <1>2 DEF Lookup, Add, Call, At
  <2>3. ~Save(c)
    BY <1>1, <1>2 DEF Save
  <2>4. ~Read(c)
    <3> SUFFICES ASSUME Read(c) PROVE FALSE
      OBVIOUS
    <3>1. Goto(c, "save") /\ call[c].stage \in {"approved", "rejected"}
      BY <1>2, CallerTyped DEF Read, CallOK, At
    <3>2. call'[c].stage = call[c].stage
      BY <3>1, GotoTyped DEF Label
    <3> QED
      BY <3>1, <3>2
  <2> QED
    BY <2>1, <2>2, <2>3, <2>4 DEF ServiceStep
<1>5. ~(Acquire(c) \/ Recheck(c) \/ PerformFails(c) \/ Verify(c))
  <2>1. ~(Acquire(c) \/ Recheck(c))
    BY <1>1, <1>2 DEF Acquire, Recheck, Fail
  <2>2. ~(PerformFails(c) \/ Verify(c))
    BY <1>0, <1>2 DEF PerformFails, Verify, Fail, Call, At
  <2> QED
    BY <2>1, <2>2
<1>6. Perform(c) \/ Replay(c)
  BY <1>3, <1>4, <1>5 DEF ProviderStep
<1>7. Answer(c, TRUE) \/ Answer(c, FALSE)
  BY <1>2, <1>6 DEF Perform, Replay, Fail
<1>8. call'[c].cmd = call[c].cmd /\ call[c].cmd \in Commands /\ Key(c) \in Keys
  BY <1>0, <1>6, <1>7, CallerTyped DEF Answer, Call, Perform, Replay, At
<1>9. CASE Perform(c)
  BY <1>8, <1>9 DEF Perform, Performed, IndInv, TypeOK
<1>10. CASE Replay(c)
  <2>1. executions[Key(c)] = call[c].cmd /\ executions[Key(c)] # NoCommand /\ writes' = writes
    BY <1>2, <1>10 DEF Replay, Fail, server
  <2> QED
    BY <1>8, <2>1 DEF CarriedOut
<1> QED
  BY <1>6, <1>9, <1>10

LEMMA NextCarriedOut == IndInv /\ CarriedOut /\ [Next]_vars => CarriedOut'
<1> SUFFICES ASSUME IndInv, CarriedOut, [Next]_vars PROVE CarriedOut'
  OBVIOUS
<1>0. /\ approval \in [Keys -> Approval] /\ executions \in [Keys -> Commands \cup {NoCommand}]
      /\ \A m \in Commands : writes[m] > 0 => writes'[m] > 0
  BY ServerSteps DEF IndInv, TypeOK
<1>1. \A m \in Commands : writes'[m] > 0 => m \in shown' \cup disturbed'
  BY ServerSteps DEF CarriedOut
<1>2. CASE \/ ReviseConnection \/ Tick \/ UNCHANGED vars
           \/ \E m \in Commands : ServerChanges(m)
  <2>1. UNCHANGED <<approval, executions, writes, call>>
    BY <1>2 DEF ReviseConnection, Tick, ServerChanges, vars, provider, server, store
  <2> QED
    BY <1>1, <2>1 DEF CarriedOut, At
<1>3. ASSUME NEW c \in Callers, GraphStep(c) \/ ServiceStep(c) \/ ProviderStep(c)
      PROVE  CarriedOut'
  <2>1. \A k \in Keys : executions'[k] # NoCommand => writes'[executions'[k]] > 0
    <3>1. CASE Perform(c)
      <4>1. /\ executions' = [executions EXCEPT ![Key(c)] = call[c].cmd]
            /\ call[c].cmd \in Commands /\ writes \in [Commands -> Nat]
            /\ writes' = [writes EXCEPT ![call[c].cmd] = @ + 1]
        BY <3>1, CallerTyped DEF Perform, Performed, At, IndInv, TypeOK
      <4>2. writes'[call[c].cmd] > 0
        BY <4>1
      <4> QED
        BY <1>0, <4>1, <4>2 DEF CarriedOut
    <3>2. CASE ~Perform(c)
      <4>1. UNCHANGED executions
        BY <1>3, <3>2 DEF GraphStep, ServiceStep, ProviderStep, Start, Resume, Route,
           RequireConnectionRevision, Lookup, Add, Read, Check, Save, Emit, Acquire,
           Recheck, Replay, PerformFails, Verify, provider
      <4> QED
        BY <1>0, <4>1 DEF CarriedOut
    <3> QED
      BY <3>1, <3>2
  <2>2. \A d \in Callers : At(d, "save")' /\ call'[d].stage = "executed"
                           => writes'[call'[d].cmd] > 0
    <3> SUFFICES ASSUME NEW d \in Callers, At(d, "save")', call'[d].stage = "executed", d # c
                 PROVE  writes'[call'[d].cmd] > 0
      BY <1>3, AnswersCarriedOut
    <3>1. call'[d] = call[d] /\ At(d, "save")
      BY <1>3, StepKinds DEF At
    <3> QED
      BY <1>0, <3>1, CallerTyped DEF CarriedOut, At
  <2>3. \A k \in Keys : approval'[k].status \in {"executed", "verified"}
                        => writes'[approval'[k].cmd] > 0
    <3> SUFFICES ASSUME NEW k \in Keys, approval'[k].status \in {"executed", "verified"}
                 PROVE  writes'[approval'[k].cmd] > 0
      OBVIOUS
    <3>1. CASE UNCHANGED approval
      <4>1. approval[k].cmd \in Commands
        BY <3>1 DEF IndInv, KeyOK, TypeOK, Approval
      <4> QED
        BY <1>0, <3>1, <4>1 DEF CarriedOut
    <3>2. CASE Add(c)
      <4>1. \/ approval' = approval
            \/ approval' = [approval EXCEPT ![Key(c)] =
                               [status |-> "pending", cmd |-> call[c].cmd,
                                expires |-> call[c].now + TTL]]
        BY <3>2 DEF Add
      <4>2. approval'[k] = approval[k] /\ approval[k].cmd \in Commands
        BY <1>0, <4>1 DEF IndInv, KeyOK, Approval
      <4> QED
        BY <1>0, <4>2 DEF CarriedOut
    <3>3. CASE Save(c) /\ ~UNCHANGED approval
      <4>1. /\ approval' = [approval EXCEPT ![Key(c)].status = call[c].stage]
            /\ approval[Key(c)].status = Expected(call[c].stage)
            /\ approval[Key(c)].cmd = call[c].cmd /\ call[c].cmd \in Commands
            /\ Key(c) \in Keys /\ At(c, "save")
        BY <3>3, CallerTyped DEF Save, At, CallOK, Mine
      <4>2. CASE k # Key(c)
        <5>1. approval'[k] = approval[k] /\ approval[k].cmd \in Commands
          BY <1>0, <4>1, <4>2 DEF IndInv, KeyOK, Approval
        <5> QED
          BY <1>0, <5>1 DEF CarriedOut
      <4>3. CASE k = Key(c)
        <5>1. approval'[k].cmd = call[c].cmd /\ call[c].stage \in {"executed", "verified"}
          BY <1>0, <4>1, <4>3 DEF Approval
        <5>2. writes[call[c].cmd] > 0
          BY <4>1, <5>1 DEF CarriedOut, Expected
        <5> QED
          BY <1>0, <4>1, <5>1, <5>2
      <4> QED
        BY <4>2, <4>3
    <3> QED
      BY <1>3, <3>1, <3>2, <3>3
         DEF GraphStep, ServiceStep, ProviderStep, Start, Resume, Route,
         RequireConnectionRevision, Lookup, Read, Check, Emit, Acquire,
         Recheck, Replay, Perform, PerformFails, Verify, store
  <2> QED
    BY <1>1, <2>1, <2>2, <2>3 DEF CarriedOut
<1> QED
  BY <1>2, <1>3 DEF Next

Finishing(c, k) ==
    /\ Key(c) = k
    /\ \/ At(c, "verify")
       \/ At(c, "emit") /\ call[c].stage = "executed"
       \/ At(c, "save") /\ call[c].stage = "verified"

ExecutedInHand ==
    \A k \in Keys : approval[k].status = "executed" =>
       approval[k].cmd \in disturbed \/ \E c \in Callers : Finishing(c, k)

(* Whoever has a command in hand keeps it: it emits the stage, verifies,   *)
(* and saves `verified', unless somebody else has.                         *)
LEMMA FinisherGoesOn ==
    ASSUME IndInv, CarriedOut, Adapter = "mock", NEW c \in Callers,
           GraphStep(c) \/ ServiceStep(c) \/ ProviderStep(c),
           NEW k \in Keys, Finishing(c, k), approval[k].status = "executed"
    PROVE  \/ Finishing(c, k)' \/ approval'[k].status # "executed"
           \/ approval[k].cmd \in disturbed'
<1>0. /\ call \in [Callers -> Call] /\ call[c] \in Call
      /\ call[c].cmd \in Commands /\ Key(c) = k /\ approval[k].cmd = call[c].cmd
      /\ approval \in [Keys -> Approval]
      /\ call[c].at \in {"verify", "emit", "save"}
  BY CallerTyped DEF IndInv, TypeOK, Finishing, At, CallOK, Mine
<1>1. CASE At(c, "verify")
  <2>1. Verify(c)
    BY <1>1 DEF GraphStep, ServiceStep, ProviderStep, Start, Resume, Route,
       RequireConnectionRevision, Lookup, Add, Read, Check, Save, Emit, Acquire,
       Recheck, Replay, Perform, PerformFails, At
  <2>2. CASE call' = [call EXCEPT ![c].at = "save", ![c].stage = "verified"]
    <3>1. /\ call'[c].at = "save" /\ call'[c].stage = "verified"
          /\ call'[c].cmd = call[c].cmd
      BY <1>0, <2>2 DEF Call
    <3> QED
      BY <1>0, <3>1 DEF Finishing, At, Key
  <2>3. CASE call[c].cmd \notin shown
    <3>1. call[c].cmd \in disturbed
      BY <1>0, <2>3 DEF CarriedOut
    <3> QED
      BY <1>0, <2>1, <3>1 DEF Verify
  <2> QED
    BY <1>0, <2>1, <2>2, <2>3 DEF Verify, Recognized
<1>2. CASE At(c, "emit") /\ call[c].stage = "executed"
  <2>1. Goto(c, "verify")
    BY <1>2 DEF GraphStep, ServiceStep, ProviderStep, Start, Resume, Route,
       RequireConnectionRevision, Lookup, Add, Read, Check, Save, Emit, Acquire,
       Recheck, Replay, Perform, PerformFails, Verify, At
  <2>2. call'[c].at = "verify" /\ call'[c].cmd = call[c].cmd
    BY <2>1, GotoTyped DEF Label
  <2> QED
    BY <1>0, <2>2 DEF Finishing, At, Key
<1>3. CASE At(c, "save") /\ call[c].stage = "verified"
  <2>1. Save(c)
    BY <1>3 DEF GraphStep, ServiceStep, ProviderStep, Start, Resume, Route,
       RequireConnectionRevision, Lookup, Add, Read, Check, Emit, Acquire,
       Recheck, Replay, Perform, PerformFails, Verify, At
  <2>2. Expected("verified") = "executed"
    BY DEF Expected
  <2> QED
    BY <1>0, <1>3, <2>1, <2>2 DEF Save, Approval
<1> QED
  BY <1>1, <1>2, <1>3 DEF Finishing

(* Whoever makes an approval executed has it in hand. *)
LEMMA ExecuterFinishes ==
    ASSUME IndInv, NEW c \in Callers,
           GraphStep(c) \/ ServiceStep(c) \/ ProviderStep(c),
           NEW k \in Keys, approval[k].status # "executed",
           approval'[k].status = "executed"
    PROVE  Finishing(c, k)'
<1>1. Add(c) \/ Save(c)
  BY DEF GraphStep, ServiceStep, ProviderStep, Start, Resume, Route,
     RequireConnectionRevision, Lookup, Read, Check, Emit, Acquire,
     Recheck, Replay, Perform, PerformFails, Verify, store
<1>2. approval \in [Keys -> Approval]
  BY DEF IndInv, TypeOK
<1>3. Save(c)
  BY <1>1, <1>2 DEF Add
<1>4. /\ approval' = [approval EXCEPT ![Key(c)].status = call[c].stage]
      /\ Goto(c, "emit")
  BY <1>3 DEF Save
<1>5. Key(c) = k /\ call[c].stage = "executed"
  BY <1>2, <1>4 DEF Approval
<1>6. /\ call'[c].at = "emit" /\ call'[c].stage = call[c].stage
      /\ call'[c].cmd = call[c].cmd
  BY <1>4, GotoTyped DEF Label
<1> QED
  BY <1>5, <1>6 DEF Finishing, At, Key

LEMMA NextFinishes ==
    Adapter = "mock" /\ IndInv /\ CarriedOut /\ ExecutedInHand /\ [Next]_vars => ExecutedInHand'
<1> SUFFICES ASSUME Adapter = "mock", IndInv, CarriedOut, ExecutedInHand, [Next]_vars,
                    NEW k \in Keys, approval'[k].status = "executed"
             PROVE  approval'[k].cmd \in disturbed' \/ \E c \in Callers : Finishing(c, k)'
  BY DEF ExecutedInHand
<1>0. disturbed \subseteq disturbed'
  BY ServerSteps
<1>1. ASSUME NEW c \in Callers, GraphStep(c) \/ ServiceStep(c) \/ ProviderStep(c)
      PROVE  approval'[k].cmd \in disturbed' \/ \E d \in Callers : Finishing(d, k)'
  <2>1. \A d \in Callers \ {c} : call'[d] = call[d]
    BY <1>1, StepKinds
  <2>2. CASE approval[k].status # "executed"
    BY <1>1, <2>2, ExecuterFinishes
  <2>3. CASE approval[k].status = "executed"
    <3>1. approval'[k].cmd = approval[k].cmd
      <4>1. \/ UNCHANGED approval
            \/ Add(c) /\ approval[Key(c)].status = "absent"
            \/ Save(c) /\ approval' = [approval EXCEPT ![Key(c)].status = call[c].stage]
        BY <1>1 DEF GraphStep, ServiceStep, ProviderStep, Start, Resume, Route,
           RequireConnectionRevision, Lookup, Add, Read, Check, Save, Emit, Acquire,
           Recheck, Replay, Perform, PerformFails, Verify, store
      <4>2. approval \in [Keys -> Approval]
        BY DEF IndInv, TypeOK
      <4> QED
        BY <2>3, <4>1, <4>2 DEF Add, Approval
    <3>2. CASE approval[k].cmd \in disturbed
      BY <1>0, <3>1, <3>2
    <3>3. ASSUME NEW d \in Callers, Finishing(d, k)
          PROVE  approval'[k].cmd \in disturbed' \/ Finishing(d, k)'
      <4>1. CASE d = c
        BY <1>1, <2>3, <3>1, <3>3, <4>1, FinisherGoesOn
      <4>2. CASE d # c
        BY <2>1, <3>3, <4>2 DEF Finishing, At, Key
      <4> QED
        BY <4>1, <4>2
    <3> QED
      BY <2>3, <3>2, <3>3 DEF ExecutedInHand
  <2> QED
    BY <2>2, <2>3
<1>2. CASE \/ ReviseConnection \/ Tick \/ UNCHANGED vars
           \/ \E m \in Commands : ServerChanges(m)
  <2>1. UNCHANGED <<approval, call>>
    BY <1>2 DEF ReviseConnection, Tick, ServerChanges, vars, store
  <2> QED
    BY <1>0, <2>1 DEF ExecutedInHand, Finishing, At, Key
<1> QED
  BY <1>1, <1>2 DEF Next

(* execute_approved with the mock adapter, which recognizes a replayed     *)
(* result: an executed approval is left behind only if the request of its  *)
(* verify() failed or its effect was taken back.  (The Jellyfin adapter    *)
(* refuses to verify a replayed result.)                                   *)
THEOREM ExecutedGetsVerified ==
    ASSUME Adapter = "mock" PROVE Spec => []ExecutedIsVerified
<1>1. Init => CarriedOut /\ ExecutedInHand
  <2> SUFFICES ASSUME Init PROVE CarriedOut /\ ExecutedInHand
    OBVIOUS
  <2>1. /\ \A k \in Keys : approval[k].status = "absent" /\ executions[k] = NoCommand
        /\ \A m \in Commands : writes[m] = 0
        /\ \A c \in Callers : call[c].at = "idle"
    BY IdleTyped DEF Init, NoApproval
  <2> QED
    BY <2>1 DEF CarriedOut, ExecutedInHand, At
<1>2. IndInv /\ CarriedOut /\ ExecutedInHand /\ [Next]_vars => CarriedOut' /\ ExecutedInHand'
  BY NextFinishes, NextCarriedOut
<1>3. ExecutedInHand => ExecutedIsVerified
  BY DEF ExecutedInHand, ExecutedIsVerified, Finishing, At
<1> QED
  BY <1>1, <1>2, <1>3, IndInvHolds, PTL DEF Spec

=============================================================================
