-------------------------- MODULE SpeakerReviewProofs --------------------------
(***************************************************************************)
(* Proofs about SpeakerReview, for any number of operators' processes, any *)
(* number of rounds and parts, and any number of crashes.                  *)
(*                                                                         *)
(* The state file is overwritten with old copies at any time, so nothing   *)
(* can be said of `run' that is not said of every copy in a process: the   *)
(* inductive invariant says what a copy is worth, however old (StateOK),   *)
(* what a process at a step has learnt since it loaded its copy (KnowsOK), *)
(* and what the journal and the files say of one another.  It holds        *)
(* because everything a copy relies on only ever grows.                    *)
(***************************************************************************)
EXTENDS SpeakerReview, TLAPS

Answered == {p \in Parts : <<"output", p>> \in files}

(* The provider's one batch for the part has ended, so or so. *)
BatchIs(p, how) == Len(batches[p]) = 1 /\ batches[p][1] = how

(* What a copy of the run state is worth, however old it is. *)
StateOK(s) ==
    /\ s \in RunStates
    /\ s.status = Submitted =>
          /\ s.done < PartCount[s.round]
          /\ s.ids[ActivePart(s)] # 0
    /\ \A p \in Parts : s.ids[p] # 0 => Recorded(p) /\ s.ids[p] = completed[p]
    /\ s.status = "completed" => Published

(* The copy allows the purchase of its next part. *)
MayBuy(s) ==
    \/ s.status = "prepared"
    \/ /\ s.status = Submitted
       /\ ActivePart(s) \in Answered
       /\ s.done + 1 < PartCount[s.round] \/ s.round < verdicts.last

RoundAnswered(s) == ActivePart(s) \in Answered /\ s.done + 1 = PartCount[s.round]

(* A worker that has created the intent of a part is alone with the part.  *)
Holding(me) == me.at \in {"call", "record"}

HoldsOK(me) ==
    LET p == NextPart(me.state)
    IN  /\ p \in intent /\ p \notin torn
        /\ completed[p] = 0
        /\ me.at = "call" => batches[p] = << >>
        /\ me.at = "record" => Len(batches[p]) = 1 /\ me.next = WithBatch(me.state, 1)

HoldersApart ==
    \A v, w \in Workers :
        v # w /\ Holding(worker[v]) /\ Holding(worker[w])
        => NextPart(worker[v].state) # NextPart(worker[w].state)

(* What a worker at a step knows besides. *)
KnowsOK(me) ==
    /\ StateOK(me.state)
    /\ me.at # "record" => StateOK(me.next)
    /\ me.at \in {"poll", "download", "results", "finish", "fail"} =>
          me.state.status = Submitted
    /\ me.at = "download" => BatchIs(ActivePart(me.state), "done")
    /\ me.at = "fail" => BatchIs(ActivePart(me.state), "failed")
    /\ me.at \in {"results", "finish"} => RoundAnswered(me.state)
    /\ me.at = "finish" => verdicts.last <= me.state.round /\ verdicts.ending # "refused"
    /\ me.at \in {"part", "claim", "call", "record"} => MayBuy(me.state)
    /\ me.at \in {"decide", "promote"} => <<"resolution", me.human>> \in files
    /\ me.at = "promote" => <<"decisions", me.human>> \in files

(* The journal brackets the provider's batches, which come in order. *)
JournalOK ==
    /\ torn \subseteq intent
    /\ \A p \in Parts :
          /\ Len(batches[p]) <= 1
          /\ batches[p] # << >> =>
                p \in intent /\ p[1] <= verdicts.last /\ Earlier(p) \subseteq Answered
          /\ completed[p] # 0 =>
                completed[p] = 1 /\ Len(batches[p]) = 1 /\ p \notin torn
          /\ p \in Answered => BatchIs(p, "done")

(* What is published follows from the batches or from one human. *)
FilesOK ==
    /\ <<"terminal">> \in files => \E q \in Parts : BatchIs(q, "failed")
    /\ files \cap (Queues \cup {<<"reviewed">>}) # {} =>
          \A p \in Parts : p[1] <= verdicts.last => p \in Answered
    /\ \A kind \in HumanKinds : \A g, h \in Resolutions :
          <<kind, g>> \in files \cup cut /\ <<kind, h>> \in files \cup cut => g = h

Records == [at : Steps, state : RunStates, next : RunStates, human : Resolutions]

Typed ==
    /\ JournalTypeOK
    /\ verdicts \in Verdicts
    /\ files \subseteq Artifacts /\ cut \subseteq Artifacts
    /\ worker \in [Workers -> Records]
    /\ crashes \in 0 .. MaxCrashes
    /\ reprices \in 0 .. MaxReprices

IndInv ==
    /\ Typed
    /\ StateOK(run)
    /\ \A w \in Workers : KnowsOK(worker[w])
    /\ \A w \in Workers : Holding(worker[w]) => HoldsOK(worker[w])
    /\ HoldersApart
    /\ JournalOK
    /\ FilesOK

---------------------------------------------------------------------------
(* Parts, rounds and the names of the files. *)

LEMMA RoundsTyped ==
    /\ Rounds = 1 .. Len(PartCount)
    /\ \A r \in Rounds : r \in Nat /\ PartCount[r] \in Nat /\ PartCount[r] >= 1
BY RoundsAssumption DEF Rounds

LEMMA PartsTyped ==
    /\ \A r \in Rounds, k \in Nat : k >= 1 /\ k <= PartCount[r] => <<r, k>> \in Parts
    /\ \A p \in Parts : /\ p = <<p[1], p[2]>>
                        /\ p[1] \in Rounds /\ p[2] \in Nat
                        /\ p[2] >= 1 /\ p[2] <= PartCount[p[1]]
<1>1. Parts = UNION {{r} \X (1 .. PartCount[r]) : r \in Rounds}
  BY RoundsAssumption
<1>2. ASSUME NEW r \in Rounds, NEW k \in Nat, k >= 1, k <= PartCount[r]
      PROVE  <<r, k>> \in Parts
  <2>1. <<r, k>> \in {r} \X (1 .. PartCount[r])
    BY <1>2, RoundsTyped
  <2> QED
    BY <1>1, <2>1
<1>3. ASSUME NEW p \in Parts
      PROVE  /\ p = <<p[1], p[2]>> /\ p[1] \in Rounds /\ p[2] \in Nat
             /\ p[2] >= 1 /\ p[2] <= PartCount[p[1]]
  <2>1. PICK r \in Rounds : p \in {r} \X (1 .. PartCount[r])
    BY <1>1
  <2>2. PartCount[r] \in Nat
    BY RoundsTyped
  <2> QED
    BY <2>1, <2>2
<1> QED
  BY <1>2, <1>3

LEMMA VerdictsTyped ==
    ASSUME verdicts \in Verdicts
    PROVE  /\ verdicts.last \in Rounds
           /\ verdicts.ending \in {"completed", "needs_human", "refused"}
           /\ verdicts.last \in Nat /\ verdicts.last >= 1
BY RoundsTyped DEF Verdicts

(* The parts before the successor of a part, in its round and in the next. *)
LEMMA EarlierGrows ==
    ASSUME NEW r \in Rounds, NEW k \in Nat, k >= 1, k <= PartCount[r]
    PROVE  /\ Earlier(<<r, k + 1>>) \subseteq Earlier(<<r, k>>) \cup {<<r, k>>}
           /\ k = PartCount[r] =>
                 Earlier(<<r + 1, 1>>) \subseteq Earlier(<<r, k>>) \cup {<<r, k>>}
<1>1. r \in Nat
  BY RoundsTyped
<1>2. ASSUME NEW p \in Parts
      PROVE  /\ p = <<p[1], p[2]>> /\ p[1] \in Nat /\ p[2] \in Nat /\ p[2] >= 1
             /\ p[1] = r => p[2] <= PartCount[r]
  BY PartsTyped, RoundsTyped
<1>3. PartCount[r] \in Nat
  BY RoundsTyped
<1> QED
  BY <1>1, <1>2, <1>3 DEF Earlier, Precedes

(* Of two parts one comes first. *)
LEMMA PartsOrdered ==
    ASSUME NEW p \in Parts, NEW q \in Parts, p # q
    PROVE  p \in Earlier(q) \/ q \in Earlier(p)
BY PartsTyped, RoundsTyped DEF Earlier, Precedes

(* No two of the files have a name in common. *)
LEMMA NamesApart ==
    /\ \A p, q : <<"output", p>> = <<"output", q>> => p = q
    /\ \A p, a : a \in Endings \/ (\E h, kind : kind \in HumanKinds /\ a = <<kind, h>>)
                  \/ (\E r : a = <<"results", r>>) => a # <<"output", p>>
    /\ \A r, a : a \in Endings \/ (\E h, kind : kind \in HumanKinds /\ a = <<kind, h>>)
                  => a # <<"results", r>>
    /\ \A h, kind, a : kind \in HumanKinds /\ a \in Endings => a # <<kind, h>>
    /\ <<"terminal">> \notin Queues \cup {<<"reviewed">>}
BY DEF Endings, Queues, HumanKinds

---------------------------------------------------------------------------
(* What only grows, and what it keeps true of the copies. *)

Growth ==
    /\ verdicts' = verdicts
    /\ files \subseteq files'
    /\ \A p \in Parts : Recorded(p) => Recorded(p)' /\ completed'[p] = completed[p]
    /\ \A p \in Parts, how \in {"done", "failed"} : BatchIs(p, how) => BatchIs(p, how)'
    /\ Published => Published'

(* A step leaves the journal of the part alone. *)
Untouched(p) ==
    /\ p \in intent => p \in intent'
    /\ p \in torn' => p \in torn
    /\ completed'[p] = completed[p]
    /\ batches[p] = << >> => batches'[p] = << >>
    /\ Len(batches'[p]) = Len(batches[p])

LEMMA ActivePartTyped ==
    ASSUME NEW s, StateOK(s), s.status = Submitted
    PROVE  /\ s.round \in Rounds /\ s.done \in Nat /\ s.done + 1 <= PartCount[s.round]
           /\ s.ids[ActivePart(s)] # 0
           /\ ActivePart(s) \in Parts
           /\ Recorded(ActivePart(s))
<1>1. s.round \in Rounds /\ s.done \in Nat /\ s.done < PartCount[s.round]
  BY DEF StateOK, RunStates
<1>2. PartCount[s.round] \in Nat
  BY <1>1, RoundsTyped
<1>3. ActivePart(s) \in Parts
  BY <1>1, <1>2, PartsTyped DEF ActivePart
<1> QED
  BY <1>1, <1>2, <1>3 DEF StateOK

LEMMA StateKept ==
    ASSUME NEW s, StateOK(s), Growth
    PROVE  StateOK(s)'
BY DEF StateOK, Growth, ActivePart, Submitted

LEMMA KnowsKept ==
    ASSUME NEW me, KnowsOK(me), Growth
    PROVE  KnowsOK(me)'
<1>1. StateOK(me.state)' /\ (me.at # "record" => StateOK(me.next)')
  BY StateKept DEF KnowsOK
<1>2. me.state.status = Submitted => ActivePart(me.state) \in Parts
  BY ActivePartTyped DEF KnowsOK
<1>3. Answered \subseteq Answered'
  BY DEF Answered, Growth
<1>4. MayBuy(me.state) => MayBuy(me.state)'
  BY <1>3 DEF MayBuy, Growth, ActivePart, Submitted
<1>5. RoundAnswered(me.state) => RoundAnswered(me.state)'
  BY <1>3 DEF RoundAnswered, ActivePart
<1>6. me.at = "download" => BatchIs(ActivePart(me.state), "done")'
  BY <1>2 DEF KnowsOK, Growth, ActivePart
<1>7. me.at = "fail" => BatchIs(ActivePart(me.state), "failed")'
  BY <1>2 DEF KnowsOK, Growth, ActivePart
<1> QED
  BY <1>1, <1>4, <1>5, <1>6, <1>7 DEF KnowsOK, Growth, Submitted

LEMMA HoldsKept ==
    ASSUME NEW me, HoldsOK(me), Untouched(NextPart(me.state))
    PROVE  HoldsOK(me)'
BY DEF HoldsOK, Untouched, NextPart, WithBatch, Submitted

(* A step of one worker keeps the invariant if it keeps its own part of it *)
(* and what is shared, and touches no part that another worker holds.      *)
LEMMA OneMoves ==
    ASSUME IndInv, NEW w \in Workers, NEW me, worker' = [worker EXCEPT ![w] = me],
           Growth, Typed', StateOK(run)', JournalOK', FilesOK',
           KnowsOK(me)', Holding(me) => HoldsOK(me)',
           \A v \in Workers \ {w} : Holding(worker[v]) =>
               /\ Untouched(NextPart(worker[v].state))
               /\ Holding(me) => NextPart(worker[v].state) # NextPart(me.state)
    PROVE  IndInv'
<1>1. worker'[w] = me /\ \A v \in Workers \ {w} : worker'[v] = worker[v]
  BY DEF IndInv, Typed
<1>2. ASSUME NEW v \in Workers PROVE KnowsOK(worker[v])'
  <2>1. CASE v = w
    BY <1>1, <2>1
  <2>2. CASE v # w
    <3>1. KnowsOK(worker[v])
      BY DEF IndInv
    <3>2. worker'[v] = worker[v]
      BY <1>1, <2>2
    <3> DEFINE r == worker[v]
    <3> QED
      BY <3>1, <3>2, KnowsKept
  <2> QED
    BY <2>1, <2>2
<1>3. ASSUME NEW v \in Workers, Holding(worker[v])' PROVE HoldsOK(worker[v])'
  <2>1. CASE v = w
    BY <1>1, <1>3, <2>1
  <2>2. CASE v # w
    <3>1. worker'[v] = worker[v] /\ Holding(worker[v])
      BY <1>1, <1>3, <2>2 DEF Holding
    <3> QED
      BY <3>1, <2>2, HoldsKept DEF IndInv
  <2> QED
    BY <2>1, <2>2
<1>4. HoldersApart'
  BY <1>1 DEF IndInv, HoldersApart, Holding, NextPart
<1> QED
  BY <1>2, <1>3, <1>4 DEF IndInv

---------------------------------------------------------------------------
(* What becomes of the worker that takes the step. *)

Moves(w, me) == worker' = [worker EXCEPT ![w] = me]

LEMMA StepsTyped ==
    /\ {"idle", "poll", "download", "results", "part", "claim", "call"} \subseteq Steps
    /\ {"record", "save", "finish", "fail", "resolve", "decide", "promote"} \subseteq Steps
BY DEF Steps

LEMMA GoToMoves ==
    ASSUME Typed, NEW w \in Workers, NEW step \in Steps, GoTo(w, step)
    PROVE  \E me \in Records :
              /\ Moves(w, me)
              /\ me.at = step /\ me.state = worker[w].state
              /\ me.next = worker[w].next /\ me.human = worker[w].human
<1> DEFINE me == [worker[w] EXCEPT !.at = step]
<1>1. worker[w] \in Records
  BY DEF Typed
<1>2. me \in Records
  BY <1>1 DEF Records
<1>3. Moves(w, me)
  BY DEF GoTo, Moves
<1>4. /\ me.at = step /\ me.state = worker[w].state
      /\ me.next = worker[w].next /\ me.human = worker[w].human
  BY <1>1 DEF Records
<1> QED
  BY <1>2, <1>3, <1>4

LEMMA KeepingMoves ==
    ASSUME Typed, NEW w \in Workers, NEW step \in Steps, NEW s \in RunStates,
           Keeping(w, step, s)
    PROVE  \E me \in Records :
              /\ Moves(w, me)
              /\ me.at = step /\ me.state = worker[w].state
              /\ me.next = s /\ me.human = worker[w].human
<1> DEFINE me == [[worker[w] EXCEPT !.at = step] EXCEPT !.next = s]
<1>1. worker[w] \in Records
  BY DEF Typed
<1>2. me \in Records
  BY <1>1 DEF Records
<1>3. Moves(w, me)
  BY <1>1 DEF Keeping, Moves, Typed
<1>4. /\ me.at = step /\ me.state = worker[w].state
      /\ me.next = s /\ me.human = worker[w].human
  BY <1>1 DEF Records
<1> QED
  BY <1>2, <1>3, <1>4

LEMMA LoadedTyped ==
    ASSUME NEW step \in Steps, NEW s \in RunStates
    PROVE  /\ Loaded(step, s) \in Records
           /\ Loaded(step, s).at = step
           /\ Loaded(step, s).state = s /\ Loaded(step, s).next = s
<1>1. (CHOOSE h \in Resolutions : TRUE) \in Resolutions
  BY ResolutionsAssumption
<1> QED
  BY <1>1 DEF Loaded, Records

LEMMA PreparedOK ==
    ASSUME verdicts \in Verdicts PROVE StateOK(Prepared)
<1>1. 1 \in Rounds
  BY VerdictsTyped, RoundsTyped
<1>2. Prepared \in RunStates
  BY <1>1, MaxBatchesAssumption DEF Prepared, RunStates
<1> QED
  BY <1>2 DEF StateOK, Prepared, Submitted

LEMMA GiveUpMoves ==
    ASSUME Typed, NEW w \in Workers, GiveUp(w)
    PROVE  \E me \in Records : Moves(w, me) /\ KnowsOK(me) /\ ~Holding(me)
<1> DEFINE me == Loaded("idle", Prepared)
<1>1. StateOK(Prepared)
  BY PreparedOK DEF Typed
<1>2. me \in Records /\ me.at = "idle" /\ me.state = Prepared /\ me.next = Prepared
  BY <1>1, LoadedTyped, StepsTyped DEF StateOK
<1>3. Moves(w, me)
  BY DEF GiveUp, Moves
<1> HIDE DEF me
<1>4. KnowsOK(me) /\ ~Holding(me)
  BY <1>1, <1>2 DEF KnowsOK, Holding
<1> QED
  BY <1>2, <1>3, <1>4

---------------------------------------------------------------------------
(* Steps that leave the journal or the files alone. *)

LEMMA SameRecords ==
    ASSUME UNCHANGED <<journal, verdicts, files, cut>>
    PROVE  /\ Growth
           /\ JournalOK => JournalOK'
           /\ FilesOK => FilesOK'
           /\ \A p \in Parts : Untouched(p)
BY DEF journal, Growth, Untouched, JournalOK, FilesOK, Recorded, BatchIs, Published, Answered

LEMMA HeldPart ==
    ASSUME NEW v \in Workers, IndInv, Holding(worker[v])
    PROVE  /\ NextPart(worker[v].state) \in intent
           /\ NextPart(worker[v].state) \in Parts
           /\ NextPart(worker[v].state) \notin torn
           /\ completed[NextPart(worker[v].state)] = 0
BY DEF IndInv, HoldsOK, Typed, JournalTypeOK

(* One worker moves on and neither the journal nor a file changes. *)
LEMMA QuietMove ==
    ASSUME IndInv, NEW w \in Workers, NEW me \in Records, Moves(w, me),
           UNCHANGED <<journal, verdicts, files, cut>>,
           crashes' \in 0 .. MaxCrashes, reprices' \in 0 .. MaxReprices,
           NEW s, run' = s, StateOK(s), KnowsOK(me), ~Holding(me)
    PROVE  IndInv'
<1>1. Growth /\ JournalOK' /\ FilesOK' /\ \A p \in Parts : Untouched(p)
  BY SameRecords DEF IndInv
<1>2. Typed'
  BY DEF IndInv, Typed, Moves, JournalTypeOK, journal
<1>3. StateOK(s)'
  BY <1>1, StateKept
<1>4. StateOK(run)'
  BY <1>3
<1>5. KnowsOK(me)'
  BY <1>1, KnowsKept
<1> QED
  BY <1>1, <1>2, <1>4, <1>5, OneMoves, HeldPart DEF Moves

LEMMA QuietGiveUp ==
    ASSUME IndInv, NEW w \in Workers, GiveUp(w),
           UNCHANGED <<journal, verdicts, files, cut, run>>,
           crashes' \in 0 .. MaxCrashes, reprices' \in 0 .. MaxReprices
    PROVE  IndInv'
<1>1. PICK me \in Records : Moves(w, me) /\ KnowsOK(me) /\ ~Holding(me)
  BY GiveUpMoves DEF IndInv
<1>2. StateOK(run)
  BY DEF IndInv
<1>3. PICK s : s = run
  OBVIOUS
<1> QED
  BY <1>1, <1>2, <1>3, QuietMove

---------------------------------------------------------------------------
(* The next part, and the state that has a batch for it. *)

(* A recorded part is bought, and so are the rules of its purchase met. *)
LEMMA RecordedBought ==
    ASSUME IndInv, NEW p \in Parts, Recorded(p)
    PROVE  /\ completed[p] = 1
           /\ Len(batches[p]) = 1
           /\ p[1] <= verdicts.last
           /\ Earlier(p) \subseteq Answered
BY DEF IndInv, JournalOK, Recorded

LEMMA NextPartOK ==
    ASSUME IndInv, NEW s, StateOK(s), MayBuy(s)
    PROVE  /\ NextPart(s) \in Parts
           /\ NextPart(s)[1] \in Rounds /\ NextPart(s)[2] \in Nat /\ NextPart(s)[2] >= 1
           /\ NextPart(s)[1] <= verdicts.last
           /\ Earlier(NextPart(s)) \subseteq Answered
<1>0. verdicts \in Verdicts
  BY DEF IndInv, Typed
<1>1. CASE s.status = "prepared"
  <2>1. NextPart(s) = <<1, 1>>
    BY <1>1 DEF NextPart
  <2>2. 1 \in Rounds
    BY <1>0, VerdictsTyped, RoundsTyped
  <2>3. <<1, 1>> \in Parts
    BY <2>2, RoundsTyped, PartsTyped
  <2>4. Earlier(<<1, 1>>) = {}
    BY PartsTyped, RoundsTyped DEF Earlier, Precedes
  <2> QED
    BY <2>1, <2>2, <2>3, <2>4, <1>0, VerdictsTyped
<1>2. CASE s.status = Submitted /\ s.status # "prepared"
  <2> DEFINE p == ActivePart(s)
             r == s.round
             k == s.done + 1
  <2>1. /\ r \in Rounds /\ k \in Nat /\ k >= 1 /\ k <= PartCount[r]
        /\ p = <<r, k>> /\ p \in Parts /\ Recorded(p) /\ s.done \in Nat
    BY <1>2, ActivePartTyped DEF ActivePart
  <2>2. p \in Answered /\ (k < PartCount[r] \/ r < verdicts.last)
    BY <1>2 DEF MayBuy
  <2>3. p[1] <= verdicts.last /\ Earlier(p) \subseteq Answered
    BY <2>1, RecordedBought
  <2>4. r \in Nat /\ PartCount[r] \in Nat /\ verdicts.last \in Rounds /\ verdicts.last \in Nat
    BY <2>1, <1>0, RoundsTyped, VerdictsTyped
  <2>5. CASE k < PartCount[r]
    <3>1. NextPart(s) = <<r, k + 1>>
      BY <1>2, <2>1, <2>5 DEF NextPart
    <3>2. <<r, k + 1>> \in Parts
      BY <2>1, <2>4, <2>5, PartsTyped
    <3>3. Earlier(<<r, k + 1>>) \subseteq Answered
      BY <2>1, <2>2, <2>3, EarlierGrows
    <3> QED
      BY <3>1, <3>2, <3>3, <2>1, <2>3
  <2>6. CASE ~(k < PartCount[r])
    <3>1. NextPart(s) = <<r + 1, 1>>
      BY <1>2, <2>6 DEF NextPart
    <3>2. k = PartCount[r] /\ r < verdicts.last
      BY <2>1, <2>2, <2>4, <2>6
    <3>3. r + 1 \in Rounds
      BY <3>2, <2>1, <2>4, RoundsTyped
    <3>4. <<r + 1, 1>> \in Parts
      BY <3>3, RoundsTyped, PartsTyped
    <3>5. Earlier(<<r + 1, 1>>) \subseteq Answered
      BY <3>2, <2>1, <2>2, <2>3, EarlierGrows
    <3> QED
      BY <3>1, <3>2, <3>3, <3>4, <3>5, <2>4
  <2> QED
    BY <2>5, <2>6
<1> QED
  BY <1>1, <1>2 DEF MayBuy

(* The state saved for the next part is worth as much as the copy. *)
LEMMA WithBatchTyped ==
    ASSUME IndInv, NEW s, StateOK(s), MayBuy(s)
    PROVE  /\ WithBatch(s, 1) \in RunStates
           /\ WithBatch(s, 1).ids[NextPart(s)] = 1
           /\ WithBatch(s, 1).status = Submitted
           /\ ActivePart(WithBatch(s, 1)) = NextPart(s)
           /\ WithBatch(s, 1).done < PartCount[WithBatch(s, 1).round]
           /\ \A q \in Parts : q # NextPart(s) => WithBatch(s, 1).ids[q] = s.ids[q]
<1> DEFINE p == NextPart(s)
           u == WithBatch(s, 1)
<1>1. /\ p \in Parts /\ p[1] \in Rounds /\ p[2] \in Nat /\ p[2] >= 1
      /\ p = <<p[1], p[2]>> /\ p[2] <= PartCount[p[1]]
  BY NextPartOK, PartsTyped
<1>2. s.ids \in [Parts -> 0 .. MaxBatches]
  BY DEF StateOK, RunStates
<1>3. u = [status |-> Submitted, round |-> p[1], done |-> p[2] - 1,
           ids |-> [s.ids EXCEPT ![p] = 1]]
  BY DEF WithBatch
<1>4. PartCount[p[1]] \in Nat
  BY <1>1, RoundsTyped
<1> HIDE DEF p, u
<1>5. u \in RunStates
  BY <1>1, <1>2, <1>3, MaxBatchesAssumption DEF RunStates
<1>6. ActivePart(u) = p
  BY <1>1, <1>3 DEF ActivePart
<1>7. u.ids[p] = 1 /\ \A q \in Parts : q # p => u.ids[q] = s.ids[q]
  BY <1>1, <1>2, <1>3
<1>8. u.status = Submitted /\ u.done < PartCount[u.round]
  BY <1>1, <1>3, <1>4
<1> QED
  BY <1>5, <1>6, <1>7, <1>8 DEF p, u

LEMMA WithBatchOK ==
    ASSUME IndInv, NEW s, StateOK(s), MayBuy(s), Recorded(NextPart(s))
    PROVE  StateOK(WithBatch(s, 1))
<1>1. NextPart(s) \in Parts /\ completed[NextPart(s)] = 1
  BY NextPartOK, RecordedBought
<1>2. \A p \in Parts : s.ids[p] # 0 => Recorded(p) /\ s.ids[p] = completed[p]
  BY DEF StateOK
<1> DEFINE u == WithBatch(s, 1)
<1>3. /\ u \in RunStates /\ u.ids[NextPart(s)] = 1 /\ u.status = Submitted
      /\ ActivePart(u) = NextPart(s) /\ u.done < PartCount[u.round]
      /\ \A q \in Parts : q # NextPart(s) => u.ids[q] = s.ids[q]
  BY WithBatchTyped
<1> HIDE DEF u
<1>4. \A p \in Parts : u.ids[p] # 0 => Recorded(p) /\ u.ids[p] = completed[p]
  BY <1>1, <1>2, <1>3
<1>5. StateOK(u)
  BY <1>3, <1>4 DEF StateOK, Submitted
<1> QED
  BY <1>5 DEF u

---------------------------------------------------------------------------
(* The steps that change neither the journal nor a file. *)

LEMMA LoadStateKeeps ==
    ASSUME IndInv, NEW w \in Workers, LoadState(w) PROVE IndInv'
<1>1. /\ UNCHANGED <<journal, verdicts, files, cut>> /\ run' = run
      /\ crashes' \in 0 .. MaxCrashes /\ reprices' \in 0 .. MaxReprices
  BY DEF LoadState, IndInv, Typed
<1>2. StateOK(run) /\ run \in RunStates
  BY DEF IndInv, StateOK
<1>3. PICK step \in Steps :
         /\ Moves(w, Loaded(step, run))
         /\ \/ step = "part" /\ run.status = "prepared"
            \/ step = "poll" /\ run.status = Submitted
  BY StepsTyped DEF LoadState, Moves
<1>4. PICK me : me = Loaded(step, run)
  OBVIOUS
<1>5. me \in Records /\ me.at = step /\ me.state = run /\ me.next = run
  BY <1>2, <1>4, LoadedTyped
<1>6. KnowsOK(me) /\ ~Holding(me)
  BY <1>2, <1>3, <1>5 DEF KnowsOK, Holding, MayBuy
<1>7. PICK s : s = run
  OBVIOUS
<1> QED
  BY <1>1, <1>2, <1>3, <1>4, <1>5, <1>6, <1>7, QuietMove

LEMMA RepriceKeeps ==
    ASSUME IndInv, NEW w \in Workers, Reprice(w) PROVE IndInv'
<1>1. /\ UNCHANGED <<journal, verdicts, files, cut>> /\ run' = run
      /\ crashes' \in 0 .. MaxCrashes /\ reprices' \in 0 .. MaxReprices
  BY BoundsAssumption DEF Reprice, IndInv, Typed
<1>2. StateOK(run) /\ run \in RunStates
  BY DEF IndInv, StateOK
<1>3. PICK me : me = Loaded("save", run)
  OBVIOUS
<1>4. me \in Records /\ me.at = "save" /\ me.state = run /\ me.next = run
  BY <1>2, <1>3, LoadedTyped, StepsTyped
<1>5. KnowsOK(me) /\ ~Holding(me)
  BY <1>2, <1>4 DEF KnowsOK, Holding
<1>6. Moves(w, me)
  BY <1>3 DEF Reprice, Moves
<1>7. PICK s : s = run
  OBVIOUS
<1> QED
  BY <1>1, <1>2, <1>4, <1>5, <1>6, <1>7, QuietMove

(* A review that needs a human is loaded with the human's decision. *)
LEMMA LoadForResolutionKeeps ==
    ASSUME IndInv, NEW w \in Workers, LoadForResolution(w) PROVE IndInv'
<1>1. /\ UNCHANGED <<journal, verdicts, files, cut>> /\ run' = run
      /\ crashes' \in 0 .. MaxCrashes /\ reprices' \in 0 .. MaxReprices
  BY DEF LoadForResolution, IndInv, Typed
<1>2. StateOK(run) /\ run \in RunStates
  BY DEF IndInv, StateOK
<1>3. PICK h \in Resolutions : Moves(w, [Loaded("resolve", run) EXCEPT !.human = h])
  BY DEF LoadForResolution, Moves
<1>4. PICK me : me = [Loaded("resolve", run) EXCEPT !.human = h]
  OBVIOUS
<1>5. me \in Records /\ me.at = "resolve" /\ me.state = run /\ me.next = run
  BY <1>2, <1>4, LoadedTyped, StepsTyped DEF Records
<1>6. KnowsOK(me) /\ ~Holding(me)
  BY <1>2, <1>5 DEF KnowsOK, Holding
<1>7. PICK s : s = run
  OBVIOUS
<1> QED
  BY <1>1, <1>2, <1>3, <1>4, <1>5, <1>6, <1>7, QuietMove

LEMMA PollKeeps ==
    ASSUME IndInv, NEW w \in Workers, Poll(w) PROVE IndInv'
<1>1. /\ UNCHANGED <<journal, verdicts, files, cut, run>> /\ run' = run
      /\ crashes' \in 0 .. MaxCrashes /\ reprices' \in 0 .. MaxReprices
  BY DEF Poll, IndInv, Typed
<1>2. StateOK(run) /\ KnowsOK(worker[w]) /\ worker[w].at = "poll" /\ worker[w] \in Records
  BY DEF IndInv, Poll, At, Typed
<1> DEFINE s == worker[w].state
           p == ActivePart(s)
<1>3. s.status = Submitted /\ StateOK(s) /\ StateOK(worker[w].next)
  BY <1>2 DEF KnowsOK
<1>4. p \in Parts /\ Recorded(p) /\ s.ids[p] = 1 /\ Len(batches[p]) = 1
  BY <1>3, ActivePartTyped, RecordedBought DEF StateOK
<1>5. CASE GiveUp(w)
  BY <1>1, <1>5, QuietGiveUp
<1>6. CASE \E step \in {"fail", "download"} :
              /\ GoTo(w, step)
              /\ batches[p][1] = (IF step = "fail" THEN "failed" ELSE "done")
  <2>1. PICK step \in {"fail", "download"} :
              /\ GoTo(w, step)
              /\ batches[p][1] = (IF step = "fail" THEN "failed" ELSE "done")
    BY <1>6
  <2>2. PICK me \in Records :
              /\ Moves(w, me) /\ me.at = step /\ me.state = worker[w].state
              /\ me.next = worker[w].next
    BY <2>1, GoToMoves, StepsTyped DEF IndInv
  <2>3. KnowsOK(me) /\ ~Holding(me)
    BY <2>1, <2>2, <1>3, <1>4 DEF KnowsOK, Holding, BatchIs
  <2>4. PICK u : u = run
    OBVIOUS
  <2> QED
    BY <1>1, <1>2, <2>2, <2>3, <2>4, QuietMove
<1>7. GiveUp(w) \/ \E step \in {"fail", "download"} :
              /\ GoTo(w, step)
              /\ batches[p][1] = (IF step = "fail" THEN "failed" ELSE "done")
  BY <1>4 DEF Poll, Copy
<1> QED
  BY <1>5, <1>6, <1>7

(* The next part is recorded already, or free, or somebody else's. *)
LEMMA ReadJournalKeeps ==
    ASSUME IndInv, NEW w \in Workers, ReadJournal(w) PROVE IndInv'
<1>1. /\ UNCHANGED <<journal, verdicts, files, cut, run>> /\ run' = run
      /\ crashes' \in 0 .. MaxCrashes /\ reprices' \in 0 .. MaxReprices
  BY DEF ReadJournal, IndInv, Typed
<1> DEFINE s == worker[w].state
           p == NextPart(s)
<1>2. StateOK(run) /\ StateOK(s) /\ MayBuy(s) /\ StateOK(worker[w].next)
  BY DEF IndInv, ReadJournal, At, KnowsOK
<1>u. PICK u : u = run
  OBVIOUS
<1>3. CASE Recorded(p) /\ Keeping(w, "save", WithBatch(s, completed[p]))
  <2>1. p \in Parts /\ completed[p] = 1
    BY <1>2, <1>3, NextPartOK, RecordedBought
  <2>2. StateOK(WithBatch(s, 1)) /\ WithBatch(s, 1) \in RunStates
    BY <1>2, <1>3, WithBatchOK DEF StateOK
  <2>3. PICK me \in Records : /\ Moves(w, me) /\ me.at = "save" /\ me.state = worker[w].state
                              /\ me.next = WithBatch(s, 1)
    BY <1>3, <2>1, <2>2, KeepingMoves, StepsTyped DEF IndInv
  <2>4. KnowsOK(me) /\ ~Holding(me)
    BY <1>2, <2>2, <2>3 DEF KnowsOK, Holding
  <2> QED
    BY <1>1, <1>2, <1>u, <2>3, <2>4, QuietMove
<1>4. CASE GoTo(w, "claim")
  <2>1. PICK me \in Records : /\ Moves(w, me) /\ me.at = "claim"
                              /\ me.state = worker[w].state /\ me.next = worker[w].next
    BY <1>4, GoToMoves, StepsTyped DEF IndInv
  <2>2. KnowsOK(me) /\ ~Holding(me)
    BY <1>2, <2>1 DEF KnowsOK, Holding
  <2> QED
    BY <1>1, <1>2, <1>u, <2>1, <2>2, QuietMove
<1>5. CASE GiveUp(w)
  BY <1>1, <1>5, QuietGiveUp
<1> QED
  BY <1>3, <1>4, <1>5 DEF ReadJournal, Copy

LEMMA ProviderRefusesKeeps ==
    ASSUME IndInv, NEW w \in Workers, ProviderRefuses(w) PROVE IndInv'
BY QuietGiveUp DEF ProviderRefuses, IndInv, Typed

(* Whatever the state says by now, the copy in hand is worth as much. *)
LEMMA SaveStateKeeps ==
    ASSUME IndInv, NEW w \in Workers, SaveState(w) PROVE IndInv'
<1>1. /\ UNCHANGED <<journal, verdicts, files, cut>>
      /\ crashes' \in 0 .. MaxCrashes /\ reprices' \in 0 .. MaxReprices
  BY DEF SaveState, IndInv, Typed
<1>2. PICK s : s = worker[w].next
  OBVIOUS
<1>3. run' = s /\ StateOK(s)
  BY <1>2 DEF SaveState, IndInv, At, KnowsOK
<1>4. PICK me \in Records : Moves(w, me) /\ KnowsOK(me) /\ ~Holding(me)
  BY GiveUpMoves DEF SaveState, IndInv
<1> QED
  BY <1>1, <1>3, <1>4, QuietMove

---------------------------------------------------------------------------
(* The steps that write a file. *)

(* A file more takes nothing from the copies, provided that two humans do  *)
(* not both have one of a kind.                                            *)
LEMMA FileGrowth ==
    ASSUME FilesOK', NEW a, files' = files \cup {a}, UNCHANGED <<journal, verdicts, cut>>
    PROVE  Growth
<1>1. Published => Published'
  <2>1. CASE verdicts.ending = "completed" /\ <<"reviewed">> \in files
    BY <2>1 DEF Published
  <2>2. ASSUME NEW h \in Resolutions,
               \A kind \in HumanKinds : files \cap HumanFiles(kind) = {<<kind, h>>}
        PROVE  \A kind \in HumanKinds : files' \cap HumanFiles(kind) = {<<kind, h>>}
    <3>1. ASSUME NEW kind \in HumanKinds
          PROVE  files' \cap HumanFiles(kind) = {<<kind, h>>}
      <4>1. files \cap HumanFiles(kind) = {<<kind, h>>} /\ <<kind, h>> \in files'
        BY <2>2
      <4>2. \A g \in Resolutions : <<kind, g>> \in files' => g = h
        BY <4>1 DEF FilesOK
      <4> QED
        BY <4>1, <4>2 DEF HumanFiles
    <3> QED
      BY <3>1
  <2> QED
    BY <2>1, <2>2 DEF Published
<1> QED
  BY <1>1 DEF journal, Growth, Recorded, BatchIs

(* One worker writes a file and moves on. *)
LEMMA FileMove ==
    ASSUME IndInv, NEW w \in Workers, NEW me \in Records, Moves(w, me),
           NEW a \in Artifacts, files' = files \cup {a},
           UNCHANGED <<journal, verdicts, run, cut, crashes, reprices>>,
           JournalOK', FilesOK', KnowsOK(me)', ~Holding(me)
    PROVE  IndInv'
<1>1. Growth
  BY FileGrowth
<1>2. Typed'
  BY DEF IndInv, Typed, Moves, JournalTypeOK, journal
<1>3. StateOK(run)'
  BY <1>1, StateKept DEF IndInv
<1>4. \A p \in Parts : Untouched(p)
  BY DEF journal, Untouched
<1> QED
  BY <1>1, <1>2, <1>3, <1>4, OneMoves, HeldPart DEF Moves

(* A file that is no output and no ending says nothing of the batches. *)
LEMMA PlainFile ==
    ASSUME IndInv, NEW a, files' = files \cup {a}, UNCHANGED <<journal, verdicts, cut>>,
           a \notin Endings, \A p \in Parts : a # <<"output", p>>,
           \A kind \in HumanKinds, h \in Resolutions : a = <<kind, h>> =>
               \A g \in Resolutions : <<kind, g>> \in files \cup cut => g = h
    PROVE  JournalOK' /\ FilesOK'
<1>1. Answered' = Answered
  BY DEF Answered
<1>2. JournalOK'
  BY <1>1 DEF IndInv, JournalOK, journal, BatchIs
<1>3. <<"terminal">> \in Endings /\ Queues \cup {<<"reviewed">>} \subseteq Endings
  BY DEF Endings
<1>4. \A q \in Parts, how \in {"done", "failed"} : BatchIs(q, how)' <=> BatchIs(q, how)
  BY DEF BatchIs, journal
<1>5. (<<"terminal">> \in files => \E q \in Parts : BatchIs(q, "failed"))'
  BY <1>3, <1>4 DEF IndInv, FilesOK
<1>6. (files \cap (Queues \cup {<<"reviewed">>}) # {} =>
          \A p \in Parts : p[1] <= verdicts.last => p \in Answered)'
  BY <1>1, <1>3 DEF IndInv, FilesOK
<1>7. ASSUME NEW kind \in HumanKinds, NEW g \in Resolutions, NEW h \in Resolutions,
             <<kind, g>> \in files' \cup cut, <<kind, h>> \in files' \cup cut
      PROVE  g = h
  <2>1. \A x, y \in Resolutions :
           <<kind, x>> \in files \cup cut /\ <<kind, y>> \in files \cup cut => x = y
    BY DEF IndInv, FilesOK
  <2>2. <<kind, g>> = a \/ <<kind, g>> \in files \cup cut
    BY <1>7
  <2>3. <<kind, h>> = a \/ <<kind, h>> \in files \cup cut
    BY <1>7
  <2>4. <<kind, g>> = <<kind, h>> => g = h
    OBVIOUS
  <2> QED
    BY <2>1, <2>2, <2>3, <2>4
<1> QED
  BY <1>2, <1>5, <1>6, <1>7 DEF FilesOK

(* The answer of a batch that is done. *)
LEMMA DownloadKeeps ==
    ASSUME IndInv, NEW w \in Workers, Download(w) PROVE IndInv'
<1> DEFINE s == worker[w].state
           p == ActivePart(s)
           a == <<"output", p>>
<1>1. /\ StateOK(s) /\ s.status = Submitted /\ StateOK(worker[w].next)
      /\ BatchIs(p, "done") /\ worker[w].at = "download"
  BY DEF IndInv, Download, At, KnowsOK
<1>2. p \in Parts /\ Recorded(p) /\ s.done \in Nat /\ s.done + 1 <= PartCount[s.round]
      /\ PartCount[s.round] \in Nat
  BY <1>1, ActivePartTyped, RoundsTyped
<1>3. CASE GiveUp(w) /\ UNCHANGED files
  BY <1>3, QuietGiveUp DEF Download, IndInv, Typed
<1>4. CASE /\ files' = files \cup {a}
           /\ GoTo(w, IF s.done + 1 < PartCount[s.round] THEN "part" ELSE "results")
  <2>0. UNCHANGED <<journal, verdicts, run, cut, crashes, reprices>>
    BY DEF Download
  <2>1. PICK me \in Records :
           /\ Moves(w, me)
           /\ me.at = (IF s.done + 1 < PartCount[s.round] THEN "part" ELSE "results")
           /\ me.state = s /\ me.next = worker[w].next
    BY <1>4, GoToMoves, StepsTyped DEF IndInv
  <2>2. Answered' = Answered \cup {p}
    BY <1>2, <1>4, NamesApart DEF Answered
  <2>3. JournalOK'
    BY <1>1, <2>0, <2>2 DEF IndInv, JournalOK, journal, BatchIs
  <2>4. /\ a \notin Endings /\ a \in Artifacts
        /\ \A kind \in HumanKinds, h \in Resolutions : a # <<kind, h>>
    BY <1>2, NamesApart DEF Artifacts
  <2>5. FilesOK'
    <3>1. <<"terminal">> \in Endings /\ Queues \cup {<<"reviewed">>} \subseteq Endings
      BY DEF Endings
    <3>2. \A q \in Parts, how \in {"done", "failed"} : BatchIs(q, how)' <=> BatchIs(q, how)
      BY <2>0 DEF BatchIs, journal
    <3>3. (<<"terminal">> \in files => \E q \in Parts : BatchIs(q, "failed"))'
      BY <1>4, <2>4, <3>1, <3>2 DEF IndInv, FilesOK
    <3>4. (files \cap (Queues \cup {<<"reviewed">>}) # {} =>
              \A q \in Parts : q[1] <= verdicts.last => q \in Answered)'
      BY <1>4, <2>0, <2>2, <2>4, <3>1 DEF IndInv, FilesOK
    <3>5. ASSUME NEW kind \in HumanKinds, NEW g \in Resolutions, NEW h \in Resolutions,
                 <<kind, g>> \in files' \cup cut', <<kind, h>> \in files' \cup cut'
          PROVE  g = h
      BY <1>4, <2>0, <2>4, <3>5, Zenon DEF IndInv, FilesOK
    <3> QED
      BY <3>3, <3>4, <3>5 DEF FilesOK
  <2>6. Growth
    BY <1>4, <2>0, <2>5, FileGrowth
  <2>7. StateOK(me.state)' /\ StateOK(me.next)'
    BY <1>1, <2>1, <2>6, StateKept
  <2>8. KnowsOK(me)' /\ ~Holding(me)
    BY <1>1, <1>2, <2>0, <2>1, <2>2, <2>7
       DEF KnowsOK, Holding, MayBuy, RoundAnswered, ActivePart
  <2> QED
    BY <1>4, <2>0, <2>1, <2>3, <2>4, <2>5, <2>8, FileMove
<1> QED
  BY <1>3, <1>4 DEF Download, WriteOnce, Copy

LEMMA ResultsKeeps ==
    ASSUME IndInv, NEW w \in Workers, Results(w) PROVE IndInv'
<1> DEFINE s == worker[w].state
           a == <<"results", s.round>>
<1>1. /\ StateOK(s) /\ s.status = Submitted /\ StateOK(worker[w].next)
      /\ RoundAnswered(s) /\ verdicts \in Verdicts
  BY DEF IndInv, Results, At, KnowsOK, Typed
<1>2. s.round \in Rounds /\ s.round \in Nat /\ verdicts.last \in Nat
  BY <1>1, ActivePartTyped, RoundsTyped, VerdictsTyped
<1>3. CASE GiveUp(w) /\ UNCHANGED files
  BY <1>3, QuietGiveUp DEF Results, IndInv, Typed
<1>4. CASE files' = files \cup {a} /\ GoTo(w, Afterwards(s.round))
  <2>0. UNCHANGED <<journal, verdicts, run, cut, crashes, reprices>>
    BY DEF Results
  <2>1. PICK step \in Steps :
           /\ GoTo(w, step)
           /\ \/ step = "part" /\ s.round < verdicts.last
              \/ step = "idle"
              \/ step = "finish" /\ verdicts.last <= s.round /\ verdicts.ending # "refused"
    BY <1>2, <1>4, StepsTyped DEF Afterwards
  <2>2. PICK me \in Records : /\ Moves(w, me) /\ me.at = step
                              /\ me.state = s /\ me.next = worker[w].next
    BY <2>1, GoToMoves DEF IndInv
  <2>3. /\ a \in Artifacts /\ a \notin Endings /\ \A p \in Parts : a # <<"output", p>>
        /\ \A kind \in HumanKinds, h \in Resolutions : a # <<kind, h>>
    BY <1>2, NamesApart DEF Artifacts
  <2>4. JournalOK' /\ FilesOK'
    BY <1>4, <2>0, <2>3, PlainFile
  <2>5. KnowsOK(me) /\ ~Holding(me)
    BY <1>1, <2>1, <2>2 DEF KnowsOK, Holding, MayBuy, RoundAnswered
  <2>6. KnowsOK(me)'
    BY <1>4, <2>0, <2>4, <2>5, FileGrowth, KnowsKept
  <2> QED
    BY <1>4, <2>0, <2>2, <2>3, <2>4, <2>5, <2>6, FileMove
<1> QED
  BY <1>3, <1>4 DEF Results, WriteOnce, Copy

(* The end of the review is published, and the state of it comes next. *)
LEMMA PublishKeeps ==
    ASSUME IndInv, NEW w \in Workers, NEW a \in Artifacts, NEW u \in RunStates,
           Publish(w, a, u),
           files' = files \cup {a} => JournalOK' /\ FilesOK' /\ (Growth => StateOK(u)')
    PROVE  IndInv'
<1>0. UNCHANGED <<journal, verdicts, run, cut, crashes, reprices>>
  BY DEF Publish
<1>1. CASE GiveUp(w) /\ UNCHANGED files
  BY <1>0, <1>1, QuietGiveUp DEF IndInv, Typed
<1>2. CASE files' = files \cup {a} /\ Keeping(w, "save", u)
  <2>1. PICK me \in Records : /\ Moves(w, me) /\ me.at = "save"
                              /\ me.state = worker[w].state /\ me.next = u
    BY <1>2, KeepingMoves, StepsTyped DEF IndInv
  <2>2. Growth
    BY <1>0, <1>2, FileGrowth
  <2>3. StateOK(me.state)
    BY <2>1 DEF IndInv, KnowsOK
  <2>4. StateOK(me.state)'
    BY <2>2, <2>3, StateKept
  <2>5. StateOK(me.next)'
    BY <1>2, <2>1, <2>2
  <2>6. KnowsOK(me)' /\ ~Holding(me)
    BY <2>1, <2>4, <2>5 DEF KnowsOK, Holding
  <2> QED
    BY <1>0, <1>2, <2>1, <2>6, FileMove
<1> QED
  BY <1>1, <1>2 DEF Publish

(* When the last round is answered, everything before it is. *)
LEMMA AllAnswered ==
    ASSUME IndInv, NEW s, StateOK(s), s.status = Submitted, RoundAnswered(s),
           verdicts.last <= s.round
    PROVE  \A p \in Parts : p[1] <= verdicts.last => p \in Answered
<1> DEFINE q == ActivePart(s)
<1>1. /\ q \in Parts /\ q = <<s.round, s.done + 1>> /\ Recorded(q) /\ q \in Answered
      /\ s.done + 1 = PartCount[s.round]
  BY ActivePartTyped DEF RoundAnswered, ActivePart
<1>2. Earlier(q) \subseteq Answered
  BY <1>1, RecordedBought
<1>3. verdicts.last \in Nat /\ s.round \in Nat
  BY ActivePartTyped, VerdictsTyped, RoundsTyped DEF IndInv, Typed
<1>4. ASSUME NEW p \in Parts, p[1] <= verdicts.last, p # q PROVE p \in Earlier(q)
  <2>1. q \notin Earlier(p)
    BY <1>1, <1>3, <1>4, PartsTyped, RoundsTyped DEF Earlier, Precedes
  <2> QED
    BY <1>1, <1>4, <2>1, PartsOrdered
<1> QED
  BY <1>1, <1>2, <1>4

LEMMA FinalizeKeeps ==
    ASSUME IndInv, NEW w \in Workers, Finalize(w) PROVE IndInv'
<1>0. PICK s : s = worker[w].state
  OBVIOUS
<1>1. /\ StateOK(s) /\ s.status = Submitted /\ RoundAnswered(s)
      /\ verdicts.last <= s.round /\ verdicts.ending # "refused"
  BY <1>0 DEF IndInv, Finalize, At, KnowsOK, Typed
<1>2. PICK a : a = EndingOf(s)
  OBVIOUS
<1>3. PICK u : u = [s EXCEPT !.status = verdicts.ending, !.done = @ + 1]
  OBVIOUS
<1>4. Publish(w, a, u)
  BY <1>0, <1>2, <1>3 DEF Finalize, Copy
<1>5. /\ a \in Queues \cup {<<"reviewed">>}
      /\ verdicts.ending = "completed" => a = <<"reviewed">>
  BY <1>2 DEF EndingOf, Queues
<1>6. a \in Endings /\ a \in Artifacts /\ a # <<"terminal">>
  BY <1>5, NamesApart DEF Endings, Artifacts
<1>7. s \in RunStates /\ verdicts.ending \in {"completed", "needs_human"}
  BY <1>1, VerdictsTyped DEF StateOK, IndInv, Typed
<1>8. /\ u \in RunStates /\ u.ids = s.ids /\ u.status = verdicts.ending
  <2>1. PICK e \in {"completed", "needs_human"} : e = verdicts.ending
    BY <1>7
  <2>2. PICK n \in Nat : n = s.done + 1
    BY <1>7 DEF RunStates
  <2>3. u = [[s EXCEPT !.status = e] EXCEPT !.done = n]
    BY <1>3, <1>7, <2>1, <2>2 DEF RunStates
  <2> QED
    BY <1>7, <2>1, <2>3 DEF RunStates
<1>9. ASSUME files' = files \cup {a}
      PROVE  JournalOK' /\ FilesOK' /\ (Growth => StateOK(u)')
  <2>0. UNCHANGED <<journal, verdicts, cut>>
    BY <1>4 DEF Publish
  <2>1. Answered' = Answered
    BY <1>6, <1>9, NamesApart DEF Answered
  <2>2. JournalOK'
    BY <2>0, <2>1 DEF IndInv, JournalOK, journal, BatchIs
  <2>3. \A p \in Parts : p[1] <= verdicts.last => p \in Answered
    BY <1>1, AllAnswered
  <2>4. \A q \in Parts, how \in {"done", "failed"} : BatchIs(q, how)' <=> BatchIs(q, how)
    BY <2>0 DEF BatchIs, journal
  <2>5. ASSUME NEW kind \in HumanKinds, NEW h \in Resolutions,
               <<kind, h>> \in files' \cup cut'
        PROVE  <<kind, h>> \in files \cup cut
    BY <1>6, <1>9, <2>0, <2>5, NamesApart
  <2>6. FilesOK'
    BY <1>6, <1>9, <2>0, <2>1, <2>3, <2>4, <2>5 DEF IndInv, FilesOK
  <2>7. u.status = "completed" => Published'
    BY <1>5, <1>8, <1>9, <2>0 DEF Published
  <2>8. ASSUME Growth PROVE StateOK(u)'
    <3>1. StateOK(s)'
      BY <1>1, <2>8, StateKept
    <3> QED
      BY <1>7, <1>8, <2>7, <3>1 DEF StateOK, Submitted
  <2> QED
    BY <2>2, <2>6, <2>8
<1> QED
  BY <1>4, <1>6, <1>8, <1>9, PublishKeeps

LEMMA FailBatchKeeps ==
    ASSUME IndInv, NEW w \in Workers, FailBatch(w) PROVE IndInv'
<1>0. PICK s : s = worker[w].state
  OBVIOUS
<1>1. StateOK(s) /\ s.status = Submitted /\ BatchIs(ActivePart(s), "failed")
  BY <1>0 DEF IndInv, FailBatch, At, KnowsOK
<1>2. PICK a : a = <<"terminal">>
  OBVIOUS
<1>3. PICK u : u = [s EXCEPT !.status = "failed"]
  OBVIOUS
<1>4. Publish(w, a, u)
  BY <1>0, <1>2, <1>3 DEF FailBatch, Copy
<1>5. a \in Endings /\ a \in Artifacts /\ a \notin Queues \cup {<<"reviewed">>}
  BY <1>2, NamesApart DEF Endings, Artifacts
<1>6. s \in RunStates /\ ActivePart(s) \in Parts
  BY <1>1, ActivePartTyped DEF StateOK
<1>7. /\ u \in RunStates /\ u.ids = s.ids /\ u.status = "failed"
  BY <1>3, <1>6 DEF RunStates
<1>8. ASSUME files' = files \cup {a}
      PROVE  JournalOK' /\ FilesOK' /\ (Growth => StateOK(u)')
  <2>0. UNCHANGED <<journal, verdicts, cut>>
    BY <1>4 DEF Publish
  <2>1. Answered' = Answered
    BY <1>5, <1>8, NamesApart DEF Answered
  <2>2. JournalOK'
    BY <2>0, <2>1 DEF IndInv, JournalOK, journal, BatchIs
  <2>3. \A q \in Parts : BatchIs(q, "failed")' <=> BatchIs(q, "failed")
    BY <2>0 DEF BatchIs, journal
  <2>4. \E q \in Parts : BatchIs(q, "failed")'
    BY <1>1, <1>6, <2>3
  <2>5. ASSUME NEW kind \in HumanKinds, NEW h \in Resolutions,
               <<kind, h>> \in files' \cup cut'
        PROVE  <<kind, h>> \in files \cup cut
    BY <1>5, <1>8, <2>0, <2>5, NamesApart
  <2>6. FilesOK'
    BY <1>5, <1>8, <2>0, <2>1, <2>4, <2>5 DEF IndInv, FilesOK
  <2>7. ASSUME Growth PROVE StateOK(u)'
    <3>1. StateOK(s)'
      BY <1>1, <2>7, StateKept
    <3> QED
      BY <1>7, <3>1 DEF StateOK, Submitted
  <2> QED
    BY <2>2, <2>6, <2>7
<1> QED
  BY <1>4, <1>5, <1>7, <1>8, PublishKeeps

---------------------------------------------------------------------------
(* The human review. *)

(* A file that no other human has taken may be written. *)
LEMMA HumanFileFree ==
    ASSUME IndInv, NEW w \in Workers, NEW kind \in HumanKinds, ~Taken(w, kind),
           NEW a, a = <<kind, worker[w].human>>,
           files' = files \cup {a}, UNCHANGED <<journal, verdicts, cut>>
    PROVE  a \in Artifacts /\ JournalOK' /\ FilesOK'
<1>1. worker[w].human \in Resolutions
  BY DEF IndInv, Typed, Records
<1>2. a \in HumanFiles(kind)
  BY <1>1 DEF HumanFiles
<1>3. a \in Artifacts
  BY <1>2 DEF Artifacts
<1>4. a \notin Endings /\ \A p \in Parts : a # <<"output", p>>
  BY NamesApart
<1>5. \A g \in Resolutions : <<kind, g>> \in files \cup cut => g = worker[w].human
  <2>1. ASSUME NEW g \in Resolutions, <<kind, g>> \in files \cup cut, g # worker[w].human
        PROVE  FALSE
    <3>1. <<kind, g>> \in HumanFiles(kind) \ {<<kind, worker[w].human>>}
      BY <2>1 DEF HumanFiles
    <3> QED
      BY <2>1, <3>1 DEF Taken
  <2> QED
    BY <2>1
<1>6. \A k \in HumanKinds, h \in Resolutions : a = <<k, h>> =>
          \A g \in Resolutions : <<k, g>> \in files \cup cut => g = h
  BY <1>5
<1> QED
  BY <1>3, <1>4, <1>6, PlainFile

LEMMA HumanFileKeeps ==
    ASSUME IndInv, NEW w \in Workers, NEW kind \in HumanKinds, NEW next \in Steps,
           WriteHumanFile(w, kind, next),
           \/ kind = "resolution" /\ next = "decide" /\ worker[w].at = "resolve"
           \/ kind = "decisions" /\ next = "promote" /\ worker[w].at = "decide"
    PROVE  IndInv'
<1>0. UNCHANGED <<journal, verdicts, run, cut, crashes, reprices>>
  BY DEF WriteHumanFile
<1>1. CASE GiveUp(w) /\ UNCHANGED files
  BY <1>0, <1>1, QuietGiveUp DEF IndInv, Typed
<1>2. CASE /\ ~Taken(w, kind) /\ GoTo(w, next)
           /\ files' = files \cup {<<kind, worker[w].human>>}
  <2>1. PICK me \in Records : /\ Moves(w, me) /\ me.at = next
                              /\ me.state = worker[w].state /\ me.next = worker[w].next
                              /\ me.human = worker[w].human
    BY <1>2, GoToMoves DEF IndInv
  <2>2. PICK a : a = <<kind, worker[w].human>>
    OBVIOUS
  <2>3. a \in Artifacts /\ JournalOK' /\ FilesOK'
    BY <1>0, <1>2, <2>2, HumanFileFree
  <2>4. Growth
    BY <1>0, <1>2, <2>2, <2>3, FileGrowth
  <2>5. KnowsOK(worker[w])
    BY DEF IndInv
  <2>6. StateOK(me.state) /\ next # "record" /\ worker[w].at \in Steps
    BY <2>1, <2>5 DEF KnowsOK, IndInv, Typed, Records
  <2>7. StateOK(me.next)
    BY <2>1, <2>5 DEF KnowsOK
  <2>8. StateOK(me.state)' /\ StateOK(me.next)'
    BY <2>4, <2>6, <2>7, StateKept
  <2>9. KnowsOK(me)' /\ ~Holding(me)
    BY <1>2, <2>1, <2>5, <2>8 DEF KnowsOK, Holding
  <2> QED
    BY <1>0, <1>2, <2>1, <2>2, <2>3, <2>9, FileMove
<1> QED
  BY <1>1, <1>2 DEF WriteHumanFile, WriteOnce

(* The subtitles complete what the resolution and the decisions began. *)
LEMMA PromoteOutputsKeeps ==
    ASSUME IndInv, NEW w \in Workers, PromoteOutputs(w) PROVE IndInv'
<1>0. PICK s : s = worker[w].state
  OBVIOUS
<1>1. PICK h \in Resolutions : h = worker[w].human
  BY DEF IndInv, Typed, Records
<1>2. StateOK(s) /\ <<"resolution", h>> \in files /\ <<"decisions", h>> \in files
  BY <1>0, <1>1 DEF IndInv, PromoteOutputs, At, KnowsOK
<1>3. CASE /\ Taken(w, "subtitles") /\ GiveUp(w)
           /\ UNCHANGED <<journal, verdicts, run, files, cut, crashes, reprices>>
  BY <1>3, QuietGiveUp DEF IndInv, Typed
<1>4. PICK a : a = <<"subtitles", h>>
  OBVIOUS
<1>5. PICK u : u = [s EXCEPT !.status = "completed"]
  OBVIOUS
<1>6. CASE ~Taken(w, "subtitles") /\ Publish(w, a, u)
  <2>0. UNCHANGED <<journal, verdicts, cut>> /\ "subtitles" \in HumanKinds
    BY <1>6 DEF Publish, HumanKinds
  <2>1. a \in HumanFiles("subtitles")
    BY <1>4 DEF HumanFiles
  <2>2. a \in Artifacts
    BY <2>0, <2>1 DEF Artifacts
  <2>3. s \in RunStates
    BY <1>2 DEF StateOK
  <2>4. u \in RunStates /\ u.ids = s.ids /\ u.status = "completed"
    BY <1>5, <2>3 DEF RunStates
  <2>5. ASSUME files' = files \cup {a}
        PROVE  JournalOK' /\ FilesOK' /\ (Growth => StateOK(u)')
    <3>1. JournalOK' /\ FilesOK'
      BY <1>1, <1>4, <1>6, <2>0, <2>5, HumanFileFree
    <3>2. Published'
      <4>1. \A kind \in HumanKinds : <<kind, h>> \in files'
        BY <1>2, <1>4, <2>5 DEF HumanKinds
      <4>2. \A kind \in HumanKinds, g \in Resolutions : <<kind, g>> \in files' => g = h
        BY <4>1, <3>1 DEF FilesOK
      <4>3. \A kind \in HumanKinds : files' \cap HumanFiles(kind) = {<<kind, h>>}
        BY <4>1, <4>2 DEF HumanFiles
      <4> QED
        BY <4>3 DEF Published
    <3>3. ASSUME Growth PROVE StateOK(u)'
      <4>1. StateOK(s)'
        BY <1>2, <3>3, StateKept
      <4> QED
        BY <2>3, <2>4, <3>2, <4>1 DEF StateOK, Submitted
    <3> QED
      BY <3>1, <3>3
  <2> QED
    BY <1>6, <2>2, <2>4, <2>5, PublishKeeps
<1> QED
  BY <1>0, <1>1, <1>3, <1>4, <1>5, <1>6 DEF PromoteOutputs, Copy

---------------------------------------------------------------------------
(* The steps of the journal. *)

(* The intent is created exclusively, so no other worker holds the part.   *)
LEMMA ClaimGrowth ==
    ASSUME IndInv, NEW p \in Parts, ClaimPart(p), UNCHANGED <<verdicts, files, cut>>
    PROVE  /\ Growth /\ JournalOK' /\ FilesOK' /\ JournalTypeOK'
           /\ batches[p] = << >> /\ completed[p] = 0 /\ p \notin torn
           /\ \A v \in Workers : Holding(worker[v]) =>
                 /\ Untouched(NextPart(worker[v].state))
                 /\ NextPart(worker[v].state) # p
<1>1. Growth /\ FilesOK' /\ JournalTypeOK'
  BY DEF ClaimPart, Growth, Recorded, BatchIs, Published, IndInv, FilesOK, Answered, Typed,
         JournalTypeOK
<1>2. batches[p] = << >> /\ completed[p] = 0 /\ p \notin torn
  BY DEF ClaimPart, IndInv, JournalOK, Typed, JournalTypeOK
<1>3. JournalOK'
  BY DEF ClaimPart, IndInv, JournalOK, Answered, BatchIs
<1>4. \A v \in Workers : Holding(worker[v]) =>
          /\ Untouched(NextPart(worker[v].state))
          /\ NextPart(worker[v].state) # p
  BY HeldPart DEF ClaimPart, Untouched
<1> QED
  BY <1>1, <1>2, <1>3, <1>4

LEMMA WriteIntentKeeps ==
    ASSUME IndInv, NEW w \in Workers, WriteIntent(w) PROVE IndInv'
<1>0. PICK s : s = worker[w].state
  OBVIOUS
<1>1. PICK p : p = NextPart(s)
  OBVIOUS
<1>2. UNCHANGED <<verdicts, run, files, cut, crashes, reprices>>
  BY DEF WriteIntent
<1>3. StateOK(s) /\ MayBuy(s) /\ KnowsOK(worker[w]) /\ worker[w].at = "claim" /\ p \in Parts
  BY <1>0, <1>1, NextPartOK DEF IndInv, WriteIntent, At, KnowsOK
<1>4. CASE GiveUp(w) /\ UNCHANGED journal
  BY <1>2, <1>4, QuietGiveUp DEF IndInv, Typed
<1>5. CASE ClaimPart(p) /\ GoTo(w, "call")
  <2>1. /\ Growth /\ JournalOK' /\ FilesOK' /\ JournalTypeOK'
        /\ batches[p] = << >> /\ completed[p] = 0 /\ p \notin torn
        /\ \A v \in Workers : Holding(worker[v]) =>
              /\ Untouched(NextPart(worker[v].state))
              /\ NextPart(worker[v].state) # p
    BY <1>2, <1>3, <1>5, ClaimGrowth
  <2>2. PICK me \in Records : /\ Moves(w, me) /\ me.at = "call" /\ me.state = s
                              /\ me.next = worker[w].next
    BY <1>0, <1>5, GoToMoves, StepsTyped DEF IndInv
  <2>3. KnowsOK(me)
    BY <1>0, <1>3, <2>2 DEF KnowsOK
  <2>4. KnowsOK(me)'
    BY <2>1, <2>3, KnowsKept
  <2>5. HoldsOK(me)'
    BY <1>1, <1>5, <2>1, <2>2 DEF HoldsOK, ClaimPart, NextPart, Submitted
  <2>6. Typed'
    BY <1>2, <2>1, <2>2 DEF IndInv, Typed, Moves
  <2>7. StateOK(run)'
    BY <1>2, <2>1, StateKept DEF IndInv
  <2> QED
    BY <1>1, <2>1, <2>2, <2>4, <2>5, <2>6, <2>7, OneMoves DEF Moves
<1> QED
  BY <1>0, <1>1, <1>4, <1>5 DEF WriteIntent, Copy

(* The first batch of a part whose earlier parts are answered. *)
LEMMA AcceptGrowth ==
    ASSUME IndInv, NEW p \in Parts, ProviderAccepts(p), UNCHANGED <<verdicts, files, cut>>,
           batches[p] = << >>, p \in intent, completed[p] = 0,
           p[1] <= verdicts.last, Earlier(p) \subseteq Answered
    PROVE  /\ Growth /\ JournalOK' /\ FilesOK' /\ JournalTypeOK'
           /\ batches' = [batches EXCEPT ![p] = <<"running">>]
           /\ \A q \in Parts \ {p} : Untouched(q)
<1>1. batches' = [batches EXCEPT ![p] = <<"running">>]
  <2>1. Append(batches[p], "running") = <<"running">>
    OBVIOUS
  <2> QED
    BY <2>1 DEF ProviderAccepts
<1>2. UNCHANGED <<intent, completed, torn>> /\ JournalTypeOK
  BY DEF ProviderAccepts, IndInv, Typed
<1>3. batches'[p] = <<"running">> /\ \A q \in Parts \ {p} : batches'[q] = batches[q]
  BY <1>1, <1>2 DEF JournalTypeOK
<1>4. ~BatchIs(p, "done") /\ ~BatchIs(p, "failed")
  BY DEF BatchIs
<1>5. \A q \in Parts, how \in {"done", "failed"} : BatchIs(q, how) => BatchIs(q, how)'
  BY <1>3, <1>4 DEF BatchIs
<1>6. Growth
  BY <1>2, <1>5 DEF Growth, Recorded, Published
<1>7. FilesOK'
  BY <1>5 DEF IndInv, FilesOK, Answered
<1>8. Len(<<"running">>) = 1 /\ <<"running">> \in Seq(BatchStatuses)
  BY DEF BatchStatuses
<1>9. JournalTypeOK'
  BY <1>1, <1>2, <1>3, <1>8, MaxBatchesAssumption DEF JournalTypeOK
<1>10. JournalOK'
  <2>1. ASSUME NEW q \in Parts, q # p
        PROVE  /\ Len(batches'[q]) <= 1
               /\ batches'[q] # << >> =>
                    q \in intent /\ q[1] <= verdicts.last /\ Earlier(q) \subseteq Answered
               /\ completed[q] # 0 =>
                    completed[q] = 1 /\ Len(batches'[q]) = 1 /\ q \notin torn
               /\ q \in Answered => BatchIs(q, "done")'
    BY <1>3, <1>5, <2>1 DEF IndInv, JournalOK
  <2>2. p \notin Answered /\ torn \subseteq intent
    BY <1>4 DEF IndInv, JournalOK
  <2> QED
    BY <1>2, <1>3, <1>8, <2>1, <2>2 DEF JournalOK, Answered
<1>11. \A q \in Parts \ {p} : Untouched(q)
  BY <1>2, <1>3 DEF Untouched
<1> QED
  BY <1>1, <1>6, <1>7, <1>9, <1>10, <1>11

(* What a worker that calls or records holds. *)
LEMMA HolderOK ==
    ASSUME IndInv, NEW w \in Workers, Holding(worker[w]), NEW s, s = worker[w].state,
           NEW p, p = NextPart(s)
    PROVE  /\ StateOK(s) /\ MayBuy(s)
           /\ p \in Parts /\ p \in intent /\ p \notin torn /\ completed[p] = 0
           /\ p[1] <= verdicts.last /\ Earlier(p) \subseteq Answered
           /\ worker[w].at = "call" => batches[p] = << >>
           /\ worker[w].at = "record" =>
                 Len(batches[p]) = 1 /\ worker[w].next = WithBatch(s, 1)
           /\ \A v \in Workers \ {w} : Holding(worker[v]) =>
                 NextPart(worker[v].state) \in Parts \ {p}
<1>1. StateOK(s) /\ MayBuy(s)
  BY DEF IndInv, KnowsOK, Holding
<1>2. HoldsOK(worker[w])
  BY DEF IndInv
<1>3. \A v \in Workers \ {w} : Holding(worker[v]) =>
          NextPart(worker[v].state) \in Parts \ {p}
  BY HeldPart DEF IndInv, HoldersApart
<1> QED
  BY <1>1, <1>2, <1>3, NextPartOK DEF HoldsOK

LEMMA CallProviderKeeps ==
    ASSUME IndInv, NEW w \in Workers, CallProvider(w) PROVE IndInv'
<1>0. PICK s : s = worker[w].state
  OBVIOUS
<1>1. PICK p : p = NextPart(s)
  OBVIOUS
<1>2. /\ ProviderAccepts(p) /\ worker[w].at = "call" /\ Holding(worker[w])
      /\ UNCHANGED <<verdicts, run, files, cut, crashes, reprices>>
  BY <1>0, <1>1 DEF CallProvider, Copy, At, Holding
<1>3. /\ StateOK(s) /\ MayBuy(s) /\ p \in Parts /\ p \in intent /\ p \notin torn
      /\ completed[p] = 0 /\ batches[p] = << >>
      /\ p[1] <= verdicts.last /\ Earlier(p) \subseteq Answered
      /\ \A v \in Workers \ {w} : Holding(worker[v]) =>
            NextPart(worker[v].state) \in Parts \ {p}
  BY <1>0, <1>1, <1>2, HolderOK
<1>4. /\ Growth /\ JournalOK' /\ FilesOK' /\ JournalTypeOK'
      /\ batches' = [batches EXCEPT ![p] = <<"running">>]
      /\ \A q \in Parts \ {p} : Untouched(q)
  BY <1>2, <1>3, AcceptGrowth
<1>5. StateOK(run)'
  BY <1>2, <1>4, StateKept DEF IndInv
<1>6. CASE GiveUp(w)
  <2>1. PICK me \in Records : Moves(w, me) /\ KnowsOK(me) /\ ~Holding(me)
    BY <1>6, GiveUpMoves DEF IndInv
  <2>2. KnowsOK(me)'
    BY <1>4, <2>1, KnowsKept
  <2>3. Typed'
    BY <1>2, <1>4, <2>1 DEF IndInv, Typed, Moves
  <2> QED
    BY <1>3, <1>4, <1>5, <2>1, <2>2, <2>3, OneMoves DEF Moves
<1>7. CASE Keeping(w, "record", WithBatch(s, Len(batches[p]) + 1))
  <2>1. Len(batches[p]) + 1 = 1
    BY <1>3
  <2>2. WithBatch(s, 1) \in RunStates
    BY <1>3, WithBatchTyped
  <2>3. PICK me \in Records : /\ Moves(w, me) /\ me.at = "record" /\ me.state = s
                              /\ me.next = WithBatch(s, 1)
    BY <1>0, <1>7, <2>1, <2>2, KeepingMoves, StepsTyped DEF IndInv
  <2>4. KnowsOK(me)
    BY <1>3, <2>3 DEF KnowsOK
  <2>5. KnowsOK(me)'
    BY <1>4, <2>4, KnowsKept
  <2>6. Typed'
    BY <1>2, <1>4, <2>3 DEF IndInv, Typed, Moves
  <2>7. HoldsOK(me)'
    <3>1. batches'[p] = <<"running">> /\ Len(<<"running">>) = 1
      BY <1>3, <1>4 DEF IndInv, Typed, JournalTypeOK
    <3>2. UNCHANGED <<intent, completed, torn>>
      BY <1>2 DEF ProviderAccepts
    <3>3. NextPart(s)' = p /\ WithBatch(s, 1)' = WithBatch(s, 1)
      BY <1>1 DEF NextPart, WithBatch, Submitted
    <3> QED
      BY <1>3, <2>3, <3>1, <3>2, <3>3 DEF HoldsOK
  <2> QED
    BY <1>1, <1>3, <1>4, <1>5, <2>3, <2>5, <2>6, <2>7, OneMoves DEF Moves
<1> QED
  BY <1>0, <1>1, <1>6, <1>7 DEF CallProvider, Copy

(* The completed record names the one batch of the part. *)
LEMMA RecordGrowth ==
    ASSUME IndInv, NEW p \in Parts, RecordPart(p, 1), UNCHANGED <<verdicts, files, cut>>,
           p \in intent, p \notin torn, completed[p] = 0, Len(batches[p]) = 1
    PROVE  /\ Growth /\ JournalOK' /\ FilesOK' /\ JournalTypeOK' /\ Recorded(p)'
           /\ \A q \in Parts \ {p} : Untouched(q)
<1>1. /\ UNCHANGED <<intent, torn, batches>> /\ JournalTypeOK
      /\ completed' = [completed EXCEPT ![p] = 1]
  BY DEF RecordPart, IndInv, Typed
<1>2. completed'[p] = 1 /\ \A q \in Parts \ {p} : completed'[q] = completed[q]
  BY <1>1 DEF JournalTypeOK
<1>3. Growth
  BY <1>1, <1>2 DEF Growth, Recorded, BatchIs, Published
<1>4. JournalOK'
  BY <1>1, <1>2 DEF IndInv, JournalOK, BatchIs, Answered
<1>5. FilesOK'
  BY <1>1 DEF IndInv, FilesOK, BatchIs, Answered
<1>6. JournalTypeOK'
  BY <1>1, MaxBatchesAssumption DEF JournalTypeOK
<1>7. Recorded(p)' /\ \A q \in Parts \ {p} : Untouched(q)
  BY <1>1, <1>2 DEF Recorded, Untouched
<1> QED
  BY <1>3, <1>4, <1>5, <1>6, <1>7

LEMMA WriteCompletedKeeps ==
    ASSUME IndInv, NEW w \in Workers, WriteCompleted(w) PROVE IndInv'
<1>0. PICK s : s = worker[w].state
  OBVIOUS
<1>1. PICK p : p = NextPart(s)
  OBVIOUS
<1>2. /\ RecordPart(p, worker[w].next.ids[p]) /\ worker[w].at = "record"
      /\ Holding(worker[w]) /\ GoTo(w, "save")
      /\ UNCHANGED <<verdicts, run, files, cut, crashes, reprices>>
  BY <1>0, <1>1 DEF WriteCompleted, Copy, At, Holding
<1>3. /\ StateOK(s) /\ MayBuy(s) /\ p \in Parts /\ p \in intent /\ p \notin torn
      /\ completed[p] = 0 /\ Len(batches[p]) = 1 /\ worker[w].next = WithBatch(s, 1)
      /\ \A v \in Workers \ {w} : Holding(worker[v]) =>
            NextPart(worker[v].state) \in Parts \ {p}
  BY <1>0, <1>1, <1>2, HolderOK
<1>4. PICK u : u = WithBatch(s, 1)
  OBVIOUS
<1>5. /\ u \in RunStates /\ u.ids[p] = 1 /\ u.status = Submitted
      /\ ActivePart(u) = p /\ u.done < PartCount[u.round]
      /\ \A q \in Parts : q # p => u.ids[q] = s.ids[q]
  BY <1>1, <1>3, <1>4, WithBatchTyped
<1>6. /\ Growth /\ JournalOK' /\ FilesOK' /\ JournalTypeOK' /\ Recorded(p)'
      /\ \A q \in Parts \ {p} : Untouched(q)
  BY <1>2, <1>3, <1>4, <1>5, RecordGrowth
<1>7. StateOK(run)' /\ StateOK(s)'
  BY <1>2, <1>3, <1>6, StateKept DEF IndInv
<1>8. StateOK(u)'
  <2>1. \A q \in Parts : u.ids[q] # 0 => Recorded(q)' /\ u.ids[q] = completed'[q]
    <3>1. completed'[p] = 1
      BY <1>2, <1>3, <1>4, <1>5 DEF RecordPart, IndInv, Typed, JournalTypeOK
    <3> QED
      BY <1>5, <1>6, <1>7, <3>1 DEF StateOK
  <2> QED
    BY <1>5, <2>1 DEF StateOK, Submitted, ActivePart
<1>9. PICK me \in Records : /\ Moves(w, me) /\ me.at = "save" /\ me.state = s /\ me.next = u
  BY <1>0, <1>2, <1>3, <1>4, GoToMoves, StepsTyped DEF IndInv
<1>10. KnowsOK(me)' /\ ~Holding(me)
  BY <1>7, <1>8, <1>9 DEF KnowsOK, Holding
<1>11. Typed'
  BY <1>2, <1>6, <1>9 DEF IndInv, Typed, Moves
<1> QED
  BY <1>3, <1>6, <1>7, <1>9, <1>10, <1>11, OneMoves DEF Moves

(* A process dies in the middle of a step. *)
LEMMA TearGrowth ==
    ASSUME IndInv, NEW p \in Parts, TearRecord(p), UNCHANGED <<verdicts, files, cut>>,
           p \in intent, completed[p] = 0
    PROVE  /\ Growth /\ JournalOK' /\ FilesOK' /\ JournalTypeOK'
           /\ \A q \in Parts \ {p} : Untouched(q)
<1>1. UNCHANGED <<intent, completed, batches>> /\ torn' = torn \cup {p} /\ JournalTypeOK
  BY DEF TearRecord, IndInv, Typed
<1>2. Growth
  BY <1>1 DEF Growth, Recorded, BatchIs, Published
<1>3. JournalOK'
  BY <1>1 DEF IndInv, JournalOK, BatchIs, Answered
<1>4. FilesOK'
  BY <1>1 DEF IndInv, FilesOK, BatchIs, Answered
<1>5. JournalTypeOK'
  BY <1>1 DEF JournalTypeOK
<1>6. \A q \in Parts \ {p} : Untouched(q)
  BY <1>1 DEF Untouched
<1> QED
  BY <1>2, <1>3, <1>4, <1>5, <1>6

(* A file cut short stands in the way of another content of its kind. *)
LEMMA CutGrowth ==
    ASSUME IndInv, NEW w \in Workers, NEW a \in WritingNow(w),
           cut' = cut \cup {a}, UNCHANGED <<journal, verdicts, files>>
    PROVE  Growth /\ JournalOK' /\ FilesOK' /\ a \in Artifacts
<1>1. Growth /\ JournalOK'
  BY DEF journal, Growth, Recorded, BatchIs, Published, IndInv, JournalOK, Answered
<1>2. worker[w].human \in Resolutions /\ KnowsOK(worker[w]) /\ worker[w].state.status = Submitted
      => worker[w].state.round \in Rounds /\ ActivePart(worker[w].state) \in Parts
  BY ActivePartTyped DEF KnowsOK
<1>3. worker[w].human \in Resolutions /\ KnowsOK(worker[w])
  BY DEF IndInv, Typed, Records
<1>4. CASE \E kind \in HumanKinds : ~Taken(w, kind) /\ a = <<kind, worker[w].human>>
  <2>1. PICK kind \in HumanKinds : ~Taken(w, kind) /\ a = <<kind, worker[w].human>>
    BY <1>4
  <2>2. a \in Artifacts
    BY <1>3, <2>1 DEF Artifacts, HumanFiles
  <2>3. \A g \in Resolutions : <<kind, g>> \in files \cup cut => g = worker[w].human
    <3>1. ASSUME NEW g \in Resolutions, <<kind, g>> \in files \cup cut, g # worker[w].human
          PROVE  FALSE
      <4>1. <<kind, g>> \in HumanFiles(kind) \ {<<kind, worker[w].human>>}
        BY <3>1 DEF HumanFiles
      <4> QED
        BY <2>1, <3>1, <4>1 DEF Taken
    <3> QED
      BY <3>1
  <2>4. ASSUME NEW k \in HumanKinds, NEW g \in Resolutions, NEW h \in Resolutions,
               <<k, g>> \in files' \cup cut', <<k, h>> \in files' \cup cut'
        PROVE  g = h
    <3>1. \A x, y \in Resolutions :
             <<k, x>> \in files \cup cut /\ <<k, y>> \in files \cup cut => x = y
      BY DEF IndInv, FilesOK
    <3>2. <<k, g>> = a \/ <<k, g>> \in files \cup cut
      BY <2>4
    <3>3. <<k, h>> = a \/ <<k, h>> \in files \cup cut
      BY <2>4
    <3> QED
      BY <2>1, <2>3, <3>1, <3>2, <3>3
  <2>5. FilesOK'
    BY <2>4 DEF IndInv, FilesOK, BatchIs, Answered, journal
  <2> QED
    BY <1>1, <2>2, <2>5
<1>5. CASE a \in Endings \/ (\E p \in Parts : a = <<"output", p>>)
                         \/ (\E r \in Rounds : a = <<"results", r>>)
  <2>1. a \in Artifacts
    BY <1>5 DEF Artifacts
  <2>2. ASSUME NEW kind \in HumanKinds, NEW h \in Resolutions,
               <<kind, h>> \in files' \cup cut'
        PROVE  <<kind, h>> \in files \cup cut
    BY <1>5, <2>2, NamesApart
  <2>3. FilesOK'
    BY <2>2 DEF IndInv, FilesOK, BatchIs, Answered, journal
  <2> QED
    BY <1>1, <2>1, <2>3
<1>6. worker[w].at \in {"download", "results"} => worker[w].state.status = Submitted
  BY <1>3 DEF KnowsOK
<1>7. EndingOf(worker[w].state) \in Endings /\ <<"terminal">> \in Endings
  BY DEF EndingOf, Endings, Queues
<1>8. \/ a \in Endings \/ (\E p \in Parts : a = <<"output", p>>)
                       \/ (\E r \in Rounds : a = <<"results", r>>)
      \/ \E kind \in HumanKinds : ~Taken(w, kind) /\ a = <<kind, worker[w].human>>
  BY <1>2, <1>3, <1>6, <1>7 DEF WritingNow, At, Copy, Unfinished, HumanKinds
<1> QED
  BY <1>4, <1>5, <1>8

LEMMA CrashKeeps ==
    ASSUME IndInv, NEW w \in Workers, Crash(w) PROVE IndInv'
<1>0. PICK s : s = worker[w].state
  OBVIOUS
<1>1. PICK p : p = NextPart(s)
  OBVIOUS
<1>2. /\ UNCHANGED <<verdicts, run, files, reprices>>
      /\ crashes' \in 0 .. MaxCrashes
  BY BoundsAssumption DEF Crash, IndInv, Typed
<1>3. PICK me \in Records : Moves(w, me) /\ KnowsOK(me) /\ ~Holding(me)
  BY GiveUpMoves DEF Crash, IndInv
<1>4. ASSUME Growth, JournalOK', FilesOK', JournalTypeOK', cut' \subseteq Artifacts,
             \A v \in Workers \ {w} : Holding(worker[v]) =>
                 Untouched(NextPart(worker[v].state))
      PROVE  IndInv'
  <2>1. Typed'
    BY <1>2, <1>3, <1>4 DEF IndInv, Typed, Moves
  <2>2. KnowsOK(me)'
    BY <1>3, <1>4, KnowsKept
  <2>3. StateOK(run)'
    BY <1>2, <1>4, StateKept DEF IndInv
  <2> QED
    BY <1>3, <1>4, <2>1, <2>2, <2>3, OneMoves DEF Moves
<1>5. CASE UNCHANGED <<journal, cut>>
  <2>1. UNCHANGED <<journal, verdicts, files, cut, run>>
    BY <1>2, <1>5
  <2>2. reprices' \in 0 .. MaxReprices /\ GiveUp(w)
    BY <1>2 DEF IndInv, Typed, Crash
  <2> QED
    BY <1>2, <2>1, <2>2, QuietGiveUp
<1>6. CASE \E a \in WritingNow(w) \ (files \cup cut) :
               cut' = cut \cup {a} /\ UNCHANGED journal
  <2>1. PICK a \in WritingNow(w) : cut' = cut \cup {a} /\ UNCHANGED journal
    BY <1>6
  <2>2. Growth /\ JournalOK' /\ FilesOK' /\ a \in Artifacts
    BY <1>2, <2>1, CutGrowth
  <2>3. JournalTypeOK' /\ cut' \subseteq Artifacts /\ \A q \in Parts : Untouched(q)
    BY <2>1, <2>2 DEF IndInv, Typed, JournalTypeOK, journal, Untouched
  <2> QED
    BY <1>4, <2>2, <2>3, HeldPart
<1>7. CASE At(w, "claim") /\ ClaimPart(p) /\ UNCHANGED cut
  <2>1. p \in Parts
    BY <1>0, <1>1, <1>7, NextPartOK DEF IndInv, At, KnowsOK
  <2> QED
    BY <1>2, <1>4, <1>7, <2>1, ClaimGrowth DEF IndInv, Typed
<1>8. CASE At(w, "call") /\ ProviderAccepts(p) /\ UNCHANGED cut
  <2>1. Holding(worker[w]) /\ worker[w].at = "call"
    BY <1>8 DEF Holding, At
  <2>2. /\ p \in Parts /\ p \in intent /\ completed[p] = 0 /\ batches[p] = << >>
        /\ p[1] <= verdicts.last /\ Earlier(p) \subseteq Answered
        /\ \A v \in Workers \ {w} : Holding(worker[v]) =>
              NextPart(worker[v].state) \in Parts \ {p}
    BY <1>0, <1>1, <2>1, HolderOK
  <2> QED
    BY <1>2, <1>4, <1>8, <2>2, AcceptGrowth DEF IndInv, Typed
<1>9. CASE At(w, "record") /\ TearRecord(p) /\ UNCHANGED cut
  <2>1. Holding(worker[w])
    BY <1>9 DEF Holding, At
  <2>2. /\ p \in Parts /\ p \in intent /\ completed[p] = 0
        /\ \A v \in Workers \ {w} : Holding(worker[v]) =>
              NextPart(worker[v].state) \in Parts \ {p}
    BY <1>0, <1>1, <2>1, HolderOK
  <2> QED
    BY <1>2, <1>4, <1>9, <2>2, TearGrowth DEF IndInv, Typed
<1> QED
  BY <1>0, <1>1, <1>5, <1>6, <1>7, <1>8, <1>9 DEF Crash, Copy

(* A batch that ends stays the one batch of its part. *)
LEMMA EndBatchChanges ==
    ASSUME IndInv, EndBatch
    PROVE  \E p \in Parts, how \in {"done", "failed"} :
              /\ batches[p] = <<"running">>
              /\ batches' = [batches EXCEPT ![p] = <<how>>]
<1>0. PICK p \in Parts, how \in {"done", "failed"} :
         \E n \in 1 .. Len(batches[p]) :
            batches[p][n] = "running" /\ batches' = [batches EXCEPT ![p][n] = how]
  BY DEF EndBatch, BatchEnds
<1>1. PICK n \in 1 .. Len(batches[p]) :
         batches[p][n] = "running" /\ batches' = [batches EXCEPT ![p][n] = how]
  BY <1>0
<1>2. batches \in [Parts -> Seq(BatchStatuses)] /\ Len(batches[p]) <= 1
  BY DEF IndInv, Typed, JournalTypeOK, JournalOK
<1>3. batches[p] \in Seq(BatchStatuses) /\ n = 1 /\ Len(batches[p]) = 1
  <2>1. batches[p] \in Seq(BatchStatuses)
    BY <1>2
  <2>2. Len(batches[p]) \in Nat
    BY <2>1
  <2>3. PICK k \in Nat : k = Len(batches[p])
    BY <2>2
  <2>4. n \in 1 .. k /\ k <= 1
    BY <1>1, <1>2, <2>3
  <2>5. n = 1 /\ k = 1
    BY <2>4
  <2> QED
    BY <2>1, <2>3, <2>5
<1>4. batches[p] = <<"running">>
  BY <1>1, <1>3
<1>5. [batches[p] EXCEPT ![1] = how] = <<how>>
  BY <1>4
<1> QED
  BY <1>1, <1>3, <1>4, <1>5

LEMMA EndBatchKeeps ==
    ASSUME IndInv, EndBatch PROVE IndInv'
<1>1. PICK p \in Parts, how \in {"done", "failed"} :
         batches[p] = <<"running">> /\ batches' = [batches EXCEPT ![p] = <<how>>]
  BY EndBatchChanges
<1>2. /\ UNCHANGED <<intent, completed, torn, verdicts, run, files, cut, worker,
                     crashes, reprices>>
      /\ JournalTypeOK
  BY DEF EndBatch, BatchEnds, IndInv, Typed
<1>3. batches'[p] = <<how>> /\ \A q \in Parts \ {p} : batches'[q] = batches[q]
  BY <1>1, <1>2 DEF JournalTypeOK
<1>4. Len(<<how>>) = 1 /\ <<how>> \in Seq(BatchStatuses) /\ Len(batches[p]) = 1
  BY <1>1 DEF BatchStatuses
<1>5. \A q \in Parts, x \in {"done", "failed"} : BatchIs(q, x) => BatchIs(q, x)'
  BY <1>1, <1>3 DEF BatchIs
<1>6. Growth
  BY <1>2, <1>5 DEF Growth, Recorded, Published
<1>7. FilesOK'
  BY <1>2, <1>5 DEF IndInv, FilesOK, Answered
<1>8. JournalTypeOK'
  BY <1>1, <1>2, <1>3, <1>4, MaxBatchesAssumption DEF JournalTypeOK
<1>9. batches[p] # << >> /\ \A q \in Parts : Untouched(q)
  <2>1. batches[p] # << >>
    BY <1>1
  <2>2. \A q \in Parts \ {p} : Untouched(q)
    BY <1>2, <1>3 DEF Untouched
  <2>3. Untouched(p)
    BY <1>2, <1>3, <1>4, <2>1 DEF Untouched
  <2> QED
    BY <2>1, <2>2, <2>3
<1>10. JournalOK'
  BY <1>1, <1>2, <1>3, <1>4, <1>5, <1>9 DEF IndInv, JournalOK, Answered
<1>11. Typed'
  BY <1>2, <1>8 DEF IndInv, Typed
<1>12. StateOK(run)'
  BY <1>2, <1>6, StateKept DEF IndInv
<1>13. ASSUME NEW v \in Workers
       PROVE  KnowsOK(worker[v])' /\ (Holding(worker[v])' => HoldsOK(worker[v])')
  <2>1. PICK me : me = worker[v]
    OBVIOUS
  <2>2. worker'[v] = me /\ KnowsOK(me) /\ (Holding(me) => HoldsOK(me))
    BY <1>2, <2>1 DEF IndInv
  <2>3. KnowsOK(me)' /\ (Holding(me) => HoldsOK(me)')
    BY <1>6, <1>9, <2>1, <2>2, KnowsKept, HoldsKept, HeldPart
  <2> QED
    BY <2>2, <2>3 DEF Holding
<1>14. HoldersApart'
  BY <1>2 DEF IndInv, HoldersApart, Holding, NextPart
<1> QED
  BY <1>7, <1>10, <1>11, <1>12, <1>13, <1>14 DEF IndInv

---------------------------------------------------------------------------
(* The invariant. *)

LEMMA InitOK == Init => IndInv
<1> SUFFICES ASSUME Init PROVE IndInv
  OBVIOUS
<1>1. StateOK(Prepared) /\ Prepared \in RunStates
  BY PreparedOK DEF Init, StateOK
<1>2. PICK me : me = Loaded("idle", Prepared)
  OBVIOUS
<1>3. me \in Records /\ me.at = "idle" /\ me.state = Prepared /\ me.next = Prepared
  BY <1>1, <1>2, LoadedTyped, StepsTyped
<1>4. \A w \in Workers : worker[w] = me
  BY <1>2 DEF Init
<1>5. worker \in [Workers -> Records]
  BY <1>2, <1>3 DEF Init
<1>6. JournalTypeOK
  BY MaxBatchesAssumption DEF Init, JournalInit, JournalTypeOK
<1>7. Typed
  BY <1>5, <1>6, BoundsAssumption DEF Init, Typed
<1>8. KnowsOK(me) /\ ~Holding(me)
  BY <1>1, <1>3 DEF KnowsOK, Holding
<1>9. JournalOK /\ FilesOK
  BY DEF Init, JournalInit, JournalOK, FilesOK, Answered
<1> QED
  BY <1>1, <1>4, <1>7, <1>8, <1>9 DEF IndInv, HoldersApart, Init

LEMMA StepKeeps ==
    ASSUME IndInv, NEW w \in Workers, Step(w) PROVE IndInv'
<1>1. CASE PrimaryResults(w) \/ AdjudicationResults(w) \/ FinalReviewResults(w)
  BY <1>1, ResultsKeeps DEF PrimaryResults, AdjudicationResults, FinalReviewResults
<1>2. CASE WriteResolution(w)
  BY <1>2, HumanFileKeeps, StepsTyped DEF WriteResolution, At, HumanKinds
<1>3. CASE WriteHumanDecisions(w)
  BY <1>3, HumanFileKeeps, StepsTyped DEF WriteHumanDecisions, At, HumanKinds
<1> QED
  BY <1>1, <1>2, <1>3, LoadStateKeeps, PollKeeps, DownloadKeeps, ReadJournalKeeps,
     WriteIntentKeeps, CallProviderKeeps, ProviderRefusesKeeps, WriteCompletedKeeps,
     SaveStateKeeps, FinalizeKeeps, FailBatchKeeps, PromoteOutputsKeeps DEF Step

LEMMA NextKeeps == IndInv /\ [Next]_vars => IndInv'
<1> SUFFICES ASSUME IndInv, [Next]_vars PROVE IndInv'
  OBVIOUS
<1>1. CASE EndBatch
  BY <1>1, EndBatchKeeps
<1>2. ASSUME NEW w \in Workers, Step(w) \/ Reprice(w) \/ LoadForResolution(w) \/ Crash(w)
      PROVE  IndInv'
  BY <1>2, StepKeeps, RepriceKeeps, LoadForResolutionKeeps, CrashKeeps
<1>3. CASE UNCHANGED vars
  <2>1. UNCHANGED <<journal, verdicts, run, files, cut, worker, crashes, reprices>>
    BY <1>3 DEF vars
  <2>2. Growth /\ JournalOK' /\ FilesOK' /\ \A p \in Parts : Untouched(p)
    BY <2>1, SameRecords DEF IndInv
  <2>3. Typed'
    BY <2>1 DEF IndInv, Typed, JournalTypeOK, journal
  <2>4. StateOK(run)'
    BY <2>1, <2>2, StateKept DEF IndInv
  <2>5. ASSUME NEW v \in Workers
        PROVE  KnowsOK(worker[v])' /\ (Holding(worker[v])' => HoldsOK(worker[v])')
    <3>1. PICK me : me = worker[v]
      OBVIOUS
    <3>2. worker'[v] = me /\ KnowsOK(me) /\ (Holding(me) => HoldsOK(me))
      BY <2>1, <3>1 DEF IndInv
    <3>3. KnowsOK(me)' /\ (Holding(me) => HoldsOK(me)')
      BY <2>2, <3>1, <3>2, KnowsKept, HoldsKept, HeldPart
    <3> QED
      BY <3>2, <3>3 DEF Holding
  <2>6. HoldersApart'
    BY <2>1 DEF IndInv, HoldersApart, Holding, NextPart
  <2> QED
    BY <2>2, <2>3, <2>4, <2>5, <2>6 DEF IndInv
<1> QED
  BY <1>1, <1>2, <1>3 DEF Next

(* The inductive invariant of the review: what a copy of the run state is  *)
(* worth, what a process at a step knows, how journal, batches and files   *)
(* agree.                                                                  *)
THEOREM IndInvHolds == Spec => []IndInv
BY InitOK, NextKeeps, PTL DEF Spec

(* Every variable has its type, and a state with a batch under way names   *)
(* that batch.                                                             *)
THEOREM TypeCorrect == Spec => []TypeOK
<1>1. IndInv => TypeOK
  BY DEF IndInv, Typed, TypeOK, StateOK, ActivePart, Records
<1> QED
  BY <1>1, IndInvHolds, PTL

(* _submit_part: however processes race, die or work on an old state, the  *)
(* provider is asked for at most one batch per part.                       *)
THEOREM PaidAtMostOnce == Spec => []PaidOnce
<1>1. IndInv => PaidOnce
  BY DEF IndInv, JournalOK, PaidOnce
<1> QED
  BY <1>1, IndInvHolds, PTL

(* save_run_state: losing or overwriting the state loses nothing, and a    *)
(* completed run has the subtitles of the models or of one human.          *)
THEOREM StateTells == Spec => []StateTellsRecords
<1>1. IndInv => StateTellsRecords
  BY DEF IndInv, StateOK, StateTellsRecords, BatchesAsJournaled, CompletedAsPublished
<1> QED
  BY <1>1, IndInvHolds, PTL

---------------------------------------------------------------------------
(* The ledger: the review implements it. *)

Bought == [p \in Parts |-> Len(batches[p])]
Closed == files \cap Endings # {}

(* Nobody buys a part after the review has published its end: the failed   *)
(* batch, or the last round's answers, came after that part's own answer.  *)
LEMMA NotClosed ==
    ASSUME IndInv, NEW p \in Parts, batches[p] = << >>, p[1] <= verdicts.last,
           Earlier(p) \subseteq Answered
    PROVE  ~Closed
<1>1. Len(batches[p]) = 0 /\ p \notin Answered
  BY DEF IndInv, JournalOK, BatchIs
<1>2. files \cap (Queues \cup {<<"reviewed">>}) = {}
  BY <1>1 DEF IndInv, FilesOK
<1>3. <<"terminal">> \notin files
  <2>1. ASSUME NEW q \in Parts, BatchIs(q, "failed") PROVE FALSE
    <3>1. batches[q] # << >> /\ q \notin Answered /\ q # p
      BY <1>1, <2>1 DEF BatchIs, IndInv, JournalOK
    <3>2. Earlier(q) \subseteq Answered
      BY <3>1 DEF IndInv, JournalOK
    <3>3. q \notin Earlier(p) /\ p \notin Earlier(q)
      BY <1>1, <3>1, <3>2
    <3> QED
      BY <3>1, <3>3, PartsOrdered
  <2> QED
    BY <2>1 DEF IndInv, FilesOK
<1> QED
  BY <1>2, <1>3 DEF Closed, Endings

(* A purchase. *)
LEMMA AcceptBuys ==
    ASSUME IndInv, NEW p \in Parts, ProviderAccepts(p), UNCHANGED files,
           batches[p] = << >>, p[1] <= verdicts.last, Earlier(p) \subseteq Answered
    PROVE  Ledger!Buy(p)
<1>1. Append(batches[p], "running") = <<"running">> /\ Len(<<"running">>) = 1
  OBVIOUS
<1>2. /\ batches'[p] = <<"running">> /\ DOMAIN batches' = Parts
      /\ \A q \in Parts \ {p} : batches'[q] = batches[q]
  BY <1>1 DEF ProviderAccepts, IndInv, Typed, JournalTypeOK
<1>3. Bought' = [Bought EXCEPT ![p] = 1]
  BY <1>1, <1>2 DEF Bought
<1>4. Bought[p] = 0
  BY DEF Bought
<1>5. ~Closed /\ Closed' = Closed /\ Answered' = Answered
  BY NotClosed DEF Closed, Answered
<1> QED
  BY <1>3, <1>4, <1>5 DEF Ledger!Buy, Bought, Closed, Answered

(* A file written: an answer, an end, or nothing of the ledger's concern.  *)
LEMMA FileStep ==
    ASSUME IndInv, UNCHANGED journal, NEW a \in Artifacts, files' = files \cup {a},
           \A p \in Parts : a = <<"output", p>> => Len(batches[p]) = 1
    PROVE  [Ledger!Next]_(Ledger!ledger)
<1>1. Bought' = Bought
  BY DEF Bought, journal
<1>2. CASE \E p \in Parts : a = <<"output", p>>
  <2>1. PICK p \in Parts : a = <<"output", p>>
    BY <1>2
  <2>2. Answered' = Answered \cup {p} /\ Closed' = Closed
    BY <2>1, NamesApart DEF Answered, Closed
  <2>3. Bought[p] = 1
    BY <2>1 DEF Bought
  <2>4. Ledger!Answer(p)
    BY <1>1, <2>2, <2>3 DEF Ledger!Answer, Bought, Closed, Answered
  <2> QED
    BY <2>4 DEF Ledger!Next
<1>3. CASE a \in Endings
  <2>1. Answered' = Answered /\ Closed' = TRUE
    BY <1>3, NamesApart DEF Answered, Closed
  <2>2. Ledger!Close
    BY <1>1, <2>1 DEF Ledger!Close, Bought, Closed, Answered
  <2> QED
    BY <2>2 DEF Ledger!Next
<1>4. CASE a \notin Endings /\ ~\E p \in Parts : a = <<"output", p>>
  <2>1. Answered' = Answered /\ Closed' = Closed
    BY <1>4 DEF Answered, Closed
  <2> QED
    BY <1>1, <2>1 DEF Ledger!ledger, Bought, Closed, Answered
<1> QED
  BY <1>2, <1>3, <1>4

LEMMA NoFileStep ==
    ASSUME UNCHANGED files, \A p \in Parts : Len(batches'[p]) = Len(batches[p])
    PROVE  [Ledger!Next]_(Ledger!ledger)
<1>1. Bought' = Bought /\ Answered' = Answered /\ Closed' = Closed
  BY DEF Bought, Answered, Closed
<1> QED
  BY <1>1 DEF Ledger!ledger, Bought, Closed, Answered

(* A worker writes a file, or gives up. *)
LEMMA WriteStep ==
    ASSUME IndInv, NEW w \in Workers,
           Download(w) \/ Results(w) \/ Finalize(w) \/ FailBatch(w)
           \/ WriteResolution(w) \/ WriteHumanDecisions(w) \/ PromoteOutputs(w)
    PROVE  [Ledger!Next]_(Ledger!ledger)
<1>0. UNCHANGED journal
  BY DEF Download, Results, Finalize, FailBatch, Publish, WriteResolution,
         WriteHumanDecisions, WriteHumanFile, PromoteOutputs
<1>1. CASE files' = files
  <2>1. batches' = batches
    BY <1>0 DEF journal
  <2> QED
    BY <1>1, <2>1, NoFileStep
<1>2. KnowsOK(worker[w]) /\ worker[w].human \in Resolutions
  BY DEF IndInv, Typed, Records
<1>3. CASE Download(w) /\ files' # files
  <2>1. PICK p : p = ActivePart(worker[w].state)
    OBVIOUS
  <2>2. files' = files \cup {<<"output", p>>} /\ worker[w].at = "download"
    BY <1>3, <2>1 DEF Download, WriteOnce, Copy, At
  <2>3. p \in Parts /\ Len(batches[p]) = 1
    BY <1>2, <2>1, <2>2, ActivePartTyped DEF KnowsOK, BatchIs
  <2>4. \A q : <<"output", p>> = <<"output", q>> => p = q
    BY NamesApart
  <2>5. <<"output", p>> \in Artifacts
    BY <2>3 DEF Artifacts
  <2> QED
    BY <1>0, <2>2, <2>3, <2>4, <2>5, FileStep
<1>4. CASE Results(w) /\ files' # files
  <2>1. PICK r : r = worker[w].state.round
    OBVIOUS
  <2>2. files' = files \cup {<<"results", r>>} /\ worker[w].at = "results"
    BY <1>4, <2>1 DEF Results, WriteOnce, Copy, At
  <2>3. r \in Rounds
    BY <1>2, <2>1, <2>2, ActivePartTyped DEF KnowsOK
  <2>4. <<"results", r>> \in Artifacts /\ \A q : <<"results", r>> # <<"output", q>>
    BY <2>3, NamesApart DEF Artifacts
  <2> QED
    BY <1>0, <2>2, <2>4, FileStep
<1>5. CASE (Finalize(w) \/ FailBatch(w)) /\ files' # files
  <2>1. PICK a \in Endings : files' = files \cup {a}
    BY <1>5 DEF Finalize, FailBatch, Publish, EndingOf, Endings, Queues
  <2>2. a \in Artifacts /\ \A q : a # <<"output", q>>
    BY <2>1, NamesApart DEF Artifacts
  <2> QED
    BY <1>0, <2>1, <2>2, FileStep
<1>6. CASE (WriteResolution(w) \/ WriteHumanDecisions(w) \/ PromoteOutputs(w)) /\ files' # files
  <2>1. PICK kind \in HumanKinds : files' = files \cup {<<kind, worker[w].human>>}
    BY <1>6 DEF WriteResolution, WriteHumanDecisions, WriteHumanFile, WriteOnce,
                PromoteOutputs, Publish, HumanKinds
  <2>2. /\ <<kind, worker[w].human>> \in Artifacts
        /\ \A q : <<kind, worker[w].human>> # <<"output", q>>
    BY <1>2, NamesApart DEF Artifacts, HumanFiles
  <2> QED
    BY <1>0, <2>1, <2>2, FileStep
<1> QED
  BY <1>1, <1>3, <1>4, <1>5, <1>6

(* The provider is called: the part is bought in its turn. *)
LEMMA CallStep ==
    ASSUME IndInv, NEW w \in Workers, At(w, "call"), ProviderAccepts(NextPart(Copy(w))),
           UNCHANGED files
    PROVE  [Ledger!Next]_(Ledger!ledger)
<1>0. PICK s : s = worker[w].state
  OBVIOUS
<1>1. PICK p : p = NextPart(s)
  OBVIOUS
<1>2. worker[w].at = "call" /\ Holding(worker[w]) /\ ProviderAccepts(p)
  BY <1>0, <1>1 DEF At, Holding, Copy
<1>3. /\ p \in Parts /\ batches[p] = << >>
      /\ p[1] <= verdicts.last /\ Earlier(p) \subseteq Answered
  BY <1>0, <1>1, <1>2, HolderOK
<1>4. Ledger!Buy(p)
  BY <1>2, <1>3, AcceptBuys
<1> QED
  BY <1>3, <1>4 DEF Ledger!Next

LEMMA LedgerNext == IndInv /\ [Next]_vars => [Ledger!Next]_(Ledger!ledger)
<1> SUFFICES ASSUME IndInv, [Next]_vars PROVE [Ledger!Next]_(Ledger!ledger)
  OBVIOUS
<1>1. CASE UNCHANGED files /\ batches' = batches
  BY <1>1, NoFileStep
<1>2. CASE EndBatch
  <2>1. PICK p \in Parts, how \in {"done", "failed"} :
           batches[p] = <<"running">> /\ batches' = [batches EXCEPT ![p] = <<how>>]
    BY <1>2, EndBatchChanges
  <2>2. batches'[p] = <<how>> /\ \A q \in Parts \ {p} : batches'[q] = batches[q]
    BY <2>1 DEF IndInv, Typed, JournalTypeOK
  <2>3. Len(<<how>>) = 1 /\ Len(<<"running">>) = 1
    OBVIOUS
  <2> QED
    BY <1>2, <2>1, <2>2, <2>3, NoFileStep DEF EndBatch
<1>3. ASSUME NEW w \in Workers, Step(w)
      PROVE  [Ledger!Next]_(Ledger!ledger)
  <2>1. CASE CallProvider(w)
    BY <2>1, CallStep DEF CallProvider
  <2>2. CASE PrimaryResults(w) \/ AdjudicationResults(w) \/ FinalReviewResults(w)
    BY <2>2, WriteStep DEF PrimaryResults, AdjudicationResults, FinalReviewResults
  <2>3. CASE Download(w) \/ Finalize(w) \/ FailBatch(w)
             \/ WriteResolution(w) \/ WriteHumanDecisions(w) \/ PromoteOutputs(w)
    BY <2>3, WriteStep
  <2>4. CASE LoadState(w) \/ Poll(w) \/ ReadJournal(w) \/ ProviderRefuses(w) \/ SaveState(w)
             \/ WriteIntent(w) \/ WriteCompleted(w)
    BY <1>1, <2>4 DEF LoadState, Poll, ReadJournal, ProviderRefuses, SaveState, WriteIntent,
                      WriteCompleted, journal, ClaimPart, RecordPart
  <2> QED
    BY <1>3, <2>1, <2>2, <2>3, <2>4 DEF Step
<1>4. ASSUME NEW w \in Workers, Crash(w)
      PROVE  [Ledger!Next]_(Ledger!ledger)
  <2>1. CASE At(w, "call") /\ ProviderAccepts(NextPart(Copy(w)))
    BY <1>4, <2>1, CallStep DEF Crash
  <2>2. CASE batches' = batches
    BY <1>1, <1>4, <2>2 DEF Crash
  <2> QED
    BY <1>4, <2>1, <2>2 DEF Crash, journal, ClaimPart, TearRecord
<1>5. ASSUME NEW w \in Workers, Reprice(w) \/ LoadForResolution(w)
      PROVE  [Ledger!Next]_(Ledger!ledger)
  BY <1>1, <1>5 DEF Reprice, LoadForResolution, journal
<1>6. CASE UNCHANGED vars
  BY <1>1, <1>6 DEF vars, journal
<1> QED
  BY <1>2, <1>3, <1>4, <1>5, <1>6 DEF Next

(* The order of advance: no part is bought before the answers to all       *)
(* earlier ones are stored, none twice, and none once the review has       *)
(* published its end, although an old state may be saved over the end.     *)
THEOREM LedgerImplemented == Spec => ImplementsLedger
<1>1. Init => Ledger!Init
  <2> SUFFICES ASSUME Init PROVE Ledger!Init
    OBVIOUS
  <2>1. \A p \in Parts : Len(batches[p]) = 0
    BY DEF Init, JournalInit
  <2>2. files = {}
    BY DEF Init
  <2> QED
    BY <2>1, <2>2 DEF Ledger!Init
<1> QED
  BY <1>1, LedgerNext, IndInvHolds, PTL DEF Spec, ImplementsLedger, Ledger!Spec

=============================================================================
