------------------------- MODULE AgentJobStreamProofs -------------------------
(***************************************************************************)
(* Proofs about the event stream of an agent job and the browser behind    *)
(* it, for any limits of the stream, recoveries and faults.                *)
(***************************************************************************)
EXTENDS AgentJobStream, TLAPS

(* Sequences of consecutive numbers that begin after a number.             *)
FollowOn(seq, from) == seq = [i \in 1 .. Len(seq) |-> from + i]

(* The last number of such a sequence is an event of the log.              *)
Logged(seq, from) == FollowOn(seq, from) /\ from + Len(seq) <= Len(Log)

StreamTyped ==
    /\ status \in [{Job} -> Life!Status]
    /\ events \in [{Job} -> Seq(Life!Kind)]
    /\ stream \in [open : BOOLEAN, cursor : Nat, pending : Seq(Nat),
                   emitted : 0 .. MaxEvents, ended : BOOLEAN]
    /\ wire \in Seq(Nat) /\ seen \in Seq(Nat)
    /\ client \in ClientStates
    /\ faults \in 0 .. MaxFaults

(* The iterator: what it has read follows its cursor, and what is under    *)
(* way ends at its cursor as long as the browser listens.                  *)
StreamFollows ==
    /\ Logged(stream.pending, stream.cursor)
    /\ Len(stream.pending) < Batch
    /\ \A i \in 1 .. Len(wire) : wire[i] \in 1 .. Len(Log)
    /\ client.source = "open" =>
          /\ Logged(wire, client.last)
          /\ stream.open => stream.cursor = client.last + Len(wire)
    /\ client.source \in {"none", "connecting"} => ~stream.open /\ wire = << >>
    /\ client.last <= Len(Log)

(* A terminal event, and a terminal status that the browser was told of,   *)
(* are those of the row, which does not change any more.                   *)
EndKnown ==
    /\ \A i \in 1 .. Len(Log) : Log[i] \in Life!Terminal => Ended
    /\ Row = "absent" => client.source = "none"
    /\ client.poll \in Life!Terminal => Row = client.poll
    /\ client.finish # "no" => Ended
    /\ client.finish \in Life!Status => Row = client.finish

IndInv ==
    /\ StreamTyped
    /\ EventsOnceInOrder
    /\ StreamFollows
    /\ EndKnown
    /\ ShowsWhatIsStored

---------------------------------------------------------------------------
(* Consecutive numbers. *)

LEMMA FollowPointwise ==
    ASSUME NEW seq \in Seq(Nat), NEW from \in Nat,
           \A i \in 1 .. Len(seq) : seq[i] = from + i
    PROVE  FollowOn(seq, from)
<1>1. PICK n \in Nat : n = Len(seq)
  OBVIOUS
<1>2. seq = [i \in 1 .. n |-> seq[i]]
  BY <1>1
<1>3. [i \in 1 .. n |-> seq[i]] = [i \in 1 .. n |-> from + i]
  BY <1>1
<1> QED
  BY <1>1, <1>2, <1>3 DEF FollowOn

LEMMA FollowTail ==
    ASSUME NEW seq \in Seq(Nat), NEW from \in Nat, FollowOn(seq, from), seq # << >>
    PROVE  /\ Head(seq) = from + 1 /\ Tail(seq) \in Seq(Nat)
           /\ Len(Tail(seq)) = Len(seq) - 1 /\ Len(seq) >= 1
           /\ FollowOn(Tail(seq), from + 1)
<1>1. PICK n \in Nat : n = Len(seq)
  OBVIOUS
<1>2. n >= 1 /\ Head(seq) = seq[1] /\ seq[1] = from + 1
  BY <1>1 DEF FollowOn
<1>3. Tail(seq) \in Seq(Nat) /\ Len(Tail(seq)) = n - 1
  BY <1>1
<1>4. PICK m \in Nat : m = n - 1
  BY <1>2
<1>5. \A i \in 1 .. m : Tail(seq)[i] = (from + 1) + i
  BY <1>1, <1>4 DEF FollowOn
<1>6. FollowOn(Tail(seq), from + 1)
  <2>1. PICK rest \in Seq(Nat) : rest = Tail(seq)
    BY <1>3
  <2>2. PICK f \in Nat : f = from + 1
    OBVIOUS
  <2>3. \A i \in 1 .. Len(rest) : rest[i] = f + i
    BY <1>3, <1>4, <1>5, <2>1, <2>2
  <2> QED
    BY <2>1, <2>2, <2>3, FollowPointwise
<1> QED
  BY <1>1, <1>2, <1>3, <1>6

LEMMA FollowAppend ==
    ASSUME NEW seq \in Seq(Nat), NEW from \in Nat, FollowOn(seq, from)
    PROVE  /\ Append(seq, from + Len(seq) + 1) \in Seq(Nat)
           /\ Len(Append(seq, from + Len(seq) + 1)) = Len(seq) + 1
           /\ FollowOn(Append(seq, from + Len(seq) + 1), from)
<1>1. PICK n \in Nat : n = Len(seq)
  OBVIOUS
<1>2. PICK more : more = Append(seq, from + n + 1)
  OBVIOUS
<1>3. more \in Seq(Nat) /\ Len(more) = n + 1
  BY <1>1, <1>2
<1>4. \A i \in 1 .. n + 1 : more[i] = from + i
  <2>1. \A i \in 1 .. n : more[i] = seq[i] /\ seq[i] = from + i
    BY <1>1, <1>2 DEF FollowOn
  <2>2. more[n + 1] = from + n + 1
    BY <1>1, <1>2
  <2> QED
    BY <1>1, <2>1, <2>2
<1>5. more = [i \in 1 .. n + 1 |-> from + i]
  BY <1>3, <1>4
<1> QED
  BY <1>1, <1>2, <1>3, <1>5 DEF FollowOn

LEMMA FollowNone ==
    ASSUME NEW from \in Nat
    PROVE  << >> \in Seq(Nat) /\ Len(<< >>) = 0 /\ FollowOn(<< >>, from)
BY DEF FollowOn

(* list_events_after returns the events that come next, and no more than   *)
(* the batch.                                                              *)
LEMMA ReadFollows ==
    ASSUME IndInv, stream.emitted < MaxEvents
    PROVE  /\ Read \in Seq(Nat) /\ Len(Read) <= Batch
           /\ FollowOn(Read, stream.cursor)
           /\ stream.cursor + Len(Read) <= Len(Log)
<1>1. /\ stream.pending \in Seq(Nat) /\ stream.cursor \in Nat
      /\ stream.emitted \in Nat /\ MaxEvents \in Nat /\ Batch \in Nat
  BY StreamAssumption DEF IndInv, StreamTyped
<1>2. PICK n \in Nat : n = Len(Log)
  BY DEF IndInv, StreamTyped, Log
<1>3. PICK p \in Nat : p = Len(stream.pending)
  BY <1>1
<1>4. stream.cursor + p <= n /\ FollowOn(stream.pending, stream.cursor) /\ p < Batch
  BY <1>2, <1>3 DEF IndInv, StreamFollows, Logged
<1>5. CASE stream.pending # << >>
  BY <1>1, <1>2, <1>3, <1>4, <1>5 DEF Read
<1>6. CASE stream.pending = << >>
  <2>1. PICK c \in Nat : c = stream.cursor
    BY <1>1
  <2>2. PICK after : after = EventsAfter(c)
    OBVIOUS
  <2>3. PICK k \in Nat : k = n - c
    BY <1>2, <1>3, <1>4, <2>1
  <2>8. after = [i \in 1 .. k |-> c + i]
    BY <1>2, <2>2, <2>3 DEF EventsAfter
  <2>9. after \in Seq(Nat) /\ Len(after) = k /\ \A i \in 1 .. k : after[i] = c + i
    BY <2>1, <2>3, <2>8
  <2>4. PICK size \in Nat : /\ size = IF Batch < MaxEvents - stream.emitted
                                      THEN Batch ELSE MaxEvents - stream.emitted
                            /\ size <= Batch
    BY <1>1
  <2>5. Read = IF k <= size THEN after ELSE SubSeq(after, 1, size)
    BY <1>6, <2>1, <2>2, <2>4, <2>9 DEF Read
  <2>6. CASE k <= size
    <3>1. Read = after /\ Len(Read) <= Batch /\ c + Len(Read) <= n
      BY <1>1, <2>1, <2>3, <2>4, <2>5, <2>6, <2>9
    <3>2. FollowOn(after, c)
      BY <2>1, <2>9, FollowPointwise
    <3> QED
      BY <1>2, <2>1, <2>9, <3>1, <3>2
  <2>7. CASE ~(k <= size)
    <3>1. SubSeq(after, 1, size) \in Seq(Nat) /\ Len(SubSeq(after, 1, size)) = size
      BY <2>4, <2>7, <2>9
    <3>2. \A i \in 1 .. size : SubSeq(after, 1, size)[i] = c + i
      BY <2>4, <2>7, <2>9
    <3>3. FollowOn(SubSeq(after, 1, size), c)
      BY <2>1, <3>1, <3>2, FollowPointwise
    <3>4. c + size <= n
      BY <1>2, <2>1, <2>3, <2>4, <2>7
    <3> QED
      BY <1>2, <2>1, <2>4, <2>5, <2>7, <3>1, <3>3, <3>4
  <2> QED
    BY <2>6, <2>7
<1> QED
  BY <1>5, <1>6


---------------------------------------------------------------------------
(* The steps that leave the log and what the browser got alone. *)

LEMMA ClosedTyped ==
    /\ Closed \in [open : BOOLEAN, cursor : Nat, pending : Seq(Nat),
                   emitted : 0 .. MaxEvents, ended : BOOLEAN]
    /\ ~Closed.open /\ Closed.cursor = 0 /\ Closed.pending = << >>
BY StreamAssumption DEF Closed

(* A step that only closes the stream, drops frames, closes or reopens the *)
(* transport, or learns of an end that is stored.                          *)
Lets ==
    /\ stream' = stream \/ stream' = Closed
    /\ \/ client'.source = client.source /\ wire' = wire
       \/ client'.source = "closed" /\ (wire' = wire \/ wire' = << >>)
       \/ client'.source = "connecting" /\ ~stream'.open /\ wire' = << >>

Learns ==
    /\ Row = "absent" => client'.source = "none"
    /\ client'.poll \in Life!Terminal => Row = client'.poll
    /\ client'.finish # "no" => Ended
    /\ client'.finish \in Life!Status => Row = client'.finish
    /\ client'.shown = "answer" => Row \in {"succeeded", "safe_refusal"}
    /\ client'.shown = "job failed" => Row = "failed"
    /\ client'.shown # "no result"

LEMMA TellingKeeps ==
    ASSUME IndInv, status' = status, events' = events, seen' = seen,
           client' \in ClientStates, client'.last = client.last,
           faults' \in 0 .. MaxFaults, Lets, Learns
    PROVE  IndInv'
<1>1. Log' = Log /\ Row' = Row /\ Ended' = Ended
  BY DEF Log, Row, Ended
<1>2. Len(Log) \in Nat
  BY DEF IndInv, StreamTyped, Log
<1>3. StreamTyped'
  BY ClosedTyped DEF IndInv, StreamTyped, Lets
<1>4. EventsOnceInOrder'
  BY DEF IndInv, EventsOnceInOrder
<1>5. Logged(stream.pending, stream.cursor)' /\ Len(stream'.pending) < Batch
  <2>1. CASE stream' = stream
    BY <1>1, <2>1 DEF IndInv, StreamFollows, Logged, FollowOn
  <2>2. CASE stream' = Closed
    <3>1. stream'.cursor = 0 /\ stream'.pending = << >>
      BY <2>2, ClosedTyped
    <3>2. FollowOn(<< >>, 0) /\ Len(<< >>) = 0 /\ 0 < Batch
      BY FollowNone, StreamAssumption
    <3> QED
      BY <1>1, <1>2, <3>1, <3>2 DEF Logged, FollowOn
  <2> QED
    BY <2>1, <2>2 DEF Lets
<1>6. \A i \in 1 .. Len(wire') : wire'[i] \in 1 .. Len(Log')
  <2>1. CASE wire' = wire
    BY <1>1, <2>1 DEF IndInv, StreamFollows
  <2>2. CASE wire' = << >>
    BY <2>2
  <2> QED
    BY <2>1, <2>2 DEF Lets
<1>7. ASSUME client'.source = "open"
      PROVE  /\ Logged(wire, client.last)'
             /\ stream'.open => stream'.cursor = client'.last + Len(wire')
  <2>1. client.source = "open" /\ wire' = wire
    BY <1>7 DEF Lets
  <2>2. Logged(wire, client.last)'
    BY <1>1, <2>1 DEF IndInv, StreamFollows, Logged, FollowOn
  <2>3. stream'.open => stream' = stream
    BY ClosedTyped DEF Lets
  <2> QED
    BY <2>1, <2>2, <2>3 DEF IndInv, StreamFollows
<1>8. client'.source \in {"none", "connecting"} => ~stream'.open /\ wire' = << >>
  BY ClosedTyped DEF IndInv, StreamFollows, Lets
<1>9. StreamFollows'
  BY <1>1, <1>5, <1>6, <1>7, <1>8 DEF IndInv, StreamFollows
<1>10. EndKnown'
  BY <1>1 DEF IndInv, EndKnown, Learns
<1>11. ShowsWhatIsStored'
  BY <1>1 DEF ShowsWhatIsStored, Learns
<1> QED
  BY <1>3, <1>4, <1>9, <1>10, <1>11 DEF IndInv

LEMMA SetTypes ==
    /\ Life!Status = {"absent", "queued", "running", "succeeded", "safe_refusal", "failed"}
    /\ Life!Terminal = {"succeeded", "safe_refusal", "failed"}
    /\ Life!Kind = {"queued", "running", "recovered", "succeeded", "safe_refusal", "failed"}
BY DEF Life!Status, Life!Terminal, Life!Kind

LEMMA FaultTyped ==
    ASSUME IndInv PROVE /\ Fault => faults' \in 0 .. MaxFaults
                        /\ UNCHANGED faults => faults' \in 0 .. MaxFaults
BY StreamAssumption DEF IndInv, StreamTyped, Fault

(* A client whose transport and polling change, and nothing it was told.   *)
LEMMA ReopeningKeeps ==
    ASSUME IndInv, status' = status, events' = events, seen' = seen,
           faults' \in 0 .. MaxFaults, Lets,
           NEW s \in {"connecting", "closed"}, NEW p \in {"off", "timer"} \cup Asking,
           p \notin Life!Terminal \/ p = client.poll,
           client' = [client EXCEPT !.source = s, !.poll = p],
           client.source # "none"
    PROVE  IndInv'
<1>1. /\ client' \in ClientStates /\ client'.last = client.last
      /\ client'.source = s /\ client'.poll = p
      /\ client'.finish = client.finish /\ client'.shown = client.shown
  BY DEF IndInv, StreamTyped, ClientStates
<1>2. Learns
  BY <1>1 DEF IndInv, EndKnown, ShowsWhatIsStored, Learns
<1> QED
  BY <1>1, <1>2, TellingKeeps

LEMMA PollingTyped ==
    ASSUME IndInv
    PROVE  /\ Polling(client.poll) \in {"off", "timer"} \cup Asking
           /\ Polling(client.poll) \notin Life!Terminal \/ Polling(client.poll) = client.poll
BY SetTypes DEF IndInv, StreamTyped, ClientStates, Polling

LEMMA RefusedKeeps == ASSUME IndInv, Refused PROVE IndInv'
<1>1. Lets
  BY DEF Refused, Lets, IndInv, StreamTyped, ClientStates
<1>2. faults' \in 0 .. MaxFaults
  BY FaultTyped DEF Refused
<1>3. client' = [client EXCEPT !.source = "closed", !.poll = Polling(client.poll)]
  BY DEF Refused
<1> QED
  BY <1>1, <1>2, <1>3, PollingTyped, ReopeningKeeps DEF Refused

LEMMA UnreachedKeeps == ASSUME IndInv, Unreached PROVE IndInv'
<1>1. /\ client' = [client EXCEPT !.source = "connecting", !.poll = Polling(client.poll)]
      /\ client'.source = client.source
  BY DEF Unreached, IndInv, StreamTyped, ClientStates
<1>2. Lets
  BY <1>1 DEF Unreached, Lets
<1>3. faults' \in 0 .. MaxFaults
  BY FaultTyped DEF Unreached
<1> QED
  BY <1>1, <1>2, <1>3, PollingTyped, ReopeningKeeps DEF Unreached

LEMMA DisconnectKeeps == ASSUME IndInv, Disconnect PROVE IndInv'
<1>1. client' = [client EXCEPT !.source = "connecting", !.poll = Polling(client.poll)]
  BY DEF Disconnect
<1>2. Lets
  BY <1>1 DEF Disconnect, Lets, IndInv, StreamTyped, ClientStates
<1>3. faults' \in 0 .. MaxFaults
  BY FaultTyped DEF Disconnect
<1> QED
  BY <1>1, <1>2, <1>3, PollingTyped, ReopeningKeeps DEF Disconnect

LEMMA BreakKeeps == ASSUME IndInv, Break PROVE IndInv'
<1>1. client' = [client EXCEPT !.source = "connecting", !.poll = Polling(client.poll)]
  BY DEF Break
<1>2. Lets
  BY <1>1, ClosedTyped DEF Break, Lets, IndInv, StreamTyped, ClientStates
<1>3. faults' \in 0 .. MaxFaults
  BY FaultTyped DEF Break
<1> QED
  BY <1>1, <1>2, <1>3, PollingTyped, ReopeningKeeps DEF Break

LEMMA StopKeeps == ASSUME IndInv, Stop \/ TimesOut PROVE IndInv'
<1>1. /\ client' = client /\ wire' = wire /\ stream' = Closed
      /\ status' = status /\ events' = events /\ seen' = seen
  BY DEF Stop, TimesOut
<1>2. faults' \in 0 .. MaxFaults
  BY FaultTyped DEF Stop, TimesOut
<1>3. Lets /\ Learns
  BY <1>1 DEF Lets, Learns, IndInv, EndKnown, ShowsWhatIsStored
<1>4. client' \in ClientStates /\ client'.last = client.last
  BY <1>1 DEF IndInv, StreamTyped
<1> QED
  BY <1>1, <1>2, <1>3, <1>4, TellingKeeps

(* The transport may close; the poll and the reads at the end may be told  *)
(* a status, which is that of the row if it is terminal.                   *)
Told(s, p, f, o) ==
    /\ status' = status /\ events' = events /\ seen' = seen /\ stream' = stream
    /\ faults' \in 0 .. MaxFaults
    /\ s \in {"closed", client.source} /\ (Row = "absent" => s = "none")
    /\ wire' = wire \/ (s = "closed" /\ wire' = << >>)
    /\ p \in {"off", "timer"} \cup Asking /\ (p \in Life!Terminal => p = Row)
    /\ f \in {"no"} \cup Asking /\ (f # "no" => Ended) /\ (f \in Life!Status => f = Row)
    /\ o \in {"nothing", "answer", "job failed", "gave up"}
    /\ o = "answer" => Row \in {"succeeded", "safe_refusal"}
    /\ o = "job failed" => Row = "failed"
    /\ client' = [client EXCEPT !.source = s, !.poll = p, !.finish = f, !.shown = o]

LEMMA ToldKeeps ==
    ASSUME IndInv, NEW s, NEW p, NEW f, NEW o, Told(s, p, f, o)
    PROVE  IndInv'
<1>1. /\ client' \in ClientStates /\ client'.last = client.last
      /\ client'.source = s /\ client'.poll = p
      /\ client'.finish = f /\ client'.shown = o
  BY DEF IndInv, StreamTyped, ClientStates, Told
<1>2. Learns
  BY <1>1 DEF Learns, Told
<1>3. Lets
  BY <1>1 DEF Lets, Told
<1> QED
  BY <1>1, <1>2, <1>3, TellingKeeps DEF Told

LEMMA ClientKnown ==
    ASSUME IndInv
    PROVE  /\ client.poll \in {"off", "timer"} \cup Asking
           /\ client.finish \in {"no"} \cup Asking
           /\ client.shown \in {"nothing", "answer", "job failed", "gave up"}
           /\ client.poll \in Life!Terminal => client.poll = Row
           /\ client.finish # "no" => Ended
           /\ client.finish \in Life!Status => client.finish = Row
           /\ client.shown = "answer" => Row \in {"succeeded", "safe_refusal"}
           /\ client.shown = "job failed" => Row = "failed"
           /\ Row = "absent" => client.source = "none" /\ ~Ended
           /\ Row \in Life!Status
           /\ client \in ClientStates
BY SetTypes DEF IndInv, StreamTyped, ClientStates, EndKnown, ShowsWhatIsStored, Ended, Row

LEMMA PollKeeps == ASSUME IndInv, PollAsk \/ PollRead \/ PollFails PROVE IndInv'
<1>1. PICK p : p = client'.poll
  OBVIOUS
<1>2. /\ p \in {"off", "timer"} \cup Asking
      /\ p \in Life!Terminal => p = Row
      /\ client' = [client EXCEPT !.poll = p]
  BY <1>1, SetTypes, ClientKnown DEF PollAsk, PollRead, PollFails, Asking, ClientStates
<1>3. client' = [client EXCEPT !.source = client.source, !.poll = p,
                               !.finish = client.finish, !.shown = client.shown]
  BY <1>2, ClientKnown DEF ClientStates
<1>4. faults' \in 0 .. MaxFaults
  BY FaultTyped DEF PollAsk, PollRead, PollFails
<1>5. /\ status' = status /\ events' = events /\ seen' = seen
      /\ stream' = stream /\ wire' = wire
  BY DEF PollAsk, PollRead, PollFails
<1> QED
  <2>1. Told(client.source, p, client.finish, client.shown)
    BY <1>2, <1>3, <1>4, <1>5, ClientKnown DEF Told
  <2> QED
    BY <2>1, ToldKeeps

LEMMA PollAnswerKeeps == ASSUME IndInv, PollAnswer PROVE IndInv'
<1>1. PICK s, p, f : s = client'.source /\ p = client'.poll /\ f = client'.finish
  OBVIOUS
<1>2. /\ s \in {"closed", client.source}
      /\ p \in {"off", "timer"}
      /\ \/ f = client.finish
         \/ f = client.poll /\ client.poll \in Life!Terminal
      /\ s # client.source => client.poll \in Life!Terminal
      /\ client' = [client EXCEPT !.source = s, !.poll = p,
                                  !.finish = f, !.shown = client.shown]
  BY <1>1, ClientKnown DEF PollAnswer, Finishing, ClientStates
<1>3. /\ status' = status /\ events' = events /\ seen' = seen
      /\ stream' = stream /\ faults' \in 0 .. MaxFaults
      /\ wire' = wire \/ (s = "closed" /\ wire' = << >>)
  BY <1>1, FaultTyped DEF PollAnswer
<1>4. p \notin Life!Terminal
  BY <1>2, SetTypes
<1>5. f \in {"no"} \cup Asking /\ (f # "no" => Ended) /\ (f \in Life!Status => f = Row)
  <2>1. CASE f = client.finish
    BY <2>1, ClientKnown
  <2>2. CASE f = client.poll /\ client.poll \in Life!Terminal
    BY <2>2, ClientKnown DEF Ended, Asking
  <2> QED
    BY <1>2, <2>1, <2>2
<1>6. Row = "absent" => s = "none"
  BY <1>2, SetTypes, ClientKnown
<1> QED
  <2>1. Told(s, p, f, client.shown)
    BY <1>2, <1>3, <1>4, <1>5, <1>6, ClientKnown DEF Told
  <2> QED
    BY <2>1, ToldKeeps

LEMMA FinishReadKeeps == ASSUME IndInv, FinishRead PROVE IndInv'
<1>1. client' = [client EXCEPT !.source = client.source, !.poll = client.poll,
                               !.finish = Row, !.shown = client.shown]
  BY ClientKnown DEF FinishRead, ClientStates
<1>2. Ended /\ Row \in {"no"} \cup Asking
  BY ClientKnown DEF FinishRead, Asking
<1>3. faults' \in 0 .. MaxFaults
  BY FaultTyped DEF FinishRead
<1> QED
  <2>1. Told(client.source, client.poll, Row, client.shown)
    BY <1>1, <1>2, <1>3, ClientKnown DEF FinishRead, Told
  <2> QED
    BY <2>1, ToldKeeps

LEMMA FinalizeKeeps ==
    ASSUME IndInv, NEW o \in {"answer", "job failed", "gave up"}, Finalize(o),
           faults' \in 0 .. MaxFaults, Row # "absent",
           o = "answer" => Row \in {"succeeded", "safe_refusal"},
           o = "job failed" => Row = "failed"
    PROVE  IndInv'
<1>1. client' = [client EXCEPT !.source = "closed", !.poll = "off",
                               !.finish = client.finish, !.shown = o]
  BY ClientKnown DEF Finalize, ClientStates
<1>2. "off" \notin Life!Terminal
  BY SetTypes
<1> QED
  <2>1. Told("closed", "off", client.finish, o)
    BY <1>1, <1>2, ClientKnown DEF Finalize, Told
  <2> QED
    BY <2>1, ToldKeeps

LEMMA ShowKeeps == ASSUME IndInv, Show PROVE IndInv'
<1>1. client.finish = Row /\ Row \in {"succeeded", "safe_refusal", "failed"}
  BY SetTypes, ClientKnown DEF Show, Ended
<1>2. faults' \in 0 .. MaxFaults
  BY FaultTyped DEF Show
<1>3. CASE Row = "failed"
  <2>1. Finalize("job failed")
    BY <1>1, <1>3 DEF Show
  <2> QED
    BY <1>2, <1>3, <2>1, FinalizeKeeps
<1>4. CASE Row \in {"succeeded", "safe_refusal"}
  <2>1. Finalize("answer")
    BY <1>1, <1>4 DEF Show
  <2> QED
    BY <1>2, <1>4, <2>1, FinalizeKeeps
<1> QED
  BY <1>1, <1>3, <1>4

LEMMA GiveUpKeeps == ASSUME IndInv, ShowFails \/ Deadline PROVE IndInv'
<1>1. faults' \in 0 .. MaxFaults /\ Finalize("gave up")
  BY FaultTyped DEF ShowFails, Deadline
<1>2. Row # "absent"
  BY ClientKnown DEF ShowFails, Deadline
<1> QED
  BY <1>1, <1>2, FinalizeKeeps


---------------------------------------------------------------------------
(* The events under way. *)

LEMMA ConnectKeeps == ASSUME IndInv, Connect PROVE IndInv'
<1>1. Log' = Log /\ Row' = Row /\ Ended' = Ended
  BY DEF Connect, Log, Row, Ended
<1>2. client' \in ClientStates /\ client' = [client EXCEPT !.source = "open"]
  BY DEF Connect, IndInv, StreamTyped, ClientStates
<1>3. /\ client'.source = "open" /\ client'.last = client.last
      /\ client'.poll = client.poll /\ client'.finish = client.finish
      /\ client'.shown = client.shown
  BY <1>2, ClientKnown DEF ClientStates
<1>4. PICK from \in Nat : from = client.last
  BY ClientKnown DEF ClientStates
<1>5. /\ stream' = [Closed EXCEPT !.open = TRUE, !.cursor = from]
      /\ stream'.cursor = from /\ stream'.pending = << >>
      /\ stream' \in [open : BOOLEAN, cursor : Nat, pending : Seq(Nat),
                      emitted : 0 .. MaxEvents, ended : BOOLEAN]
  BY <1>4, ClosedTyped DEF Connect
<1>6. wire = << >> /\ wire' = wire /\ from <= Len(Log) /\ Len(Log) \in Nat
  BY <1>4 DEF Connect, IndInv, StreamTyped, StreamFollows, Log
<1>7. StreamTyped'
  BY <1>2, <1>5 DEF Connect, IndInv, StreamTyped
<1>8. EventsOnceInOrder'
  BY <1>3 DEF Connect, IndInv, EventsOnceInOrder
<1>9. FollowOn(<< >>, from) /\ Len(<< >>) = 0 /\ 0 < Batch
  BY FollowNone, StreamAssumption
<1>10. Logged(stream.pending, stream.cursor)' /\ Logged(wire, client.last)'
  <2>1. /\ stream'.pending = << >> /\ stream'.cursor = from
        /\ wire' = << >> /\ client'.last = from
    BY <1>3, <1>4, <1>5, <1>6
  <2>2. from + Len(<< >>) <= Len(Log')
    BY <1>1, <1>4, <1>6, <1>9
  <2> QED
    BY <1>9, <2>1, <2>2 DEF Logged, FollowOn
<1>11. StreamFollows'
  <2>1. /\ Len(wire') = 0 /\ Len(stream'.pending) = 0
        /\ stream'.cursor = client'.last + Len(wire')
    BY <1>3, <1>4, <1>5, <1>6, <1>9
  <2>2. \A i \in 1 .. Len(wire') : wire'[i] \in 1 .. Len(Log')
    BY <2>1
  <2> QED
    BY <1>1, <1>3, <1>4, <1>6, <1>9, <1>10, <2>1, <2>2 DEF StreamFollows
<1>12. EndKnown'
  BY <1>1, <1>3 DEF Connect, IndInv, EndKnown
<1>13. ShowsWhatIsStored'
  BY <1>1, <1>3 DEF IndInv, ShowsWhatIsStored
<1> QED
  BY <1>7, <1>8, <1>11, <1>12, <1>13 DEF IndInv

StreamSet == [open : BOOLEAN, cursor : Nat, pending : Seq(Nat),
              emitted : 0 .. MaxEvents, ended : BOOLEAN]

LEMMA YieldTyped ==
    ASSUME NEW s \in StreamSet, NEW c \in Nat, NEW p \in Seq(Nat),
           NEW m \in 0 .. MaxEvents, NEW e \in BOOLEAN, NEW t,
           t = [s EXCEPT !.cursor = c, !.pending = p, !.emitted = m, !.ended = e]
    PROVE  /\ t \in StreamSet /\ t.open = s.open
           /\ t.cursor = c /\ t.pending = p
BY DEF StreamSet

LEMMA YieldKeeps == ASSUME IndInv, Yield PROVE IndInv'
<1>1. Log' = Log /\ Row' = Row /\ Ended' = Ended
  BY DEF Yield, Log, Row, Ended
<1>2. PICK c \in Nat, n \in Nat : c = stream.cursor /\ n = Len(Log)
  BY DEF IndInv, StreamTyped, Log
<1>2a. PICK batch : batch = Read
  OBVIOUS
<1>3. /\ batch \in Seq(Nat) /\ Len(batch) <= Batch /\ FollowOn(batch, c)
      /\ c + Len(batch) <= n /\ batch # << >>
  BY <1>2, <1>2a, ReadFollows DEF Yield, IndInv, StreamTyped
<1>4. PICK rest : rest = Tail(batch)
  OBVIOUS
<1>5. /\ Head(batch) = c + 1 /\ rest \in Seq(Nat) /\ FollowOn(rest, c + 1)
      /\ Len(rest) = Len(batch) - 1 /\ Len(batch) >= 1
  BY <1>2, <1>3, <1>4, FollowTail
<1>6. /\ Len(rest) < Batch /\ (c + 1) + Len(rest) <= n /\ c + 1 \in 1 .. n
  <2>1. PICK b \in Nat, r \in Nat : b = Len(batch) /\ r = Len(rest)
    BY <1>3, <1>5
  <2>2. r = b - 1 /\ b >= 1 /\ c + b <= n /\ b <= Batch /\ Batch \in Nat
    BY <1>3, <1>5, <2>1, StreamAssumption
  <2> QED
    BY <1>2, <2>1, <2>2
<1>7. /\ stream'.open /\ stream'.cursor = c + 1 /\ stream'.pending = rest
      /\ wire' = Append(wire, c + 1) /\ stream.open
      /\ stream' \in [open : BOOLEAN, cursor : Nat, pending : Seq(Nat),
                      emitted : 0 .. MaxEvents, ended : BOOLEAN]
  <2>1. PICK e \in BOOLEAN : e = (Log[c + 1] \in Life!Terminal)
    <3>1. CASE Log[c + 1] \in Life!Terminal
      <4>1. TRUE \in BOOLEAN /\ TRUE = (Log[c + 1] \in Life!Terminal)
        BY <3>1
      <4> QED
        BY <4>1
    <3>2. CASE Log[c + 1] \notin Life!Terminal
      <4>1. FALSE \in BOOLEAN /\ FALSE = (Log[c + 1] \in Life!Terminal)
        BY <3>2
      <4> QED
        BY <4>1
    <3> QED
      BY <3>1, <3>2
  <2>2. PICK m \in 0 .. MaxEvents : m = stream.emitted + 1
    BY StreamAssumption DEF Yield, IndInv, StreamTyped
  <2>3. /\ stream' = [stream EXCEPT !.cursor = c + 1, !.pending = rest,
                                    !.emitted = m, !.ended = e]
        /\ wire' = Append(wire, c + 1) /\ stream.open
    BY <1>2, <1>2a, <1>4, <1>5, <2>1, <2>2 DEF Yield
  <2> QED
    <3>1. c + 1 \in Nat /\ stream \in StreamSet
      BY <1>2 DEF IndInv, StreamTyped, StreamSet
    <3> QED
      BY <1>5, <2>1, <2>2, <2>3, <3>1, YieldTyped DEF StreamSet
<1>8. wire' \in Seq(Nat) /\ Len(wire') = Len(wire) + 1
  BY <1>2, <1>7 DEF IndInv, StreamTyped
<1>9. StreamTyped'
  BY <1>7, <1>8 DEF Yield, IndInv, StreamTyped
<1>10. \A i \in 1 .. Len(wire') : wire'[i] \in 1 .. Len(Log')
  <2>1. PICK w \in Seq(Nat), k \in Nat : w = wire /\ k = Len(wire)
    BY DEF IndInv, StreamTyped
  <2>2. ASSUME NEW i \in 1 .. k + 1 PROVE wire'[i] \in 1 .. n
    <3>1. CASE i = k + 1
      BY <1>2, <1>6, <1>7, <2>1, <3>1
    <3>2. CASE i \in 1 .. k
      BY <1>2, <1>7, <2>1, <3>2 DEF IndInv, StreamFollows
    <3> QED
      BY <2>1, <3>1, <3>2
  <2> QED
    BY <1>1, <1>2, <1>8, <2>1, <2>2
<1>11. ASSUME client.source = "open"
       PROVE  Logged(wire, client.last)' /\ stream'.cursor = client.last + Len(wire')
  <2>1. PICK w \in Seq(Nat), k \in Nat, l \in Nat :
           w = wire /\ k = Len(w) /\ l = client.last
    <3>1. wire \in Seq(Nat) /\ client.last \in Nat
      BY DEF IndInv, StreamTyped, ClientStates
    <3> QED
      BY <3>1
  <2>2. FollowOn(w, l) /\ c = l + k
    BY <1>2, <1>7, <1>11, <2>1 DEF IndInv, StreamFollows, Logged
  <2>3. wire' = Append(w, l + k + 1)
    BY <1>7, <2>1, <2>2
  <2>4. FollowOn(wire', l) /\ l + Len(wire') <= n /\ Len(wire') = k + 1
    <3>1. /\ Len(Append(w, l + k + 1)) = k + 1
          /\ FollowOn(Append(w, l + k + 1), l)
      BY <2>1, <2>2, FollowAppend
    <3>2. l + (k + 1) <= n
      BY <1>2, <1>6, <2>1, <2>2
    <3> QED
      BY <2>3, <3>1, <3>2
  <2>5. client' = client /\ client'.last = l /\ Len(Log') = n
    BY <1>1, <1>2, <2>1 DEF Yield
  <2>6. FollowOn(wire, client.last)'
    BY <2>4, <2>5 DEF FollowOn
  <2>7. stream'.cursor = l + (k + 1)
    BY <1>7, <2>1, <2>2
  <2> QED
    BY <2>1, <2>4, <2>5, <2>6, <2>7 DEF Logged
<1>12. Logged(stream.pending, stream.cursor)'
  BY <1>1, <1>2, <1>5, <1>6, <1>7 DEF Logged, FollowOn
<1>13. StreamFollows'
  BY <1>1, <1>6, <1>7, <1>10, <1>11, <1>12 DEF Yield, IndInv, StreamFollows
<1>14. EventsOnceInOrder' /\ EndKnown' /\ ShowsWhatIsStored'
  BY <1>1 DEF Yield, IndInv, EventsOnceInOrder, EndKnown, ShowsWhatIsStored
<1> QED
  BY <1>9, <1>13, <1>14 DEF IndInv


LEMMA DeliveredTyped ==
    ASSUME client \in ClientStates, NEW l \in Nat
    PROVE  /\ LET c == [Finishing("asked") EXCEPT !.last = l + 1]
              IN  /\ c \in ClientStates /\ c.last = l + 1 /\ c.shown = client.shown
                  /\ c.source = "closed" /\ c.finish = "asked"
                  /\ c.poll \in {client.poll, "off"}
           /\ LET c == [client EXCEPT !.last = l + 1]
              IN  /\ c \in ClientStates /\ c.last = l + 1 /\ c.shown = client.shown
                  /\ c.source = client.source /\ c.finish = client.finish
                  /\ c.poll = client.poll
<1>1. PICK k \in Nat : k = l + 1
  OBVIOUS
<1>2. LET c == [Finishing("asked") EXCEPT !.last = k]
      IN  /\ c \in ClientStates /\ c.last = k /\ c.shown = client.shown
          /\ c.source = "closed" /\ c.finish = "asked"
          /\ c.poll \in {client.poll, "off"}
  BY DEF Finishing, ClientStates, Asking
<1>3. LET c == [client EXCEPT !.last = k]
      IN  /\ c \in ClientStates /\ c.last = k /\ c.shown = client.shown
          /\ c.source = client.source /\ c.finish = client.finish
          /\ c.poll = client.poll
  BY DEF ClientStates
<1> QED
  BY <1>1, <1>2, <1>3

(* The next event arrives: it is the one after the last.                   *)
LEMMA DeliverKeeps == ASSUME IndInv, Deliver PROVE IndInv'
<1>1. Log' = Log /\ Row' = Row /\ Ended' = Ended
  BY DEF Deliver, Log, Row, Ended
<1>2. PICK w \in Seq(Nat), l \in Nat, n \in Nat, got \in Seq(Nat) :
         w = wire /\ l = client.last /\ n = Len(Log) /\ got = seen
  <2>1. wire \in Seq(Nat) /\ seen \in Seq(Nat)
    BY DEF IndInv, StreamTyped
  <2>2. client.last \in Nat
    BY ClientKnown DEF ClientStates
  <2>3. Len(Log) \in Nat
    BY DEF IndInv, StreamTyped, Log
  <2> QED
    BY <2>1, <2>2, <2>3
<1>3. /\ FollowOn(w, l) /\ l + Len(w) <= n /\ w # << >>
      /\ got = [i \in 1 .. Len(got) |-> i] /\ l = Len(got)
      /\ stream.open => stream.cursor = l + Len(w)
  BY <1>2 DEF Deliver, IndInv, StreamFollows, Logged, EventsOnceInOrder
<1>4. PICK rest : rest = Tail(w)
  OBVIOUS
<1>5. /\ Head(w) = l + 1 /\ rest \in Seq(Nat) /\ FollowOn(rest, l + 1)
      /\ Len(rest) = Len(w) - 1 /\ Len(w) >= 1
  BY <1>2, <1>3, <1>4, FollowTail
<1>6. l + 1 \in 1 .. n /\ (l + 1) + Len(rest) = l + Len(w) /\ Len(w) \in Nat
  <2>1. PICK k \in Nat : k = Len(w)
    BY <1>2
  <2> QED
    BY <1>2, <1>3, <1>5, <2>1
<1>7. PICK term \in {"yes", "no"} : (term = "yes") <=> (Log[l + 1] \in Life!Terminal)
  OBVIOUS
<1>8. /\ client' \in ClientStates /\ client'.last = l + 1 /\ client'.shown = client.shown
      /\ client'.source = IF term = "yes" THEN "closed" ELSE "open"
      /\ client'.finish = IF term = "yes" THEN "asked" ELSE client.finish
      /\ client'.poll \in {client.poll, "off"}
  <2>1. CASE term = "yes"
    <3>1. client' = [Finishing("asked") EXCEPT !.last = l + 1]
      BY <1>2, <1>5, <1>7, <2>1 DEF Deliver
    <3> QED
      BY <1>2, <2>1, <3>1, ClientKnown, DeliveredTyped
  <2>2. CASE term = "no"
    <3>1. client' = [client EXCEPT !.last = l + 1]
      BY <1>2, <1>5, <1>7, <2>2 DEF Deliver
    <3> QED
      BY <1>2, <2>2, <3>1, ClientKnown, DeliveredTyped DEF Deliver
  <2> QED
    BY <1>7, <2>1, <2>2
<1>9. /\ wire' = IF term = "yes" THEN << >> ELSE rest
      /\ seen' = Append(got, l + 1)
      /\ stream' = stream /\ faults' = faults /\ status' = status /\ events' = events
  BY <1>2, <1>4, <1>5, <1>7 DEF Deliver
<1>10. seen' \in Seq(Nat) /\ Len(seen') = l + 1
  BY <1>2, <1>3, <1>9
<1>11. StreamTyped'
  BY <1>5, <1>8, <1>9, <1>10 DEF IndInv, StreamTyped
<1>12. EventsOnceInOrder'
  <2>1. \A i \in 1 .. l + 1 : seen'[i] = i
    <3>1. ASSUME NEW i \in 1 .. l PROVE seen'[i] = i
      BY <1>2, <1>3, <1>9
    <3>2. seen'[l + 1] = l + 1
      BY <1>2, <1>3, <1>9
    <3> QED
      BY <1>2, <3>1, <3>2
  <2>2. seen' = [i \in 1 .. l + 1 |-> i]
    <3>1. PICK m \in Nat : m = l + 1
      BY <1>2
    <3>2. seen' = [i \in 1 .. m |-> seen'[i]]
      BY <1>10, <3>1
    <3> QED
      BY <2>1, <3>1, <3>2
  <2> QED
    BY <1>8, <1>10, <2>2 DEF EventsOnceInOrder
<1>13. \A i \in 1 .. Len(wire') : wire'[i] \in 1 .. Len(Log')
  <2>1. CASE term = "yes"
    BY <1>9, <2>1
  <2>2. CASE term # "yes"
    <3>1. PICK k \in Nat : k = Len(rest)
      BY <1>5
    <3>2. \A i \in 1 .. k : rest[i] = (l + 1) + i
      BY <1>5, <3>1 DEF FollowOn
    <3>3. (l + 1) + k <= n
      BY <1>3, <1>6, <3>1
    <3> QED
      BY <1>1, <1>2, <1>9, <2>2, <3>1, <3>2, <3>3
  <2> QED
    BY <2>1, <2>2
<1>14. ASSUME client'.source = "open"
       PROVE  Logged(wire, client.last)' /\ (stream'.open => stream'.cursor = client'.last + Len(wire'))
  <2>1. term # "yes" /\ wire' = rest
    BY <1>8, <1>9, <1>14
  <2> QED
    BY <1>1, <1>2, <1>3, <1>5, <1>6, <1>8, <1>9, <2>1 DEF Logged, FollowOn
<1>15. Logged(stream.pending, stream.cursor)' /\ Len(stream'.pending) < Batch
  BY <1>1, <1>9 DEF IndInv, StreamFollows, Logged, FollowOn
<1>16. StreamFollows'
  <2>1. client'.last <= Len(Log')
    BY <1>1, <1>2, <1>6, <1>8
  <2>2. client'.source \notin {"none", "connecting"}
    BY <1>8
  <2> QED
    BY <1>13, <1>14, <1>15, <2>1, <2>2 DEF StreamFollows
<1>17. EndKnown'
  <2>1. term = "yes" => Ended
    BY <1>2, <1>6, <1>7 DEF IndInv, EndKnown
  <2>2. Row # "absent"
    BY ClientKnown DEF Deliver
  <2> QED
    BY <1>1, <1>8, <2>1, <2>2, SetTypes DEF IndInv, EndKnown
<1>18. ShowsWhatIsStored'
  BY <1>1, <1>8 DEF IndInv, ShowsWhatIsStored
<1> QED
  BY <1>11, <1>12, <1>16, <1>17, <1>18 DEF IndInv


---------------------------------------------------------------------------
(* The log grows, which it only does before the job has ended.             *)

LEMMA LogTyped ==
    ASSUME IndInv PROVE Log \in Seq(Life!Kind) /\ Len(Log) \in Nat
BY DEF IndInv, StreamTyped, Log

LEMMA LogGrows ==
    ASSUME IndInv, ~Ended, NEW s \in Life!Status, NEW k \in Life!Kind, s # "absent",
           k \in Life!Terminal => s \in Life!Terminal,
           Log' = Append(Log, k), Row' = s,
           status' \in [{Job} -> Life!Status], events' \in [{Job} -> Seq(Life!Kind)],
           UNCHANGED <<stream, wire, seen, faults>>,
           \/ client' = client /\ Row # "absent"
           \/ client' = [client EXCEPT !.source = "connecting"] /\ client.source = "none"
           \/ client' = [client EXCEPT !.source = "closed", !.poll = "asked"]
    PROVE  IndInv'
<1>1. PICK n \in Nat : n = Len(Log)
  BY LogTyped
<1>2. Len(Log') = n + 1 /\ \A i \in 1 .. n : Log'[i] = Log[i]
  <2>1. Log \in Seq(Life!Kind)
    BY LogTyped
  <2> QED
    BY <1>1, <2>1
<1>3. /\ client' \in ClientStates /\ client'.last = client.last
      /\ client'.poll \in {client.poll, "asked"} /\ client'.finish = client.finish
      /\ client'.shown = client.shown
      /\ client'.source = "open" => client.source = "open"
      /\ client'.source \in {"none", "connecting"} => client.source \in {"none", "connecting"}
  BY ClientKnown DEF ClientStates, Asking
<1>4. StreamTyped'
  BY <1>3 DEF IndInv, StreamTyped
<1>5. EventsOnceInOrder'
  BY <1>3 DEF IndInv, EventsOnceInOrder
<1>6. StreamFollows'
  <2>1. ASSUME NEW l \in Nat, l <= n PROVE l <= n + 1
    BY <1>1, <2>1
  <2>2. Logged(stream.pending, stream.cursor)'
    <3>1. PICK c \in Nat : c = stream.cursor + Len(stream.pending)
      <4>1. stream.cursor \in Nat /\ Len(stream.pending) \in Nat
        BY DEF IndInv, StreamTyped
      <4> QED
        BY <4>1
    <3>2. FollowOn(stream.pending, stream.cursor) /\ c <= n
      BY <1>1, <3>1 DEF IndInv, StreamFollows, Logged
    <3> QED
      BY <1>2, <2>1, <3>1, <3>2 DEF Logged, FollowOn
  <2>3. ASSUME client'.source = "open"
        PROVE  Logged(wire, client.last)' /\ (stream.open => stream.cursor = client.last + Len(wire))
    <3>1. PICK c \in Nat : c = client.last + Len(wire)
      <4>1. client.last \in Nat
        BY ClientKnown DEF ClientStates
      <4>2. Len(wire) \in Nat
        BY DEF IndInv, StreamTyped
      <4> QED
        BY <4>1, <4>2
    <3>2. FollowOn(wire, client.last) /\ c <= n /\ (stream.open => stream.cursor = c)
      BY <1>1, <1>3, <2>3, <3>1 DEF IndInv, StreamFollows, Logged
    <3> QED
      BY <1>2, <1>3, <2>1, <3>1, <3>2 DEF Logged, FollowOn
  <2>4. \A i \in 1 .. Len(wire') : wire'[i] \in 1 .. Len(Log')
    <3>1. \A i \in 1 .. Len(wire) : wire[i] \in 1 .. n
      BY <1>1 DEF IndInv, StreamFollows
    <3> QED
      BY <1>1, <1>2, <3>1
  <2>5. client'.last <= Len(Log')
    <3>1. client.last \in Nat /\ client.last <= n
      BY <1>1, ClientKnown DEF IndInv, StreamFollows, ClientStates
    <3> QED
      BY <1>2, <1>3, <2>1, <3>1
  <2> QED
    BY <1>3, <2>2, <2>3, <2>4, <2>5 DEF IndInv, StreamFollows
<1>7. /\ client.poll \notin Life!Terminal /\ client.finish = "no"
      /\ client.shown \notin {"answer", "job failed", "no result"}
      /\ "asked" \notin Life!Terminal
  BY SetTypes, ClientKnown DEF Ended, Life!Terminal
<1>8. "no" \notin Life!Status
  BY SetTypes
<1>9. EndKnown'
  <2>1. ASSUME NEW i \in 1 .. n + 1, Log'[i] \in Life!Terminal PROVE s \in Life!Terminal
    <3>1. CASE i \in 1 .. n
      BY <1>1, <1>2, <2>1, <3>1 DEF IndInv, EndKnown
    <3>2. CASE i = n + 1
      <4>1. Log \in Seq(Life!Kind)
        BY LogTyped
      <4> QED
        BY <1>1, <2>1, <3>2, <4>1
    <3> QED
      BY <1>1, <3>1, <3>2
  <2>2. \A i \in 1 .. Len(Log') : Log'[i] \in Life!Terminal => Ended'
    BY <1>2, <2>1 DEF Ended
  <2> QED
    BY <1>3, <1>7, <1>8, <2>2 DEF EndKnown
<1>10. ShowsWhatIsStored'
  BY <1>3, <1>7 DEF ShowsWhatIsStored
<1> QED
  BY <1>4, <1>5, <1>6, <1>9, <1>10 DEF IndInv

LEMMA LifeWrites ==
    ASSUME IndInv, NEW s \in Life!Status, NEW k \in Life!Kind, Life!Write(Job, s, k)
    PROVE  /\ Log' = Append(Log, k) /\ Row' = s
           /\ status' \in [{Job} -> Life!Status] /\ events' \in [{Job} -> Seq(Life!Kind)]
BY DEF IndInv, StreamTyped, Life!Write, Log, Row

LEMMA SubmitKeeps == ASSUME IndInv, Submit PROVE IndInv'
<1>1. Row = "absent" /\ Life!Write(Job, "queued", "queued")
  BY DEF Submit, Life!Create, Row
<1>2. /\ ~Ended /\ client.source = "none"
      /\ \/ client' = [client EXCEPT !.source = "connecting"]
         \/ client' = [client EXCEPT !.source = "closed", !.poll = "asked"]
  BY <1>1, ClientKnown DEF Submit
<1>3. "queued" \in Life!Status /\ "queued" \in Life!Kind /\ "queued" \notin Life!Terminal
  BY SetTypes
<1>4. /\ Log' = Append(Log, "queued") /\ Row' = "queued"
      /\ status' \in [{Job} -> Life!Status] /\ events' \in [{Job} -> Seq(Life!Kind)]
  BY <1>1, <1>3, LifeWrites
<1>5. UNCHANGED <<stream, wire, seen, faults>>
  BY DEF Submit
<1> QED
  BY <1>2, <1>3, <1>4, <1>5, LogGrows

LEMMA RunKeeps == ASSUME IndInv, Run PROVE IndInv'
<1>1. UNCHANGED <<stream, wire, seen, faults>> /\ client' = client
  BY DEF Run
<1>2. ASSUME NEW s \in Life!Status, NEW k \in Life!Kind, Life!Write(Job, s, k),
             s # "absent", k \in Life!Terminal => s \in Life!Terminal,
             Row \in {"queued", "running"}
      PROVE  IndInv'
  <2>1. ~Ended /\ Row # "absent"
    BY <1>2, SetTypes DEF Ended
  <2>2. /\ Log' = Append(Log, k) /\ Row' = s
        /\ status' \in [{Job} -> Life!Status] /\ events' \in [{Job} -> Seq(Life!Kind)]
    BY <1>2, LifeWrites
  <2> QED
    BY <1>1, <1>2, <2>1, <2>2, LogGrows
<1>3. CASE Life!Claim(Job)
  BY <1>2, <1>3, SetTypes DEF Life!Claim, Row
<1>4. CASE Life!Reject(Job)
  BY <1>2, <1>4, SetTypes DEF Life!Reject, Row
<1>5. ASSUME NEW o \in Life!Terminal, Life!Finish(Job, o) PROVE IndInv'
  BY <1>2, <1>5, SetTypes DEF Life!Finish, Row
<1>6. CASE Life!Recover({Job})
  <2>1. Life!Write(Job, "queued", "recovered") /\ Row = "running"
    BY <1>6 DEF Life!Recover, Life!Write, Row, IndInv, StreamTyped
  <2> QED
    BY <1>2, <2>1, SetTypes
<1> QED
  BY <1>3, <1>4, <1>5, <1>6 DEF Run

---------------------------------------------------------------------------
(* The theorems. *)

LEMMA InitOK == Init => IndInv
<1> SUFFICES ASSUME Init PROVE IndInv
  OBVIOUS
<1>1. /\ status \in [{Job} -> Life!Status] /\ events \in [{Job} -> Seq(Life!Kind)]
      /\ Row = "absent" /\ Log = << >> /\ Len(Log) = 0
  BY SetTypes DEF Init, Life!Init, Row, Log
<1>2. stream = Closed /\ wire = << >> /\ seen = << >> /\ faults = 0
      /\ client = [source |-> "none", last |-> 0, poll |-> "off",
                   finish |-> "no", shown |-> "nothing"]
  BY DEF Init
<1>3. StreamTyped
  BY <1>1, <1>2, ClosedTyped, StreamAssumption DEF StreamTyped, ClientStates
<1>4. FollowOn(<< >>, 0) /\ Len(<< >>) = 0 /\ 0 < Batch /\ 0 + Len(<< >>) <= Len(Log)
  BY <1>1, FollowNone, StreamAssumption
<1>5. StreamFollows
  <2>1. Logged(stream.pending, stream.cursor)
    BY <1>2, <1>4, ClosedTyped DEF Logged, FollowOn
  <2> QED
    BY <1>1, <1>2, <1>4, <2>1, ClosedTyped DEF StreamFollows
<1>6. EventsOnceInOrder
  BY <1>2 DEF EventsOnceInOrder
<1>7. EndKnown
  BY <1>1, <1>2, SetTypes DEF EndKnown
<1>8. ShowsWhatIsStored
  BY <1>2 DEF ShowsWhatIsStored
<1> QED
  BY <1>3, <1>5, <1>6, <1>7, <1>8 DEF IndInv

LEMMA NextKeeps == IndInv /\ [Next]_vars => IndInv'
<1> SUFFICES ASSUME IndInv, [Next]_vars PROVE IndInv'
  OBVIOUS
<1>1. CASE Server
  BY <1>1, ConnectKeeps, RefusedKeeps, UnreachedKeeps, YieldKeeps, StopKeeps DEF Server
<1>2. CASE Browser
  BY <1>2, DeliverKeeps, DisconnectKeeps, BreakKeeps, PollKeeps, PollAnswerKeeps,
     FinishReadKeeps, ShowKeeps, GiveUpKeeps DEF Browser
<1>3. CASE UNCHANGED vars
  <2>1. /\ status' = status /\ events' = events /\ seen' = seen /\ client' = client
        /\ stream' = stream /\ wire' = wire /\ faults' = faults
    BY <1>3 DEF vars
  <2>2. client' \in ClientStates /\ client'.last = client.last /\ faults' \in 0 .. MaxFaults
    BY <2>1 DEF IndInv, StreamTyped
  <2>3. Lets /\ Learns
    BY <2>1 DEF Lets, Learns, IndInv, EndKnown, ShowsWhatIsStored
  <2> QED
    BY <2>1, <2>2, <2>3, TellingKeeps
<1> QED
  BY <1>1, <1>2, <1>3, SubmitKeeps, RunKeeps DEF Next

(* The inductive invariant: frames under way and batches read ahead follow *)
(* the last event the browser has, and what it was told of the end is so.  *)
THEOREM IndInvHolds == Spec => []IndInv
BY InitOK, NextKeeps, PTL DEF Spec

(* The iterator, the frames under way and the browser's state keep their   *)
(* types, and every frame is an event of the log.                          *)
THEOREM TypeCorrect == Spec => []TypeOK
<1>1. IndInv => TypeOK
  <2> SUFFICES ASSUME IndInv PROVE TypeOK
    OBVIOUS
  <2>1. Life!TypeOK
    BY DEF IndInv, StreamTyped, Life!TypeOK
  <2> QED
    BY <2>1 DEF IndInv, StreamTyped, StreamFollows, TypeOK
<1> QED
  BY <1>1, IndInvHolds, PTL

(* docs/agent-jobs-api.md "replay only events after that sequence": every  *)
(* event once and in order, whatever is lost and however often the browser *)
(* connects.                                                               *)
THEOREM EventsInOrder == Spec => []EventsOnceInOrder
<1>1. IndInv => EventsOnceInOrder
  BY DEF IndInv
<1> QED
  BY <1>1, IndInvHolds, PTL

(* finishAgentJob: what the user is shown is the outcome that is stored.   *)
THEOREM ShownIsStored == Spec => []ShowsWhatIsStored
<1>1. IndInv => ShowsWhatIsStored
  BY DEF IndInv
<1> QED
  BY <1>1, IndInvHolds, PTL

=============================================================================
