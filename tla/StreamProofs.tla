----------------------------- MODULE StreamProofs -----------------------------
(***************************************************************************)
(* What a participant of a room sees, for journals, turns, queues and       *)
(* replays of any size: the types, the order of the events shown, their     *)
(* completeness and that of the text with the broadcast in memory.          *)
(***************************************************************************)
EXTENDS Stream, SequenceTheorems, FiniteSetTheorems, TLAPS

-----------------------------------------------------------------------------
(* Types. *)

LEMMA Sizes ==
  /\ MaxEvents \in Nat /\ MaxEvents > 0 /\ QueueMax \in Nat /\ QueueMax > 0
  /\ ReplayLimit \in Nat /\ ReplayLimit > 0
  /\ MaxDeltas \in Nat /\ Retention \in Nat
BY StreamAssumption

\* The last rows, as many as are asked for, are rows.
LEMMA LastRows ==
  ASSUME NEW s \in Seq(Row), NEW n \in 0..Len(s)
  PROVE  /\ SubSeq(s, Len(s) - n + 1, Len(s)) \in Seq(Row)
         /\ Len(SubSeq(s, Len(s) - n + 1, Len(s))) = n
         /\ \A i \in 1..n : SubSeq(s, Len(s) - n + 1, Len(s))[i] = s[Len(s) - n + i]
<1>1. /\ Len(s) \in Nat
      /\ \A i \in (Len(s) - n + 1)..Len(s) : s[i] \in Row
  BY LenProperties, ElementOfSeq
<1>2. QED
  BY <1>1, SubSeqProperties

\* The rows a query counts are some of the rows.
LEMMA TotalType ==
  ASSUME rows \in Seq(Row), NEW n
  PROVE  Total(n) \in 0..Len(rows)
<1> DEFINE later == {i \in DOMAIN rows : rows[i].seq > n}
<1>1. Len(rows) \in Nat /\ DOMAIN rows = 1..Len(rows)
  BY LenProperties
<1>2. IsFiniteSet(1..Len(rows)) /\ Cardinality(1..Len(rows)) = Len(rows)
  BY <1>1, FS_Interval
<1>3. later \subseteq 1..Len(rows)
  BY <1>1
<1>4. Cardinality(later) \in Nat /\ Cardinality(later) <= Len(rows)
  <2>1. IsFiniteSet(later) /\ Cardinality(later) <= Cardinality(1..Len(rows))
    BY <1>2, <1>3, FS_Subset
  <2>2. QED
    BY <2>1, <1>2, FS_CardinalityType
<1>5. QED
  BY <1>1, <1>4 DEF Total

LEMMA ReplayType ==
  ASSUME rows \in Seq(Row), NEW n
  PROVE  Replay(n) \in Seq(Row) /\ Truncated(n) \in BOOLEAN
<1> DEFINE count == IF Total(n) <= ReplayLimit THEN Total(n) ELSE ReplayLimit
<1>1. count \in 0..Len(rows)
  BY TotalType, LenProperties, Sizes
<1>2. QED
  BY <1>1, LastRows DEF Replay, Truncated

LEMMA OfferType ==
  ASSUME StreamTypeOK, NEW frame \in Frame, Offer(frame)
  PROVE  /\ queue' \in Seq(Frame) /\ Len(queue') <= QueueMax
         /\ dropped' \in BOOLEAN
<1>1. CASE Subscribed /\ Len(queue) < QueueMax
  <2>1. queue' = Append(queue, frame) /\ dropped' = dropped
    BY <1>1 DEF Offer
  <2>2. queue' \in Seq(Frame) /\ Len(queue') = Len(queue) + 1
    BY <2>1, AppendProperties DEF StreamTypeOK
  <2>3. QED
    BY <1>1, <2>1, <2>2, LenProperties, Sizes DEF StreamTypeOK
<1>2. CASE ~ (Subscribed /\ Len(queue) < QueueMax)
  BY <1>2 DEF Offer, StreamTypeOK, Subscribed
<1>3. QED
  BY <1>1, <1>2

LEMMA PublishType ==
  ASSUME StreamTypeOK, NEW frame \in Frame, Publish(frame)
  PROVE  /\ queue' \in Seq(Frame) /\ Len(queue') <= QueueMax
         /\ dropped' \in BOOLEAN
         /\ flight' \subseteq Frame
<1>1. CASE redis
  BY <1>1 DEF Publish, StreamTypeOK
<1>2. CASE ~ redis
  BY <1>2, OfferType DEF Publish, StreamTypeOK
<1>3. QED
  BY <1>1, <1>2

LEMMA GoneType ==
  ASSUME StreamTypeOK, Gone
  PROVE  /\ conn' \in {"off", "subscribed", "live"} /\ listening' \in BOOLEAN
         /\ queue' \in Seq(Frame) /\ Len(queue') <= QueueMax
         /\ dropped' \in BOOLEAN
         /\ wire' \in Seq(Frame \cup Snapshot)
<1>1. <<>> \in Seq(Frame) /\ <<>> \in Seq(Frame \cup Snapshot)
  BY EmptySeq
<1>2. Len(<<>>) <= QueueMax
  BY Sizes
<1>3. QED
  BY <1>1, <1>2 DEF Gone

\* The numbers of the events of a snapshot.
LEMMA NumbersType ==
  ASSUME NEW s \in Seq(Row)
  PROVE  /\ [i \in DOMAIN s |-> s[i].seq] \in Seq(1..MaxEvents)
         /\ Len([i \in DOMAIN s |-> s[i].seq]) = Len(s)
<1>1. Len(s) \in Nat /\ DOMAIN s = 1..Len(s) /\ \A i \in 1..Len(s) : s[i] \in Row
  BY LenProperties, ElementOfSeq
<1>2. [i \in DOMAIN s |-> s[i].seq] \in [1..Len(s) -> 1..MaxEvents]
  BY <1>1 DEF Row
<1>3. QED
  BY <1>1, <1>2, SeqDef

LEMMA ReceiveType ==
  ASSUME StreamTypeOK, Receive
  PROVE  StreamTypeOK'
<1> DEFINE frame == Head(wire)
<1>1. /\ frame \in Frame \cup Snapshot
      /\ wire' \in Seq(Frame \cup Snapshot)
  BY HeadTailProperties DEF Receive, StreamTypeOK
<1>2. /\ last' \in 0..MaxEvents
      /\ seen' \in Seq(1..MaxEvents)
      /\ shown' \in Seq(Delta)
      /\ told' \subseteq 1..MaxEvents
  <2>1. CASE frame.kind = "snapshot" /\ ApplySnapshot(frame)
    <3> DEFINE numbers == [i \in DOMAIN frame.events |-> frame.events[i].seq]
    <3>1. frame \in Snapshot
      BY <1>1, <2>1 DEF Frame, Kind
    <3>2. /\ frame.events \in Seq(Row) /\ frame.partial \in Seq(Delta)
          /\ frame.last \in 0..MaxEvents
      BY <3>1 DEF Snapshot
    <3>3. numbers \in Seq(1..MaxEvents)
      BY <3>2, NumbersType
    <3>4. <<>> \in Seq(1..MaxEvents) /\ <<>> \in Seq(Delta)
      BY EmptySeq
    <3>5. (IF last = 0 THEN <<>> ELSE seen) \in Seq(1..MaxEvents)
      BY <3>4 DEF StreamTypeOK
    <3>6. seen' \in Seq(1..MaxEvents)
      BY <2>1, <3>3, <3>5, ConcatProperties DEF ApplySnapshot
    <3>7. shown' \in Seq(Delta)
      BY <2>1, <3>2, <3>4 DEF ApplySnapshot, StreamTypeOK
    <3>8. (last + 1)..frame.last \subseteq 1..MaxEvents
      BY <3>2, Sizes DEF StreamTypeOK
    <3>9. told' \subseteq 1..MaxEvents
      BY <2>1, <3>8 DEF ApplySnapshot, StreamTypeOK
    <3>10. QED
      BY <2>1, <3>2, <3>6, <3>7, <3>9 DEF ApplySnapshot
  <2>2. CASE frame.kind = "delta" /\ ApplyDelta(frame)
    <3>1. frame.rank \in Delta
      BY <1>1, <2>2 DEF Frame, Kind, Snapshot
    <3>2. shown' \in Seq(Delta)
      BY <2>2, <3>1, AppendProperties DEF ApplyDelta, StreamTypeOK
    <3>3. QED
      BY <2>2, <3>2 DEF ApplyDelta, StreamTypeOK
  <2>3. CASE frame.kind \in Kind /\ ApplyEvent(frame)
    <3>1. frame.seq \in 1..MaxEvents
      BY <1>1, <2>3 DEF Frame, Kind, Snapshot
    <3>2. CASE frame.seq <= last
      BY <2>3, <3>2 DEF ApplyEvent, StreamTypeOK, viewVars
    <3>3. CASE ~ (frame.seq <= last)
      <4>1. /\ last' = frame.seq /\ seen' = Append(seen, frame.seq) /\ told' = told
            /\ shown' = (IF frame.kind = "message" THEN <<>> ELSE shown)
        BY <2>3, <3>3 DEF ApplyEvent
      <4>2. seen' \in Seq(1..MaxEvents)
        BY <3>1, <4>1, AppendProperties DEF StreamTypeOK
      <4>3. shown' \in Seq(Delta)
        BY <4>1, EmptySeq DEF StreamTypeOK
      <4>4. QED
        BY <3>1, <4>1, <4>2, <4>3 DEF StreamTypeOK
    <3>4. QED
      BY <3>2, <3>3
  <2>4. QED
    BY <2>1, <2>2, <2>3 DEF Receive
<1>3. QED
  BY <1>1, <1>2 DEF Receive, StreamTypeOK, relayVars

LEMMA TypeStep == StreamTypeOK /\ [StreamNext]_streamVars => StreamTypeOK'
<1> SUFFICES ASSUME StreamTypeOK, [StreamNext]_streamVars PROVE StreamTypeOK'
  OBVIOUS
<1> USE DEF relayVars, connVars, viewVars
<1>1. ASSUME NEW kind \in Kind, Record(kind) PROVE StreamTypeOK'
  <2>1. seq' \in 1..MaxEvents
    BY <1>1, Sizes DEF Record, StreamTypeOK
  <2>2. [kind |-> kind, seq |-> seq'] \in Frame /\ [seq |-> seq', kind |-> kind] \in Row
    BY <2>1 DEF Frame, Row
  <2>3. rows' \in Seq(Row)
    BY <1>1, <2>2, AppendProperties DEF Record, StreamTypeOK
  <2>4. partial' \in Seq(Delta)
    BY <1>1, EmptySeq DEF Record, StreamTypeOK
  <2>5. /\ queue' \in Seq(Frame) /\ Len(queue') <= QueueMax
        /\ dropped' \in BOOLEAN /\ flight' \subseteq Frame
    BY <1>1, <2>2, PublishType DEF Record
  <2>6. QED
    BY <1>1, <2>1, <2>3, <2>4, <2>5, Sizes DEF Record, StreamTypeOK
<1>2. ASSUME Produce PROVE StreamTypeOK'
  <2>1. produced' \in 1..MaxDeltas
    BY <1>2, Sizes DEF Produce, StreamTypeOK
  <2>2. [kind |-> "delta", rank |-> produced'] \in Frame
    BY <2>1 DEF Frame, Delta
  <2>3. partial' \in Seq(Delta)
    BY <1>2, <2>1, AppendProperties DEF Produce, StreamTypeOK, Delta
  <2>4. /\ queue' \in Seq(Frame) /\ Len(queue') <= QueueMax
        /\ dropped' \in BOOLEAN /\ flight' \subseteq Frame
    BY <1>2, <2>2, PublishType DEF Produce
  <2>5. QED
    BY <1>2, <2>1, <2>3, <2>4, Sizes DEF Produce, StreamTypeOK
<1>3. ASSUME Purge PROVE StreamTypeOK'
  <2>1. Retention \in 0..Len(rows)
    BY <1>3, LenProperties, Sizes DEF Purge, StreamTypeOK
  <2>2. rows' \in Seq(Row)
    BY <1>3, <2>1, LastRows DEF Purge, StreamTypeOK
  <2>3. QED
    BY <1>3, <2>2 DEF Purge, StreamTypeOK
<1>4. ASSUME Deliver PROVE StreamTypeOK'
  <2>1. PICK frame \in flight :
          /\ flight' = flight \ {frame}
          /\ IF listening THEN Offer(frame) ELSE UNCHANGED <<queue, dropped>>
          /\ UNCHANGED <<redis, rows, seq, partial, produced, conn, listening, wire, viewVars>>
    BY <1>4 DEF Deliver
  <2>2. /\ queue' \in Seq(Frame) /\ Len(queue') <= QueueMax
        /\ dropped' \in BOOLEAN
    BY <2>1, OfferType DEF StreamTypeOK
  <2>3. QED
    BY <2>1, <2>2 DEF StreamTypeOK
<1>5. ASSUME Listen PROVE StreamTypeOK'
  BY <1>5 DEF Listen, StreamTypeOK
<1>6. ASSUME Restart PROVE StreamTypeOK'
  <2>1. seq' \in 0..MaxEvents
    <3>1. CASE rows = <<>>
      BY <1>6, <3>1, Sizes DEF Restart, LastSeq
    <3>2. CASE rows # <<>>
      <4>1. rows[Len(rows)] \in Row
        BY <3>2, EmptySeq, ElementOfSeq DEF StreamTypeOK
      <4>2. QED
        BY <1>6, <3>2, <4>1 DEF Restart, LastSeq, Row
    <3>3. QED
      BY <3>1, <3>2
  <2>2. partial' \in Seq(Delta) /\ flight' \subseteq Frame
    BY <1>6, EmptySeq DEF Restart
  <2>3. QED
    BY <1>6, <2>1, <2>2, GoneType DEF Restart, StreamTypeOK
<1>7. ASSUME Cut PROVE StreamTypeOK'
  BY <1>7, GoneType DEF Cut, StreamTypeOK
<1>8. ASSUME Connect PROVE StreamTypeOK'
  BY <1>8 DEF Connect, StreamTypeOK
<1>9. ASSUME Welcome PROVE StreamTypeOK'
  <2> DEFINE snapshot == [kind |-> "snapshot", events |-> Replay(last),
                          partial |-> partial, last |-> seq,
                          truncated |-> Truncated(last)]
  <2>1. snapshot \in Snapshot
    BY ReplayType DEF Snapshot, StreamTypeOK
  <2>2. wire' = <<snapshot>>
    BY <1>9 DEF Welcome
  <2>3. wire' \in Seq(Frame \cup Snapshot)
    BY <2>1, <2>2
  <2>4. QED
    BY <1>9, <2>3 DEF Welcome, StreamTypeOK
<1>10. ASSUME Pump PROVE StreamTypeOK'
  <2>1. /\ Head(queue) \in Frame
        /\ queue' \in Seq(Frame) /\ Len(queue') <= QueueMax
    BY <1>10, HeadTailProperties, LenProperties, Sizes DEF Pump, StreamTypeOK
  <2>2. wire' \in Seq(Frame \cup Snapshot)
    BY <1>10, <2>1, AppendProperties DEF Pump, StreamTypeOK
  <2>3. QED
    BY <1>10, <2>1, <2>2 DEF Pump, StreamTypeOK
<1>11. ASSUME Receive PROVE StreamTypeOK'
  BY <1>11, ReceiveType
<1>12. CASE UNCHANGED streamVars
  BY <1>12 DEF streamVars, StreamTypeOK
<1>13. QED
  BY <1>1, <1>2, <1>3, <1>4, <1>5, <1>6, <1>7, <1>8, <1>9, <1>10, <1>11, <1>12
  DEF StreamNext

\* Every variable of the journal, the connection and the view keeps its type, for
\* any number of events and deltas and any sizes of queue, replay and retention.
THEOREM StreamTypeCorrect == StreamSpec => []StreamTypeOK
<1>1. StreamInit => StreamTypeOK
  <2>1. /\ <<>> \in Seq(Row) /\ <<>> \in Seq(Delta) /\ <<>> \in Seq(Frame)
        /\ <<>> \in Seq(Frame \cup Snapshot) /\ <<>> \in Seq(1..MaxEvents)
    BY EmptySeq
  <2>2. Len(<<>>) <= QueueMax /\ 0 \in 0..MaxEvents /\ 0 \in 0..MaxDeltas
    BY Sizes
  <2>3. QED
    BY <2>1, <2>2 DEF StreamInit, StreamTypeOK
<1>2. QED
  BY <1>1, TypeStep, PTL DEF StreamSpec

-----------------------------------------------------------------------------
(* The inductive invariant. *)

\* The rows are the last events recorded, numbered one by one up to the last.
JournalInv ==
  /\ Len(rows) <= seq
  /\ seq > 0 => rows # <<>>
  /\ \A i \in 1..Len(rows) : rows[i].seq = seq - Len(rows) + i

\* A retention longer than a replay never hides from a replay that it purged.
PurgeInv == seq > Len(rows) => Len(rows) > ReplayLimit

\* The participant has yet to apply the snapshot of its connection.
Welcoming == wire # <<>> /\ wire[1].kind = "snapshot"

\* What is on its way to the participant, and where its view will start from.
Path == wire \o queue
Base == IF Welcoming THEN wire[1].last ELSE last

\* Only the first frame of a connection is a snapshot, taken from this journal after
\* what the view had; no frame is ahead of the journal, and the view is in order.
Fresh(frames) ==
  \A i \in 1..Len(frames) : frames[i].kind \in Kind => frames[i].seq <= seq
Increasing(numbers) ==
  \A i, j \in 1..Len(numbers) : i < j => numbers[i] < numbers[j]
SnapshotInv ==
  Welcoming =>
    /\ last <= wire[1].last /\ wire[1].last <= seq
    /\ \A i \in 1..Len(wire[1].events) :
         wire[1].events[i].seq \in (last + 1)..wire[1].last
    /\ \A i, j \in 1..Len(wire[1].events) :
         i < j => wire[1].events[i].seq < wire[1].events[j].seq
ViewInv ==
  /\ last <= seq
  /\ Increasing(seen)
  /\ \A i \in 1..Len(seen) : seen[i] <= last
FlightInv == \A frame \in flight : frame.kind \in Kind => frame.seq <= seq
FirstInv == \A i \in 1..Len(wire) : wire[i].kind = "snapshot" => i = 1
OrderInv == ViewInv /\ Fresh(wire) /\ Fresh(queue) /\ FlightInv /\ FirstInv /\ SnapshotInv

\* What is shown, or known to be missing, and what the snapshot will add to it.
Accounted(n) == n \in ToSet(seen) \cup told
SnapshotCovers ==
  Welcoming /\ ~ wire[1].truncated =>
    \A n \in (last + 1)..wire[1].last :
      \E i \in 1..Len(wire[1].events) : wire[1].events[i].seq = n

\* An event that is not the next one of the view comes after the one before it.
HasEvent(frames, n) == \E i \in 1..Len(frames) : frames[i].kind \in Kind /\ frames[i].seq = n
Gapless(frames, base) ==
  \A i \in 1..Len(frames) :
    frames[i].kind \in Kind /\ frames[i].seq > base + 1 =>
      \E j \in 1..(i - 1) : frames[j].kind \in Kind /\ frames[j].seq = frames[i].seq - 1
PlacesInv ==
  /\ flight = {} /\ ~ listening
  /\ conn # "live" => wire = <<>>
  /\ conn = "off" => queue = <<>>
CompleteInv ==
  /\ \A n \in 1..last : Accounted(n)
  /\ SnapshotCovers
  /\ conn = "live" => Gapless(Path, Base)
  /\ conn = "live" /\ ~ dropped => seq <= Base \/ HasEvent(Path, seq)

\* A delta of the running turn is on its way with no end of message behind it, or is
\* in the text the view shows, or is about to, and every end on its way is old.
Coming(frames, d) ==
  \E i \in 1..Len(frames) :
    /\ frames[i].kind = "delta" /\ frames[i].rank = d
    /\ \A j \in (i + 1)..Len(frames) : frames[j].kind # "message"
EndsAreOld(frames, base) ==
  \A i \in 1..Len(frames) : frames[i].kind = "message" => frames[i].seq <= base
Text == IF Welcoming THEN wire[1].partial ELSE shown
TextInv ==
  conn = "live" /\ ~ dropped =>
    \A d \in ToSet(partial) :
      Coming(Path, d) \/ (d \in ToSet(Text) /\ EndsAreOld(Path, Base))

-----------------------------------------------------------------------------
(* What the operators of the model do. *)

LEMMA OfferResult ==
  ASSUME StreamTypeOK, NEW frame, Offer(frame)
  PROVE  \/ queue' = Append(queue, frame) /\ conn # "off" /\ ~ dropped /\ dropped' = dropped
         \/ queue' = queue /\ ((conn = "off" /\ dropped' = dropped) \/ dropped')
<1>1. CASE Subscribed /\ Len(queue) < QueueMax
  BY <1>1 DEF Offer, Subscribed
<1>2. CASE ~ (Subscribed /\ Len(queue) < QueueMax)
  <2>1. queue' = queue /\ dropped' = (dropped \/ Subscribed)
    BY <1>2 DEF Offer
  <2>2. dropped \in BOOLEAN
    BY DEF StreamTypeOK
  <2>3. QED
    BY <2>1, <2>2, Zenon DEF Subscribed
<1>3. QED
  BY <1>1, <1>2

\* Whatever is published reaches Redis, the queue, or nobody.
LEMMA PublishResult ==
  ASSUME NEW frame, Publish(frame)
  PROVE  \/ redis /\ flight' = flight \cup {frame} /\ queue' = queue /\ dropped' = dropped
         \/ ~ redis /\ flight' = flight /\ Offer(frame)
BY DEF Publish

LEMMA RestartKeepsNumber ==
  ASSUME StreamTypeOK, JournalInv, Restart
  PROVE  seq' = seq
<1>1. CASE rows = <<>>
  BY <1>1 DEF Restart, LastSeq, JournalInv, StreamTypeOK
<1>2. CASE rows # <<>>
  <2>1. Len(rows) \in 1..Len(rows) /\ Len(rows) \in Nat /\ seq \in Nat
    BY <1>2, EmptySeq, LenProperties, Sizes DEF StreamTypeOK
  <2>2. rows[Len(rows)].seq = seq
    BY <2>1 DEF JournalInv
  <2>3. QED
    BY <1>2, <2>2 DEF Restart, LastSeq
<1>3. QED
  BY <1>1, <1>2

LEMMA PurgeRows ==
  ASSUME StreamTypeOK, Purge
  PROVE  /\ Retention > 0 /\ Len(rows') = Retention /\ Retention < Len(rows)
         /\ \A i \in 1..Len(rows') : rows'[i] = rows[Len(rows) - Retention + i]
<1>1. Retention \in 0..Len(rows) /\ Retention < Len(rows) /\ Retention > 0
  BY LenProperties, Sizes DEF Purge, StreamTypeOK
<1>2. QED
  BY <1>1, LastRows DEF Purge, StreamTypeOK

LEMMA JournalStep ==
  StreamTypeOK /\ JournalInv /\ [StreamNext]_streamVars => JournalInv'
<1> SUFFICES ASSUME StreamTypeOK, JournalInv, [StreamNext]_streamVars PROVE JournalInv'
  OBVIOUS
<1>1. Len(rows) \in Nat /\ seq \in Nat
  BY LenProperties, Sizes DEF StreamTypeOK
<1>2. CASE UNCHANGED <<rows, seq>>
  BY <1>2 DEF JournalInv
<1>3. ASSUME NEW kind \in Kind, Record(kind) PROVE JournalInv'
  <2> DEFINE row == [seq |-> seq', kind |-> kind]
  <2>1. seq' = seq + 1 /\ rows' = Append(rows, row) /\ row \in Row
    BY <1>3, <1>1, Sizes DEF Record, Row, StreamTypeOK
  <2>2. /\ Len(rows') = Len(rows) + 1
        /\ \A i \in 1..Len(rows) : rows'[i] = rows[i]
        /\ rows'[Len(rows) + 1] = row
    BY <2>1, AppendProperties DEF StreamTypeOK
  <2>3. rows' # <<>>
    BY <1>1, <2>2
  <2>4. ASSUME NEW i \in 1..Len(rows') PROVE rows'[i].seq = seq' - Len(rows') + i
    <3>1. CASE i = Len(rows) + 1
      BY <1>1, <2>1, <2>2, <3>1
    <3>2. CASE i \in 1..Len(rows)
      BY <1>1, <2>1, <2>2, <3>2 DEF JournalInv
    <3>3. QED
      BY <1>1, <2>2, <3>1, <3>2
  <2>5. QED
    BY <1>1, <2>1, <2>2, <2>3, <2>4 DEF JournalInv
<1>4. ASSUME Purge PROVE JournalInv'
  <2>1. seq' = seq
    BY <1>4 DEF Purge
  <2>2. ASSUME NEW i \in 1..Len(rows') PROVE rows'[i].seq = seq' - Len(rows') + i
    <3>1. Len(rows) - Retention + i \in 1..Len(rows)
      BY <1>1, <1>4, PurgeRows, Sizes
    <3>2. rows[Len(rows) - Retention + i].seq = seq - Len(rows) + (Len(rows) - Retention + i)
      BY <3>1 DEF JournalInv
    <3>3. QED
      BY <1>1, <1>4, <2>1, <3>2, PurgeRows, Sizes
  <2>3. rows' # <<>>
    BY <1>4, PurgeRows, Sizes
  <2>4. QED
    BY <1>1, <1>4, <2>1, <2>2, <2>3, PurgeRows DEF JournalInv
<1>5. ASSUME Restart PROVE JournalInv'
  BY <1>5, RestartKeepsNumber DEF Restart, JournalInv
<1>6. QED
  BY <1>2, <1>3, <1>4, <1>5
  DEF StreamNext, streamVars, relayVars, Produce, Deliver, Listen, Cut, Connect,
      Welcome, Pump, Receive

\* The replay of the events after a number: its rows are numbered one by one up to the
\* last, and there are as many as rows after that number, or as the limit allows.
LEMMA ReplayNumbers ==
  ASSUME StreamTypeOK, JournalInv, NEW n \in 0..seq
  PROVE  /\ Total(n) = IF n < seq - Len(rows) THEN Len(rows) ELSE seq - n
         /\ Len(Replay(n)) = IF Total(n) <= ReplayLimit THEN Total(n) ELSE ReplayLimit
         /\ \A i \in 1..Len(Replay(n)) : Replay(n)[i].seq = seq - Len(Replay(n)) + i
<1> DEFINE first == IF n < seq - Len(rows) THEN 1 ELSE n - seq + Len(rows) + 1
           count == IF Total(n) <= ReplayLimit THEN Total(n) ELSE ReplayLimit
<1>1. Len(rows) \in Nat /\ DOMAIN rows = 1..Len(rows) /\ seq \in Nat /\ Len(rows) <= seq
  BY LenProperties, Sizes DEF StreamTypeOK, JournalInv
<1>2. first \in Int /\ first >= 1
  BY <1>1
<1>3. Total(n) = IF n < seq - Len(rows) THEN Len(rows) ELSE seq - n
  <2>1. \A i \in 1..Len(rows) : rows[i].seq > n <=> i >= first
    BY <1>1 DEF JournalInv
  <2> HIDE DEF first
  <2>2. {i \in DOMAIN rows : rows[i].seq > n} = first..Len(rows)
    BY <1>1, <1>2, <2>1
  <2>3. \A a, b \in Int : Cardinality(a..b) = IF a > b THEN 0 ELSE b - a + 1
    BY FS_Interval
  <2>4. Cardinality(first..Len(rows)) = IF first > Len(rows) THEN 0 ELSE Len(rows) - first + 1
    <3>1. first \in Int /\ Len(rows) \in Int
      BY <1>1, <1>2
    <3>2. QED
      BY <2>3, <3>1, Zenon
  <2>5. Total(n) = IF first > Len(rows) THEN 0 ELSE Len(rows) - first + 1
    BY <2>2, <2>4 DEF Total
  <2>6. CASE n < seq - Len(rows)
    <3>1. first = 1
      BY <2>6 DEF first
    <3>2. QED
      BY <1>1, <2>5, <2>6, <3>1
  <2>7. CASE ~ (n < seq - Len(rows))
    <3>1. first = n - seq + Len(rows) + 1
      BY <2>7 DEF first
    <3>2. QED
      BY <1>1, <2>5, <2>7, <3>1
  <2>8. QED
    BY <2>6, <2>7
<1>4. count \in 0..Len(rows)
  BY TotalType, <1>1, Sizes DEF StreamTypeOK
<1>5. /\ Len(Replay(n)) = count
      /\ \A i \in 1..count : Replay(n)[i] = rows[Len(rows) - count + i]
  BY <1>4, LastRows DEF Replay, StreamTypeOK
<1>6. ASSUME NEW i \in 1..count PROVE Replay(n)[i].seq = seq - count + i
  <2>1. Len(rows) - count + i \in 1..Len(rows)
    BY <1>1, <1>4
  <2>2. rows[Len(rows) - count + i].seq = seq - Len(rows) + (Len(rows) - count + i)
    BY <2>1 DEF JournalInv
  <2>3. Replay(n)[i] = rows[Len(rows) - count + i]
    BY <1>5
  <2>4. seq - Len(rows) + (Len(rows) - count + i) = seq - count + i
    BY <1>1, <1>4
  <2>5. QED
    BY <2>2, <2>3, <2>4
<1>7. QED
  BY <1>3, <1>5, <1>6

-----------------------------------------------------------------------------
(* The order of the events. *)

\* A frame is a snapshot, a delta or an event with its number.
LEMMA FrameFields ==
  ASSUME NEW frame \in Frame \cup Snapshot
  PROVE  /\ frame.kind = "snapshot" => frame \in Snapshot
         /\ frame.kind = "delta" => frame \in Frame /\ frame.rank \in Delta
         /\ frame.kind \in Kind => frame \in Frame /\ frame.seq \in 1..MaxEvents
         /\ frame \in Frame => frame.kind # "snapshot"
BY DEF Frame, Snapshot, Kind

LEMMA WireFields ==
  ASSUME StreamTypeOK
  PROVE  /\ Len(wire) \in Nat /\ Len(queue) \in Nat
         /\ \A i \in 1..Len(wire) : wire[i] \in Frame \cup Snapshot
         /\ \A i \in 1..Len(queue) : queue[i] \in Frame
         /\ seq \in Nat /\ last \in Nat /\ Len(seen) \in Nat
         /\ \A i \in 1..Len(seen) : seen[i] \in 1..MaxEvents
BY LenProperties, ElementOfSeq, Sizes DEF StreamTypeOK

LEMMA WelcomingFields ==
  ASSUME StreamTypeOK, Welcoming
  PROVE  /\ Len(wire) > 0 /\ wire[1] \in Snapshot
         /\ wire[1].events \in Seq(Row) /\ wire[1].partial \in Seq(Delta)
         /\ wire[1].last \in Nat /\ wire[1].truncated \in BOOLEAN
         /\ Len(wire[1].events) \in Nat
         /\ \A i \in 1..Len(wire[1].events) : wire[1].events[i].seq \in 1..MaxEvents
<1>1. Len(wire) \in Nat /\ Len(wire) > 0
  BY EmptySeq DEF Welcoming, StreamTypeOK
<1>2. wire[1] \in Snapshot
  BY <1>1, WireFields, FrameFields DEF Welcoming
<1>3. /\ wire[1].events \in Seq(Row) /\ wire[1].partial \in Seq(Delta)
      /\ wire[1].last \in Nat /\ wire[1].truncated \in BOOLEAN
  BY <1>2, Sizes DEF Snapshot
<1>4. /\ Len(wire[1].events) \in Nat
      /\ \A i \in 1..Len(wire[1].events) : wire[1].events[i] \in Row
  BY <1>3, LenProperties, ElementOfSeq
<1>5. QED
  BY <1>1, <1>2, <1>3, <1>4 DEF Row

\* What the client reads from the socket.
LEMMA WireTail ==
  ASSUME StreamTypeOK, FirstInv, wire # <<>>, wire' = Tail(wire)
  PROVE  /\ Len(wire) \in Nat /\ Len(wire) > 0 /\ Len(wire') = Len(wire) - 1
         /\ Head(wire) = wire[1] /\ wire[1] \in Frame \cup Snapshot
         /\ \A i \in 1..Len(wire') : wire'[i] = wire[i + 1] /\ wire'[i].kind # "snapshot"
         /\ ~ Welcoming'
<1>1. /\ Len(wire) \in Nat /\ Len(wire) > 0 /\ Len(wire') = Len(wire) - 1
      /\ Head(wire) = wire[1] /\ wire[1] \in Frame \cup Snapshot
      /\ wire' \in Seq(Frame \cup Snapshot)
      /\ \A i \in 1..Len(wire') : wire'[i] = wire[i + 1]
  BY HeadTailProperties, EmptySeq, LenProperties, ElementOfSeq DEF StreamTypeOK
<1>2. ASSUME NEW i \in 1..Len(wire') PROVE wire'[i].kind # "snapshot"
  <2>1. i + 1 \in 1..Len(wire) /\ i + 1 # 1
    BY <1>1
  <2>2. QED
    BY <1>1, <2>1 DEF FirstInv
<1>3. ~ Welcoming'
  <2>1. wire' # <<>> => 1 \in 1..Len(wire')
    BY <1>1, EmptySeq, LenProperties
  <2>2. QED
    BY <1>2, <2>1 DEF Welcoming
<1>4. QED
  BY <1>1, <1>2, <1>3

LEMMA OrderKept ==
  ASSUME StreamTypeOK, OrderInv, UNCHANGED <<wire, last, seen>>, seq' \in Nat, seq' >= seq
  PROVE  ViewInv' /\ Fresh(wire)' /\ FirstInv' /\ SnapshotInv'
<1>1. ViewInv'
  BY WireFields DEF OrderInv, ViewInv, Increasing
<1>2. Fresh(wire)'
  BY WireFields, FrameFields, Sizes DEF OrderInv, Fresh
<1>3. FirstInv'
  BY DEF OrderInv, FirstInv
<1>4. SnapshotInv'
  <2> SUFFICES ASSUME Welcoming PROVE SnapshotInv'
    BY DEF SnapshotInv, Welcoming
  <2>1. wire[1].last <= seq'
    BY WelcomingFields, WireFields DEF OrderInv, SnapshotInv
  <2>2. QED
    BY <2>1 DEF OrderInv, SnapshotInv, Welcoming
<1>5. QED
  BY <1>1, <1>2, <1>3, <1>4

\* A frame that is published is queued, or is on its way through Redis.
LEMMA FreshOffer ==
  ASSUME StreamTypeOK, OrderInv, seq' \in Nat, seq' >= seq,
         NEW frame \in Frame, frame.kind \in Kind => frame.seq <= seq', Offer(frame)
  PROVE  Fresh(queue)'
<1>1. \A i \in 1..Len(queue) : queue[i].kind \in Kind => queue[i].seq <= seq'
  BY WireFields, FrameFields, Sizes DEF OrderInv, Fresh
<1>2. CASE queue' = Append(queue, frame)
  <2>1. /\ Len(queue') = Len(queue) + 1 /\ queue'[Len(queue) + 1] = frame
        /\ \A i \in 1..Len(queue) : queue'[i] = queue[i]
    BY <1>2, AppendProperties DEF StreamTypeOK
  <2>2. ASSUME NEW i \in 1..Len(queue'), queue'[i].kind \in Kind
        PROVE  queue'[i].seq <= seq'
    <3>1. i \in 1..Len(queue) \/ i = Len(queue) + 1
      BY <2>1, WireFields
    <3>2. QED
      BY <1>1, <2>1, <2>2, <3>1
  <2>3. QED
    BY <2>2 DEF Fresh
<1>3. CASE queue' = queue
  BY <1>1, <1>3 DEF Fresh
<1>4. QED
  BY <1>2, <1>3, OfferResult

LEMMA FreshPublish ==
  ASSUME StreamTypeOK, OrderInv, seq' \in Nat, seq' >= seq,
         NEW frame \in Frame, frame.kind \in Kind => frame.seq <= seq', Publish(frame)
  PROVE  Fresh(queue)' /\ FlightInv'
<1>1. ASSUME NEW other \in flight, other.kind \in Kind PROVE other.seq <= seq'
  <2>1. other \in Frame \cup Snapshot
    BY DEF StreamTypeOK
  <2>2. other.seq \in 1..MaxEvents /\ other.seq <= seq
    BY <1>1, <2>1, FrameFields DEF OrderInv, FlightInv
  <2>3. QED
    BY <2>2, WireFields, Sizes
<1>2. FlightInv'
  BY <1>1, PublishResult DEF FlightInv
<1>3. ASSUME NEW i \in 1..Len(queue), queue[i].kind \in Kind PROVE queue[i].seq <= seq'
  <2>1. queue[i] \in Frame /\ queue[i].seq <= seq
    BY <1>3, WireFields DEF OrderInv, Fresh
  <2>2. queue[i].seq \in 1..MaxEvents
    BY <1>3, <2>1, FrameFields
  <2>3. QED
    BY <2>1, <2>2, WireFields, Sizes
<1>4. CASE queue' = queue
  BY <1>2, <1>3, <1>4 DEF Fresh
<1>5. QED
  BY <1>2, <1>4, PublishResult, FreshOffer

\* The events of a snapshot that follow those of the view keep their order.
LEMMA ConcatInOrder ==
  ASSUME NEW s \in Seq(1..MaxEvents), NEW t \in Seq(1..MaxEvents),
         NEW a \in Nat, NEW b \in Nat, a <= b, Increasing(s), Increasing(t),
         \A i \in 1..Len(s) : s[i] <= a,
         \A i \in 1..Len(t) : t[i] > a /\ t[i] <= b
  PROVE  Increasing(s \o t) /\ \A i \in 1..Len(s \o t) : (s \o t)[i] <= b
<1> DEFINE m == Len(s)
           u == s \o t
<1>1. /\ m \in Nat /\ Len(t) \in Nat
      /\ \A i \in 1..m : s[i] \in Nat
      /\ \A i \in 1..Len(t) : t[i] \in Nat
  BY LenProperties, ElementOfSeq, Sizes
<1>2. Len(u) = m + Len(t) /\ \A i \in 1..(m + Len(t)) : u[i] = IF i <= m THEN s[i] ELSE t[i - m]
  BY ConcatProperties
<1> HIDE DEF m, u
<1>3. ASSUME NEW i \in 1..Len(u)
      PROVE  \/ i \in 1..m /\ u[i] = s[i]
             \/ i > m /\ i - m \in 1..Len(t) /\ u[i] = t[i - m]
  BY <1>1, <1>2
<1>4. ASSUME NEW i \in 1..Len(u) PROVE u[i] <= b
  BY <1>1, <1>3 DEF m
<1>5. ASSUME NEW i \in 1..Len(u), NEW j \in 1..Len(u), i < j PROVE u[i] < u[j]
  <2>1. CASE j \in 1..m /\ u[j] = s[j]
    <3>1. i \in 1..m /\ u[i] = s[i]
      BY <1>1, <1>3, <1>5, <2>1
    <3>2. QED
      BY <1>5, <2>1, <3>1 DEF Increasing, m
  <2>2. CASE j > m /\ j - m \in 1..Len(t) /\ u[j] = t[j - m]
    <3>1. CASE i \in 1..m /\ u[i] = s[i]
      <4>1. u[i] <= a /\ u[j] > a /\ u[i] \in Nat /\ u[j] \in Nat
        BY <1>1, <2>2, <3>1 DEF m
      <4>2. QED
        BY <4>1
    <3>2. CASE i > m /\ i - m \in 1..Len(t) /\ u[i] = t[i - m]
      <4>1. i - m < j - m
        BY <1>1, <1>5
      <4>2. QED
        BY <2>2, <3>2, <4>1 DEF Increasing
    <3>3. QED
      BY <1>3, <3>1, <3>2
  <2>3. QED
    BY <1>3, <2>1, <2>2
<1>6. QED
  BY <1>4, <1>5 DEF u, Increasing

LEMMA ReceiveInOrder ==
  ASSUME StreamTypeOK, OrderInv, Receive
  PROVE  OrderInv'
<1> DEFINE frame == Head(wire)
<1>1. /\ wire # <<>> /\ wire' = Tail(wire)
      /\ UNCHANGED <<seq, queue, flight>>
  BY DEF Receive, relayVars
<1>2. FirstInv
  BY DEF OrderInv
<1>3. /\ Len(wire) \in Nat /\ Len(wire) > 0 /\ Len(wire') = Len(wire) - 1
      /\ frame = wire[1] /\ frame \in Frame \cup Snapshot
      /\ \A i \in 1..Len(wire') : wire'[i] = wire[i + 1] /\ wire'[i].kind # "snapshot"
      /\ ~ Welcoming'
  BY <1>1, <1>2, WireTail
<1>4. Fresh(wire)' /\ Fresh(queue)' /\ FlightInv'
  <2>1. ASSUME NEW i \in 1..Len(wire'), wire'[i].kind \in Kind PROVE wire'[i].seq <= seq'
    <3>1. i + 1 \in 1..Len(wire) /\ wire'[i] = wire[i + 1]
      BY <1>3
    <3>2. QED
      BY <1>1, <2>1, <3>1 DEF OrderInv, Fresh
  <2>2. Fresh(wire)'
    BY <2>1 DEF Fresh
  <2>3. QED
    BY <1>1, <2>2 DEF OrderInv, Fresh, FlightInv
<1>5. FirstInv' /\ SnapshotInv'
  BY <1>3 DEF FirstInv, SnapshotInv
<1>6. ViewInv'
  <2>1. CASE frame.kind = "snapshot" /\ ApplySnapshot(frame)
    <3> DEFINE events == wire[1].events
               numbers == [i \in DOMAIN events |-> events[i].seq]
               before == IF last = 0 THEN <<>> ELSE seen
    <3>1. Welcoming
      BY <1>1, <1>3, <2>1 DEF Welcoming
    <3>2. /\ last' = wire[1].last /\ seen' = before \o numbers
      BY <1>3, <2>1 DEF ApplySnapshot
    <3>3. /\ numbers \in Seq(1..MaxEvents) /\ Len(numbers) = Len(events)
          /\ Len(events) \in Nat
          /\ \A i \in 1..Len(events) : numbers[i] = events[i].seq
      BY <3>1, WelcomingFields, NumbersType, LenProperties
    <3>4. before \in Seq(1..MaxEvents)
      BY EmptySeq DEF StreamTypeOK
    <3>5. Increasing(before) /\ \A i \in 1..Len(before) : before[i] <= last
      BY DEF OrderInv, ViewInv, Increasing
    <3>6. last <= last' /\ last' <= seq' /\ last \in Nat /\ last' \in Nat
      BY <1>1, <3>1, <3>2, WelcomingFields, WireFields DEF OrderInv, SnapshotInv
    <3>7. \A i \in 1..Len(numbers) : numbers[i] > last /\ numbers[i] <= last'
      <4>1. ASSUME NEW i \in 1..Len(events) PROVE events[i].seq \in (last + 1)..wire[1].last
        BY <3>1 DEF OrderInv, SnapshotInv
      <4>2. QED
        BY <3>2, <3>3, <3>6, <4>1
    <3>8. Increasing(numbers)
      <4>1. \A i, j \in 1..Len(events) : i < j => events[i].seq < events[j].seq
        BY <3>1 DEF OrderInv, SnapshotInv
      <4>2. QED
        BY <3>3, <4>1 DEF Increasing
    <3> HIDE DEF numbers, before
    <3>9. Increasing(before \o numbers)
          /\ \A i \in 1..Len(before \o numbers) : (before \o numbers)[i] <= last'
      BY <3>3, <3>4, <3>5, <3>6, <3>7, <3>8, ConcatInOrder
    <3>10. QED
      BY <3>2, <3>6, <3>9 DEF ViewInv, Increasing
  <2>2. CASE frame.kind = "delta" /\ ApplyDelta(frame)
    BY <1>1, <2>2 DEF ApplyDelta, OrderInv, ViewInv, Increasing
  <2>3. CASE frame.kind \in Kind /\ ApplyEvent(frame)
    <3>1. CASE frame.seq <= last
      BY <1>1, <2>3, <3>1 DEF ApplyEvent, viewVars, OrderInv, ViewInv, Increasing
    <3>2. CASE ~ (frame.seq <= last)
      <4>1. frame.seq \in Nat /\ frame.seq \in 1..MaxEvents /\ frame.seq <= seq
        BY <1>3, <2>3, FrameFields, Sizes DEF OrderInv, Fresh
      <4>2. last' = frame.seq /\ seen' = Append(seen, frame.seq)
        BY <2>3, <3>2 DEF ApplyEvent
      <4>3. /\ Len(seen') = Len(seen) + 1 /\ seen'[Len(seen) + 1] = frame.seq
            /\ \A i \in 1..Len(seen) : seen'[i] = seen[i]
        BY <4>1, <4>2, AppendProperties DEF StreamTypeOK
      <4>4. \A i \in 1..Len(seen) : seen[i] < frame.seq /\ seen[i] \in Nat
        BY <3>2, <4>1, WireFields, Sizes DEF OrderInv, ViewInv
      <4>5. ASSUME NEW i \in 1..Len(seen') PROVE seen'[i] <= last'
        BY <4>1, <4>2, <4>3, <4>4, WireFields
      <4>6. ASSUME NEW i \in 1..Len(seen'), NEW j \in 1..Len(seen'), i < j
            PROVE  seen'[i] < seen'[j]
        <5>1. i \in 1..Len(seen)
          BY <4>3, <4>6, WireFields
        <5>2. CASE j = Len(seen) + 1
          BY <4>3, <4>4, <5>1, <5>2
        <5>3. CASE j \in 1..Len(seen)
          BY <4>3, <4>6, <5>1, <5>3 DEF OrderInv, ViewInv, Increasing
        <5>4. QED
          BY <4>3, <5>2, <5>3, WireFields
      <4>7. QED
        BY <1>1, <4>1, <4>2, <4>5, <4>6 DEF ViewInv, Increasing
    <3>3. QED
      BY <3>1, <3>2
  <2>4. QED
    BY <2>1, <2>2, <2>3 DEF Receive
<1>7. QED
  BY <1>4, <1>5, <1>6 DEF OrderInv

LEMMA WelcomeInOrder ==
  ASSUME StreamTypeOK, JournalInv, OrderInv, Welcome
  PROVE  OrderInv'
<1> DEFINE events == Replay(last)
           snapshot == [kind |-> "snapshot", events |-> events, partial |-> partial,
                        last |-> seq, truncated |-> Truncated(last)]
<1>1. /\ wire' = <<snapshot>> /\ UNCHANGED <<seq, queue, flight, last, seen>>
  BY DEF Welcome, relayVars, viewVars
<1>2. Len(wire') = 1 /\ wire'[1] = snapshot /\ last \in 0..seq
  BY <1>1, WireFields DEF OrderInv, ViewInv
<1>3. /\ Len(events) \in Nat
      /\ \A i \in 1..Len(events) : events[i].seq = seq - Len(events) + i
      /\ Len(events) <= seq - last
  <2>1. Len(events) \in Nat
    BY ReplayType, LenProperties DEF StreamTypeOK
  <2>2. Total(last) <= seq - last /\ Total(last) \in Nat
    <3>1. Total(last) = IF last < seq - Len(rows) THEN Len(rows) ELSE seq - last
      BY <1>2, ReplayNumbers
    <3>2. Len(rows) \in Nat
      BY LenProperties DEF StreamTypeOK
    <3>3. QED
      BY <1>2, <3>1, <3>2, WireFields DEF JournalInv
  <2>3. QED
    BY <1>2, <2>1, <2>2, ReplayNumbers, WireFields, Sizes
<1> HIDE DEF events
<1>4. SnapshotInv'
  <2>1. /\ wire'[1].last = seq' /\ wire'[1].events = events /\ last' <= seq'
    BY <1>1, <1>2, WireFields
  <2>2. \A i \in 1..Len(events) : events[i].seq \in (last + 1)..seq
    BY <1>3, WireFields
  <2>3. \A i, j \in 1..Len(events) : i < j => events[i].seq < events[j].seq
    BY <1>3, WireFields
  <2>4. QED
    BY <1>1, <2>1, <2>2, <2>3, WireFields DEF SnapshotInv
<1>5. Fresh(wire)' /\ FirstInv'
  BY <1>2 DEF Fresh, FirstInv, Kind
<1>6. QED
  BY <1>1, <1>4, <1>5 DEF OrderInv, ViewInv, Increasing, Fresh, FlightInv

LEMMA OrderStep ==
  StreamTypeOK /\ JournalInv /\ OrderInv /\ [StreamNext]_streamVars => OrderInv'
<1> SUFFICES ASSUME StreamTypeOK, JournalInv, OrderInv, [StreamNext]_streamVars
             PROVE  OrderInv'
  OBVIOUS
<1> USE DEF relayVars, connVars, viewVars
<1>0. StreamTypeOK' /\ seq' \in Nat /\ seq \in Nat
  <2>1. StreamTypeOK'
    BY TypeStep
  <2>2. seq' \in 0..MaxEvents /\ seq \in 0..MaxEvents
    BY <2>1 DEF StreamTypeOK
  <2>3. QED
    BY <2>1, <2>2, Sizes
<1>1. ASSUME NEW kind \in Kind, Record(kind) PROVE OrderInv'
  <2> DEFINE frame == [kind |-> kind, seq |-> seq']
  <2>1. /\ seq' = seq + 1 /\ UNCHANGED <<wire, last, seen>> /\ Publish(frame)
    BY <1>1 DEF Record
  <2>2. frame \in Frame /\ frame.seq <= seq' /\ seq' >= seq
    BY <1>0, <1>1, <2>1, Sizes DEF Record, Frame, StreamTypeOK
  <2>3. QED
    BY <1>0, <2>1, <2>2, OrderKept, FreshPublish DEF OrderInv
<1>2. ASSUME Produce PROVE OrderInv'
  <2> DEFINE frame == [kind |-> "delta", rank |-> produced']
  <2>1. /\ UNCHANGED <<seq, wire, last, seen>> /\ Publish(frame)
    BY <1>2 DEF Produce
  <2>2. frame \in Frame /\ frame.kind \notin Kind /\ seq' >= seq
    BY <1>0, <1>2, <2>1, Sizes DEF Produce, Frame, Kind, Delta, StreamTypeOK
  <2>3. QED
    BY <1>0, <2>1, <2>2, OrderKept, FreshPublish DEF OrderInv
<1>3. ASSUME Deliver PROVE OrderInv'
  <2>1. PICK frame \in flight :
          /\ flight' = flight \ {frame}
          /\ IF listening THEN Offer(frame) ELSE UNCHANGED <<queue, dropped>>
          /\ UNCHANGED <<seq, wire, last, seen>>
    BY <1>3 DEF Deliver
  <2>2. frame \in Frame /\ (frame.kind \in Kind => frame.seq <= seq') /\ seq' >= seq
    BY <1>0, <2>1 DEF OrderInv, FlightInv, StreamTypeOK
  <2>3. FlightInv'
    BY <2>1 DEF OrderInv, FlightInv
  <2>4. Fresh(queue)'
    <3>1. CASE listening
      BY <1>0, <2>1, <2>2, <3>1, FreshOffer
    <3>2. CASE ~ listening
      BY <2>1, <3>2 DEF OrderInv, Fresh
    <3>3. QED
      BY <3>1, <3>2
  <2>5. QED
    BY <1>0, <2>1, <2>2, <2>3, <2>4, OrderKept DEF OrderInv
<1>4. ASSUME Gone, flight' \subseteq flight, UNCHANGED <<seq, last, seen>> PROVE OrderInv'
  <2>1. wire' = <<>> /\ queue' = <<>> /\ Len(wire') = 0 /\ Len(queue') = 0
    BY <1>4 DEF Gone
  <2>2. ~ Welcoming'
    BY <2>1 DEF Welcoming
  <2>3. QED
    BY <1>4, <2>1, <2>2
    DEF OrderInv, ViewInv, Increasing, Fresh, FlightInv, FirstInv, SnapshotInv
<1>5. ASSUME Restart PROVE OrderInv'
  BY <1>4, <1>5, RestartKeepsNumber DEF Restart
<1>6. ASSUME Cut PROVE OrderInv'
  BY <1>4, <1>6 DEF Cut
<1>7. ASSUME Pump PROVE OrderInv'
  <2>1. /\ queue # <<>> /\ queue' = Tail(queue) /\ wire' = Append(wire, Head(queue))
        /\ UNCHANGED <<seq, flight, last, seen>>
    BY <1>7 DEF Pump
  <2>2. /\ Len(queue) > 0 /\ Head(queue) = queue[1] /\ queue[1] \in Frame
        /\ Len(queue') = Len(queue) - 1
        /\ \A i \in 1..Len(queue') : queue'[i] = queue[i + 1]
    BY <2>1, HeadTailProperties, EmptySeq, WireFields DEF StreamTypeOK
  <2>3. /\ Len(wire') = Len(wire) + 1 /\ wire'[Len(wire) + 1] = queue[1]
        /\ \A i \in 1..Len(wire) : wire'[i] = wire[i]
    BY <2>1, <2>2, AppendProperties DEF StreamTypeOK
  <2>4. Fresh(queue)'
    <3>1. ASSUME NEW i \in 1..Len(queue'), queue'[i].kind \in Kind
          PROVE  queue'[i].seq <= seq'
      <4>1. i + 1 \in 1..Len(queue)
        BY <2>2, WireFields
      <4>2. QED
        BY <2>1, <2>2, <3>1, <4>1 DEF OrderInv, Fresh
    <3>2. QED
      BY <3>1 DEF Fresh
  <2>5. ASSUME NEW i \in 1..Len(wire')
        PROVE  \/ i \in 1..Len(wire) /\ wire'[i] = wire[i]
               \/ wire'[i] = queue[1] /\ queue[1].kind # "snapshot" /\ 1 \in 1..Len(queue)
    BY <2>2, <2>3, WireFields, FrameFields
  <2>6. Fresh(wire)' /\ FirstInv'
    BY <2>1, <2>5 DEF OrderInv, Fresh, FirstInv
  <2>7. SnapshotInv'
    <3> SUFFICES ASSUME Welcoming' PROVE SnapshotInv'
      BY DEF SnapshotInv
    <3>1. wire'[1] = wire[1] /\ Welcoming
      BY <2>2, <2>3, <2>5, WireFields, EmptySeq DEF Welcoming, StreamTypeOK
    <3>2. QED
      BY <2>1, <3>1 DEF OrderInv, SnapshotInv
  <2>8. QED
    BY <2>1, <2>4, <2>6, <2>7 DEF OrderInv, ViewInv, Increasing, FlightInv
<1>8. CASE UNCHANGED <<seq, wire, queue, flight, last, seen>>
  BY <1>8 DEF OrderInv, ViewInv, Increasing, Fresh, FlightInv, FirstInv, SnapshotInv, Welcoming
<1>9. QED
  BY <1>1, <1>2, <1>3, <1>5, <1>6, <1>7, <1>8, ReceiveInOrder, WelcomeInOrder
  DEF StreamNext, streamVars, Purge, Listen, Connect

\* The events shown are in order and none is shown twice, and the view is never ahead of
\* the journal, whatever the broadcast and the retention: the parts of ShowsTheJournal
\* that do not depend on what is known to be missing.
THEOREM ShownInOrder == StreamSpec => [](JournalInv /\ OrderInv)
<1>1. StreamInit => JournalInv /\ OrderInv
  <2> SUFFICES ASSUME StreamInit PROVE JournalInv /\ OrderInv
    OBVIOUS
  <2>1. /\ Len(rows) = 0 /\ seq = 0 /\ last = 0 /\ Len(seen) = 0 /\ flight = {}
        /\ Len(wire) = 0 /\ Len(queue) = 0 /\ wire = <<>>
    BY DEF StreamInit
  <2>2. QED
    BY <2>1 DEF JournalInv, OrderInv, ViewInv, Increasing, Fresh, FlightInv, FirstInv,
                SnapshotInv, Welcoming
<1>2. QED
  BY <1>1, StreamTypeCorrect, JournalStep, OrderStep, PTL DEF StreamSpec

-----------------------------------------------------------------------------
(* What is on its way to the participant. *)

\* The elements of a sequence, known by their places.
LEMMA Elements ==
  ASSUME NEW S, NEW s \in Seq(S)
  PROVE  ToSet(s) = {s[i] : i \in 1..Len(s)}
BY LenProperties DEF ToSet

LEMMA ElementsAppend ==
  ASSUME NEW S, NEW s \in Seq(S), NEW e \in S
  PROVE  ToSet(Append(s, e)) = ToSet(s) \cup {e}
<1>1. /\ Append(s, e) \in Seq(S) /\ Len(Append(s, e)) = Len(s) + 1
      /\ \A i \in 1..Len(s) : Append(s, e)[i] = s[i]
      /\ Append(s, e)[Len(s) + 1] = e
      /\ Len(s) \in Nat
  BY AppendProperties, LenProperties
<1>2. 1..(Len(s) + 1) = (1..Len(s)) \cup {Len(s) + 1}
  BY <1>1
<1>3. ToSet(Append(s, e)) = {Append(s, e)[i] : i \in (1..Len(s)) \cup {Len(s) + 1}}
  BY <1>1, <1>2, Elements
<1>4. QED
  BY <1>1, <1>3, Elements

LEMMA ElementsConcat ==
  ASSUME NEW S, NEW s \in Seq(S), NEW t \in Seq(S)
  PROVE  ToSet(s \o t) = ToSet(s) \cup ToSet(t)
<1>1. /\ s \o t \in Seq(S) /\ Len(s \o t) = Len(s) + Len(t)
      /\ \A i \in 1..(Len(s) + Len(t)) :
           (s \o t)[i] = IF i <= Len(s) THEN s[i] ELSE t[i - Len(s)]
      /\ Len(s) \in Nat /\ Len(t) \in Nat
  BY ConcatProperties, LenProperties
<1>2. ASSUME NEW e \in ToSet(s \o t) PROVE e \in ToSet(s) \cup ToSet(t)
  <2>1. PICK i \in 1..(Len(s) + Len(t)) : e = (s \o t)[i]
    <3> DEFINE u == s \o t
    <3>1. u \in Seq(S) /\ Len(u) = Len(s) + Len(t) /\ e \in ToSet(u)
      BY <1>1, <1>2
    <3> HIDE DEF u
    <3>2. \E i \in 1..Len(u) : e = u[i]
      BY <3>1, Elements
    <3>3. QED
      BY <3>1, <3>2 DEF u
  <2>2. CASE i <= Len(s)
    <3>1. i \in 1..Len(s) /\ e = s[i]
      BY <1>1, <2>1, <2>2
    <3>2. QED
      BY <3>1, Elements
  <2>3. CASE ~ (i <= Len(s))
    <3>1. i - Len(s) \in 1..Len(t) /\ e = t[i - Len(s)]
      BY <1>1, <2>1, <2>3
    <3>2. QED
      BY <3>1, Elements
  <2>4. QED
    BY <2>2, <2>3
<1>3. ASSUME NEW e \in ToSet(s) PROVE e \in ToSet(s \o t)
  <2>1. PICK i \in 1..Len(s) : e = s[i]
    BY <1>3, Elements
  <2>2. i \in 1..Len(s \o t) /\ (s \o t)[i] = e
    BY <1>1, <2>1
  <2>3. QED
    BY <1>1, <2>2, Elements
<1>4. ASSUME NEW e \in ToSet(t) PROVE e \in ToSet(s \o t)
  <2>1. PICK i \in 1..Len(t) : e = t[i]
    BY <1>4, Elements
  <2>2. Len(s) + i \in 1..Len(s \o t) /\ (s \o t)[Len(s) + i] = e
    BY <1>1, <2>1
  <2>3. QED
    BY <1>1, <2>2, Elements
<1>5. QED
  BY <1>2, <1>3, <1>4

LEMMA PathFields ==
  ASSUME StreamTypeOK
  PROVE  /\ Len(Path) \in Nat /\ Len(Path) = Len(wire) + Len(queue)
         /\ \A i \in 1..Len(Path) : Path[i] \in Frame \cup Snapshot
         /\ \A i \in 1..Len(wire) : i \in 1..Len(Path) /\ Path[i] = wire[i]
         /\ \A i \in 1..Len(queue) :
              Len(wire) + i \in 1..Len(Path) /\ Path[Len(wire) + i] = queue[i]
         /\ \A i \in 1..Len(Path) :
              \/ i \in 1..Len(wire) /\ Path[i] = wire[i]
              \/ i - Len(wire) \in 1..Len(queue) /\ Path[i] = queue[i - Len(wire)]
<1>1. wire \in Seq(Frame \cup Snapshot) /\ queue \in Seq(Frame \cup Snapshot)
  BY SeqMonotonic DEF StreamTypeOK
<1>2. /\ Path \in Seq(Frame \cup Snapshot)
      /\ Len(Path) = Len(wire) + Len(queue)
      /\ \A i \in 1..(Len(wire) + Len(queue)) :
           Path[i] = IF i <= Len(wire) THEN wire[i] ELSE queue[i - Len(wire)]
  BY <1>1, ConcatProperties DEF Path
<1>3. Len(wire) \in Nat /\ Len(queue) \in Nat
  BY WireFields
<1>4. \A i \in 1..Len(Path) : Path[i] \in Frame \cup Snapshot
  BY <1>2, ElementOfSeq
<1>5. QED
  BY <1>2, <1>3, <1>4

\* Every event on its way has a number the journal has reached.
LEMMA PathFresh ==
  ASSUME StreamTypeOK, OrderInv,
         NEW i \in 1..Len(Path), Path[i].kind \in Kind
  PROVE  Path[i].seq \in Nat /\ Path[i].seq > 0 /\ Path[i].seq <= seq
<1>1. Path[i].seq \in 1..MaxEvents
  BY PathFields, FrameFields
<1>2. Path[i].seq <= seq
  BY PathFields DEF OrderInv, Fresh
<1>3. QED
  BY <1>1, <1>2, Sizes

\* A frame that is queued comes after all the others.
LEMMA PathAppend ==
  ASSUME StreamTypeOK, NEW frame \in Frame, queue' = Append(queue, frame), wire' = wire
  PROVE  /\ Len(Path)' = Len(Path) + 1 /\ Path'[Len(Path) + 1] = frame
         /\ \A i \in 1..Len(Path) : Path'[i] = Path[i]
<1>1. wire \in Seq(Frame \cup Snapshot) /\ queue \in Seq(Frame \cup Snapshot)
  BY SeqMonotonic DEF StreamTypeOK
<1>2. Path' = Append(Path, frame)
  <2>1. frame \in Frame \cup Snapshot
    OBVIOUS
  <2>2. wire \o Append(queue, frame) = Append(wire \o queue, frame)
    BY <1>1, <2>1, AppendIsConcat, ConcatAssociative, ConcatProperties
  <2>3. QED
    BY <2>2 DEF Path
<1>3. Path \in Seq(Frame \cup Snapshot)
  BY <1>1, ConcatProperties DEF Path
<1>4. QED
  BY <1>2, <1>3, AppendProperties

\* What is read from the socket was first.
LEMMA PathTail ==
  ASSUME StreamTypeOK, wire # <<>>, wire' = Tail(wire), queue' = queue
  PROVE  /\ Len(Path) > 0 /\ Len(Path)' = Len(Path) - 1 /\ Path[1] = Head(wire)
         /\ \A i \in 1..(Len(Path) - 1) : Path'[i] = Path[i + 1]
<1>1. /\ Len(wire) > 0 /\ Len(wire') = Len(wire) - 1 /\ Head(wire) = wire[1]
      /\ wire' \in Seq(Frame \cup Snapshot)
      /\ \A i \in 1..Len(wire') : wire'[i] = wire[i + 1]
  BY HeadTailProperties, EmptySeq, LenProperties DEF StreamTypeOK
<1>2. queue' \in Seq(Frame \cup Snapshot)
  BY SeqMonotonic DEF StreamTypeOK
<1>3. /\ Len(Path') = Len(wire') + Len(queue')
      /\ \A i \in 1..(Len(wire') + Len(queue')) :
           Path'[i] = IF i <= Len(wire') THEN wire'[i] ELSE queue'[i - Len(wire')]
  BY <1>1, <1>2, ConcatProperties DEF Path
<1>4. Len(wire) \in Nat /\ Len(queue) \in Nat
  BY WireFields
<1>5. ASSUME NEW i \in 1..(Len(Path) - 1) PROVE Path'[i] = Path[i + 1]
  <2>1. i \in 1..(Len(wire') + Len(queue')) /\ i + 1 \in 1..Len(Path)
    BY <1>1, <1>4, PathFields
  <2>2. CASE i <= Len(wire')
    <3>1. i \in 1..Len(wire') /\ i + 1 \in 1..Len(wire)
      BY <1>1, <1>4, <2>1, <2>2
    <3>2. QED
      BY <1>1, <1>3, <2>1, <2>2, <3>1, PathFields
  <2>3. CASE ~ (i <= Len(wire'))
    <3>1. /\ Path'[i] = queue[i - Len(wire')] /\ i - Len(wire') = i + 1 - Len(wire)
          /\ ~ (i + 1 \in 1..Len(wire))
      <4>1. Path'[i] = queue'[i - Len(wire')]
        BY <1>3, <2>1, <2>3
      <4>2. i \in Nat /\ Len(wire') = Len(wire) - 1
        BY <1>1, <1>4, <2>1
      <4>3. QED
        BY <1>4, <2>3, <4>1, <4>2
    <3>2. Path[i + 1] = queue[i + 1 - Len(wire)]
      BY <2>1, <3>1, PathFields
    <3>3. QED
      BY <3>1, <3>2
  <2>4. QED
    BY <2>2, <2>3
<1>6. Len(Path) > 0 /\ Len(Path)' = Len(Path) - 1 /\ Path[1] = Head(wire)
  BY <1>1, <1>3, <1>4, PathFields
<1>7. QED
  BY <1>5, <1>6

\* Pumping a frame from the queue to the socket moves nothing for the participant.
LEMMA PumpKeeps ==
  ASSUME StreamTypeOK, Pump
  PROVE  Path' = Path /\ Base' = Base /\ Text' = Text /\ (Welcoming' <=> Welcoming)
         /\ (Welcoming => wire'[1] = wire[1])
<1>1. /\ queue # <<>> /\ queue' = Tail(queue) /\ wire' = Append(wire, Head(queue))
      /\ UNCHANGED <<last, shown>>
  BY DEF Pump, viewVars
<1>2. /\ wire \in Seq(Frame \cup Snapshot) /\ queue \in Seq(Frame \cup Snapshot)
      /\ Head(queue) \in Frame /\ Head(queue) \in Frame \cup Snapshot
      /\ Tail(queue) \in Seq(Frame \cup Snapshot)
      /\ <<Head(queue)>> \in Seq(Frame \cup Snapshot)
  BY <1>1, SeqMonotonic, HeadTailProperties DEF StreamTypeOK
<1>3. <<Head(queue)>> \o Tail(queue) = queue
  <2>1. Len(queue) \in 1..Len(queue) /\ 1 \in 1..Len(queue)
    BY <1>1, EmptySeq, WireFields DEF StreamTypeOK
  <2>2. SubSeq(queue, 1, Len(queue)) = <<queue[1]>> \o SubSeq(queue, 2, Len(queue))
    BY <1>2, <2>1, SubSeqRecursiveFirst
  <2>3. QED
    BY <1>1, <1>2, <2>1, <2>2, SubSeqFull, TailIsSubSeq, HeadTailProperties
<1>4. Path' = Path
  <2>1. Append(wire, Head(queue)) = wire \o <<Head(queue)>>
    BY <1>2, AppendIsConcat
  <2>2. (wire \o <<Head(queue)>>) \o Tail(queue) = wire \o (<<Head(queue)>> \o Tail(queue))
    BY <1>2, ConcatAssociative
  <2>3. QED
    BY <1>1, <1>3, <2>1, <2>2 DEF Path
<1>5. CASE wire = <<>>
  <2>1. wire'[1] = Head(queue)
    BY <1>1, <1>5
  <2>2. ~ Welcoming /\ ~ Welcoming'
    BY <1>2, <1>5, <2>1, FrameFields DEF Welcoming
  <2>3. QED
    BY <1>1, <1>4, <2>2 DEF Base, Text
<1>6. CASE wire # <<>>
  <2>1. Len(wire) \in Nat /\ Len(wire) > 0
    BY <1>6, EmptySeq, WireFields DEF StreamTypeOK
  <2>2. wire'[1] = wire[1] /\ Len(wire') = Len(wire) + 1
    BY <1>1, <1>2, <2>1, AppendProperties
  <2>3. wire' # <<>>
    BY <2>1, <2>2
  <2>4. Welcoming' <=> Welcoming
    BY <1>6, <2>2, <2>3 DEF Welcoming
  <2>5. QED
    BY <1>1, <1>4, <2>2, <2>4 DEF Base, Text
<1>7. QED
  BY <1>5, <1>6

\* With the broadcast in memory nothing waits in Redis, and a connection that is gone
\* leaves nothing behind.
MemoryPlaces == ~ redis => PlacesInv

LEMMA PlacesStep ==
  StreamTypeOK /\ MemoryPlaces /\ [StreamNext]_streamVars => MemoryPlaces'
<1> SUFFICES ASSUME StreamTypeOK, MemoryPlaces, [StreamNext]_streamVars, ~ redis'
             PROVE  PlacesInv'
  BY DEF MemoryPlaces
<1> USE DEF relayVars, connVars, viewVars
<1>1. redis' = redis /\ PlacesInv
  <2>1. redis' = redis
    BY DEF StreamNext, streamVars, Record, Produce, Purge, Deliver, Listen, Restart, Cut,
           Connect, Welcome, Pump, Receive
  <2>2. QED
    BY <2>1 DEF MemoryPlaces
<1>2. ASSUME NEW frame, Publish(frame), UNCHANGED <<conn, wire, listening>> PROVE PlacesInv'
  <2>1. flight' = flight /\ Offer(frame)
    BY <1>1, <1>2, PublishResult
  <2>2. conn = "off" => queue' = queue
    BY <2>1, OfferResult
  <2>3. QED
    BY <1>1, <1>2, <2>1, <2>2 DEF PlacesInv
<1>3. ASSUME NEW kind \in Kind, Record(kind) PROVE PlacesInv'
  BY <1>2, <1>3 DEF Record
<1>4. ASSUME Produce PROVE PlacesInv'
  BY <1>2, <1>4 DEF Produce
<1>5. ASSUME Deliver PROVE PlacesInv'
  BY <1>1, <1>5 DEF Deliver, PlacesInv
<1>6. ASSUME Gone, flight' \subseteq flight PROVE PlacesInv'
  BY <1>1, <1>6 DEF Gone, PlacesInv
<1>7. ASSUME Receive PROVE PlacesInv'
  <2>1. wire # <<>> /\ UNCHANGED <<conn, queue, flight, listening>>
    BY <1>7 DEF Receive
  <2>2. conn = "live"
    BY <1>1, <2>1 DEF PlacesInv
  <2>3. QED
    BY <1>1, <2>1, <2>2 DEF PlacesInv
<1>8. ASSUME Connect PROVE PlacesInv'
  BY <1>1, <1>8 DEF Connect, PlacesInv
<1>9. ASSUME Purge \/ Listen \/ Welcome \/ Pump \/ UNCHANGED streamVars PROVE PlacesInv'
  BY <1>1, <1>9 DEF Purge, Listen, Welcome, Pump, streamVars, PlacesInv
<1>10. QED
  BY <1>3, <1>4, <1>5, <1>6, <1>7, <1>8, <1>9 DEF StreamNext, Restart, Cut

LEMMA PlacesHold == StreamSpec => []MemoryPlaces
<1>1. StreamInit => MemoryPlaces
  BY DEF StreamInit, MemoryPlaces, PlacesInv
<1>2. QED
  BY <1>1, StreamTypeCorrect, PlacesStep, PTL DEF StreamSpec

\* What is published in memory is queued behind everything, or the subscriber is dropped.
LEMMA PublishInMemory ==
  ASSUME StreamTypeOK, ~ redis, NEW frame \in Frame, Publish(frame),
         UNCHANGED <<conn, wire>>, conn' = "live", ~ dropped'
  PROVE  /\ conn = "live" /\ ~ dropped
         /\ Len(Path)' = Len(Path) + 1 /\ Path'[Len(Path) + 1] = frame
         /\ \A i \in 1..Len(Path) : Path'[i] = Path[i]
<1>1. Offer(frame)
  BY PublishResult
<1>2. conn = "live" /\ ~ dropped /\ queue' = Append(queue, frame)
  BY <1>1, OfferResult
<1>3. QED
  BY <1>2, PathAppend

\* The snapshot is what the participant starts from.
LEMMA WelcomePath ==
  ASSUME StreamTypeOK, OrderInv, PlacesInv, Welcome
  PROVE  /\ Welcoming' /\ Base' = seq /\ Text' = partial
         /\ wire'[1].events = Replay(last) /\ wire'[1].truncated = Truncated(last)
         /\ wire'[1].last = seq
         /\ \A i \in 1..Len(Path') : Path'[i].kind \in Kind => Path'[i].seq <= seq
<1> DEFINE snapshot == [kind |-> "snapshot", events |-> Replay(last), partial |-> partial,
                        last |-> seq, truncated |-> Truncated(last)]
<1>1. wire' = <<snapshot>> /\ queue' = queue
  BY DEF Welcome
<1>2. wire'[1] = snapshot /\ wire' # <<>> /\ Len(wire') = 1
  BY <1>1
<1>3. Welcoming'
  BY <1>2 DEF Welcoming
<1>4. Base' = seq /\ Text' = partial
  BY <1>2, <1>3 DEF Base, Text
<1>5. StreamTypeOK'
  BY TypeStep DEF StreamNext
<1>6. ASSUME NEW i \in 1..Len(Path'), Path'[i].kind \in Kind PROVE Path'[i].seq <= seq
  <2>1. \/ i = 1 /\ Path'[i] = snapshot
        \/ i - 1 \in 1..Len(queue) /\ Path'[i] = queue[i - 1]
    <3>1. wire' \in Seq(Frame \cup Snapshot) /\ queue \in Seq(Frame \cup Snapshot)
      BY <1>5, SeqMonotonic DEF StreamTypeOK
    <3>2. /\ Len(Path') = 1 + Len(queue)
          /\ \A k \in 1..(1 + Len(queue)) : Path'[k] = IF k <= 1 THEN wire'[k] ELSE queue[k - 1]
      BY <1>1, <1>2, <3>1, ConcatProperties DEF Path
    <3>3. QED
      BY <1>2, <3>2, WireFields
  <2>2. snapshot.kind \notin Kind
    BY DEF Kind
  <2>3. QED
    BY <1>6, <2>1, <2>2 DEF OrderInv, Fresh
<1>7. QED
  BY <1>2, <1>3, <1>4, <1>6

-----------------------------------------------------------------------------
(* The text of the running turn. *)

MemoryText == ~ redis => TextInv

\* A delta that is on its way, or shown, stays so behind a frame that ends no message.
LEMMA TextBehind ==
  ASSUME StreamTypeOK, ~ redis, TextInv, NEW frame \in Frame, Publish(frame),
         UNCHANGED <<conn, wire, last, shown>>, frame.kind # "message",
         conn' = "live", ~ dropped', NEW d \in ToSet(partial)
  PROVE  Coming(Path, d)' \/ (d \in ToSet(Text)' /\ EndsAreOld(Path, Base)')
<1>1. /\ conn = "live" /\ ~ dropped
      /\ Len(Path)' = Len(Path) + 1 /\ Path'[Len(Path) + 1] = frame
      /\ \A i \in 1..Len(Path) : Path'[i] = Path[i]
  BY PublishInMemory
<1>2. Base' = Base /\ Text' = Text /\ Len(Path) \in Nat
  BY PathFields DEF Base, Text, Welcoming
<1>3. \A i \in 1..Len(Path') : i \in 1..Len(Path) \/ Path'[i] = frame
  BY <1>1, <1>2
<1>4. CASE Coming(Path, d)
  <2>1. PICK i \in 1..Len(Path) :
          /\ Path[i].kind = "delta" /\ Path[i].rank = d
          /\ \A j \in (i + 1)..Len(Path) : Path[j].kind # "message"
    BY <1>4 DEF Coming
  <2>2. \A j \in (i + 1)..Len(Path') : Path'[j].kind # "message"
    BY <1>1, <1>2, <1>3, <2>1
  <2>3. i \in 1..Len(Path')
    BY <1>1, <1>2, <2>1
  <2>4. QED
    BY <1>1, <2>1, <2>2, <2>3 DEF Coming
<1>5. CASE d \in ToSet(Text) /\ EndsAreOld(Path, Base)
  BY <1>1, <1>2, <1>3, <1>5 DEF EndsAreOld
<1>6. QED
  BY <1>1, <1>4, <1>5 DEF TextInv

LEMMA TextReceived ==
  ASSUME StreamTypeOK, FirstInv, TextInv, Receive, conn = "live", ~ dropped,
         NEW d \in ToSet(partial)
  PROVE  Coming(Path, d)' \/ (d \in ToSet(Text)' /\ EndsAreOld(Path, Base)')
<1> DEFINE frame == Head(wire)
<1>1. wire # <<>> /\ wire' = Tail(wire) /\ queue' = queue
  BY DEF Receive
<1>2. /\ Len(Path) > 0 /\ Len(Path)' = Len(Path) - 1 /\ Path[1] = frame
      /\ \A i \in 1..(Len(Path) - 1) : Path'[i] = Path[i + 1]
      /\ Len(Path) \in Nat
  BY <1>1, PathTail, PathFields
<1>3. /\ frame = wire[1] /\ frame \in Frame \cup Snapshot /\ ~ Welcoming'
  BY <1>1, WireTail
<1>4. Base' = last' /\ Text' = shown'
  BY <1>3 DEF Base, Text
<1>5. Welcoming <=> frame.kind = "snapshot"
  BY <1>1, <1>3 DEF Welcoming
<1>6. ASSUME Coming(Path, d), frame.kind # "delta" PROVE Coming(Path, d)'
  <2>1. PICK i \in 1..Len(Path) :
          /\ Path[i].kind = "delta" /\ Path[i].rank = d
          /\ \A j \in (i + 1)..Len(Path) : Path[j].kind # "message"
    BY <1>6 DEF Coming
  <2>2. i - 1 \in 1..Len(Path') /\ Path'[i - 1] = Path[i]
    BY <1>2, <1>6, <2>1
  <2>3. \A j \in i..Len(Path') : Path'[j].kind # "message"
    BY <1>2, <2>1
  <2>4. QED
    BY <2>1, <2>2, <2>3 DEF Coming
<1>7. ASSUME NEW i \in 1..Len(Path'), Path'[i].kind = "message",
             \A j \in 2..Len(Path) : Path[j].kind = "message" => Path[j].seq <= last'
      PROVE  Path'[i].seq <= last'
  <2>1. i + 1 \in 2..Len(Path) /\ Path'[i] = Path[i + 1]
    BY <1>2
  <2>2. QED
    BY <1>7, <2>1
<1>8. CASE frame.kind = "snapshot" /\ ApplySnapshot(frame)
  <2>1. CASE d \in ToSet(wire[1].partial) /\ EndsAreOld(Path, Base)
    <3>1. wire[1].partial # <<>>
      BY <2>1 DEF ToSet
    <3>2. shown' = wire[1].partial /\ last' = wire[1].last /\ Base = wire[1].last
      BY <1>3, <1>5, <1>8, <3>1 DEF ApplySnapshot, Base
    <3>3. EndsAreOld(Path, Base)'
      BY <1>2, <1>4, <1>7, <2>1, <3>2 DEF EndsAreOld
    <3>4. QED
      BY <1>4, <2>1, <3>2, <3>3
  <2>2. Text = wire[1].partial
    BY <1>5, <1>8 DEF Text
  <2>3. QED
    BY <1>6, <1>8, <2>1, <2>2 DEF TextInv
<1>9. CASE frame.kind = "delta" /\ ApplyDelta(frame)
  <2>1. /\ ~ Welcoming /\ Base = last /\ Text = shown /\ last' = last
        /\ shown' = Append(shown, frame.rank) /\ frame.rank \in Delta
    BY <1>3, <1>5, <1>9, FrameFields DEF ApplyDelta, Base, Text
  <2>2. ToSet(shown') = ToSet(shown) \cup {frame.rank}
    BY <2>1, ElementsAppend DEF StreamTypeOK
  <2>3. CASE Coming(Path, d)
    <3>1. PICK i \in 1..Len(Path) :
            /\ Path[i].kind = "delta" /\ Path[i].rank = d
            /\ \A j \in (i + 1)..Len(Path) : Path[j].kind # "message"
      BY <2>3 DEF Coming
    <3>2. CASE i = 1
      <4>1. d \in ToSet(shown')
        BY <1>2, <2>2, <3>1, <3>2
      <4>2. EndsAreOld(Path, Base)'
        BY <1>2, <1>4, <1>7, <3>1, <3>2 DEF EndsAreOld
      <4>3. QED
        BY <1>4, <4>1, <4>2
    <3>3. CASE i # 1
      <4>1. i - 1 \in 1..Len(Path') /\ Path'[i - 1] = Path[i]
        BY <1>2, <3>1, <3>3
      <4>2. \A j \in i..Len(Path') : Path'[j].kind # "message"
        BY <1>2, <3>1
      <4>3. QED
        BY <3>1, <4>1, <4>2 DEF Coming
    <3>4. QED
      BY <3>2, <3>3
  <2>4. CASE d \in ToSet(shown) /\ EndsAreOld(Path, last)
    <3>1. EndsAreOld(Path, Base)'
      BY <1>2, <1>4, <1>7, <2>1, <2>4 DEF EndsAreOld
    <3>2. QED
      BY <1>4, <2>2, <2>4, <3>1
  <2>5. QED
    BY <2>1, <2>3, <2>4 DEF TextInv
<1>10. CASE frame.kind \in Kind /\ ApplyEvent(frame)
  <2>1. ~ Welcoming /\ frame.kind # "delta" /\ Base = last /\ Text = shown
    BY <1>5, <1>10 DEF Kind, Base, Text
  <2>2. CASE d \in ToSet(shown) /\ EndsAreOld(Path, last)
    <3>1. frame.seq \in Nat /\ last \in Nat
      BY <1>3, <1>10, FrameFields, WireFields, Sizes
    <3>2. shown' = shown /\ last' \in Nat /\ last' >= last
      <4>1. CASE frame.seq <= last
        BY <1>10, <3>1, <4>1 DEF ApplyEvent, viewVars
      <4>2. CASE ~ (frame.seq <= last)
        <5>1. frame.kind # "message"
          BY <1>2, <2>2, <4>2 DEF EndsAreOld
        <5>2. QED
          BY <1>10, <3>1, <4>2, <5>1 DEF ApplyEvent
      <4>3. QED
        BY <4>1, <4>2
    <3>3. ASSUME NEW j \in 2..Len(Path), Path[j].kind = "message" PROVE Path[j].seq <= last'
      <4>1. Path[j].seq \in 1..MaxEvents /\ Path[j].seq <= last
        BY <1>2, <2>2, <3>3, PathFields, FrameFields DEF EndsAreOld, Kind
      <4>2. QED
        BY <3>1, <3>2, <4>1, Sizes
    <3>4. EndsAreOld(Path, Base)'
      BY <1>4, <1>7, <3>3 DEF EndsAreOld
    <3>5. QED
      BY <1>4, <2>2, <3>2, <3>4
  <2>3. QED
    BY <1>6, <2>1, <2>2 DEF TextInv
<1>11. QED
  BY <1>8, <1>9, <1>10 DEF Receive

LEMMA TextStep ==
  /\ StreamTypeOK /\ JournalInv /\ OrderInv /\ MemoryPlaces /\ MemoryText
  /\ [StreamNext]_streamVars
  => MemoryText'
<1> SUFFICES ASSUME StreamTypeOK, JournalInv, OrderInv, MemoryPlaces, MemoryText,
                    [StreamNext]_streamVars, ~ redis', conn' = "live", ~ dropped',
                    NEW d \in ToSet(partial)'
             PROVE  Coming(Path, d)' \/ (d \in ToSet(Text)' /\ EndsAreOld(Path, Base)')
  BY DEF MemoryText, TextInv
<1> USE DEF relayVars, connVars, viewVars
<1>1. /\ ~ redis /\ redis' = redis /\ PlacesInv /\ TextInv
  <2>1. redis' = redis
    BY DEF StreamNext, streamVars, Record, Produce, Purge, Deliver, Listen, Restart, Cut,
           Connect, Welcome, Pump, Receive
  <2>2. QED
    BY <2>1 DEF MemoryPlaces, MemoryText
<1> DEFINE Kept == Coming(Path, d)' \/ (d \in ToSet(Text)' /\ EndsAreOld(Path, Base)')
<1>2. ASSUME NEW kind \in Kind, Record(kind) PROVE Kept
  <2> DEFINE frame == [kind |-> kind, seq |-> seq']
  <2>1. /\ Publish(frame) /\ UNCHANGED <<conn, wire, last, shown>>
        /\ partial' = IF kind = "other" THEN partial ELSE <<>>
    BY <1>2 DEF Record
  <2>2. kind = "other" /\ d \in ToSet(partial)
    <3>1. partial' # <<>>
      BY DEF ToSet
    <3>2. QED
      BY <2>1, <3>1
  <2>3. frame \in Frame
    BY <1>2, Sizes DEF Record, Frame, StreamTypeOK
  <2>4. QED
    BY <1>1, <2>1, <2>2, <2>3, TextBehind
<1>3. ASSUME Produce PROVE Kept
  <2> DEFINE frame == [kind |-> "delta", rank |-> produced']
  <2>1. /\ Publish(frame) /\ UNCHANGED <<conn, wire, last, shown>>
        /\ partial' = Append(partial, produced') /\ produced' \in Delta
    BY <1>3, Sizes DEF Produce, StreamTypeOK, Delta
  <2>2. frame \in Frame
    BY <2>1 DEF Frame
  <2>3. CASE d \in ToSet(partial)
    BY <1>1, <2>1, <2>2, <2>3, TextBehind
  <2>4. CASE d = produced'
    <3>1. /\ Len(Path)' = Len(Path) + 1 /\ Path'[Len(Path) + 1] = frame
          /\ Len(Path) \in Nat
      BY <1>1, <2>1, <2>2, PublishInMemory, PathFields
    <3>2. /\ Len(Path) + 1 \in 1..Len(Path') /\ (Len(Path) + 1 + 1)..Len(Path') = {}
      BY <3>1
    <3>3. QED
      BY <2>4, <3>1, <3>2 DEF Coming
  <2>5. QED
    BY <2>1, <2>3, <2>4, ElementsAppend DEF StreamTypeOK
<1>4. ASSUME Deliver PROVE FALSE
  BY <1>1, <1>4 DEF Deliver, PlacesInv
<1>5. ASSUME Welcome PROVE Kept
  <2>1. /\ Base' = seq /\ Text' = partial
        /\ \A i \in 1..Len(Path') : Path'[i].kind \in Kind => Path'[i].seq <= seq
    BY <1>1, <1>5, WelcomePath
  <2>2. d \in ToSet(Text)'
    BY <1>5, <2>1 DEF Welcome
  <2>3. EndsAreOld(Path, Base)'
    BY <2>1 DEF EndsAreOld, Kind
  <2>4. QED
    BY <2>2, <2>3
<1>6. ASSUME Pump PROVE Kept
  <2>1. Path' = Path /\ Base' = Base /\ Text' = Text
    BY <1>6, PumpKeeps
  <2>2. conn = "live" /\ ~ dropped /\ d \in ToSet(partial)
    BY <1>6 DEF Pump
  <2>3. QED
    BY <1>1, <2>1, <2>2 DEF TextInv
<1>7. ASSUME Receive PROVE Kept
  <2>1. conn = "live" /\ ~ dropped /\ d \in ToSet(partial)
    BY <1>7 DEF Receive
  <2>2. QED
    BY <1>1, <1>7, <2>1, TextReceived DEF OrderInv
<1>8. CASE UNCHANGED <<partial, conn, dropped, wire, queue, last, shown>>
  BY <1>1, <1>8 DEF TextInv, Path, Base, Text, Welcoming
<1>9. QED
  BY <1>2, <1>3, <1>4, <1>5, <1>6, <1>7, <1>8
  DEF StreamNext, streamVars, Purge, Listen, Restart, Cut, Connect, Gone

\* No text is lost: once all has arrived, the view shows every delta of the running turn,
\* with the broadcast in memory, whatever the client missed before (core/eventlog.py:14-17).
THEOREM TextIsShown == StreamSpec => []NoTextLost
<1>1. StreamInit => MemoryText
  BY DEF StreamInit, MemoryText, TextInv
<1>2. MemoryText /\ StreamTypeOK => NoTextLost
  <2> SUFFICES ASSUME MemoryText, StreamTypeOK, Settled, ~ redis, NEW d \in ToSet(partial)
               PROVE  d \in ToSet(shown)
    BY DEF NoTextLost
  <2>1. wire = <<>> /\ queue = <<>> /\ conn = "live" /\ ~ dropped
    BY DEF Settled
  <2>2. Len(Path) = 0
    BY <2>1, PathFields
  <2>3. ~ Coming(Path, d) /\ Text = shown
    BY <2>1, <2>2 DEF Coming, Text, Welcoming
  <2>4. QED
    BY <2>1, <2>3 DEF MemoryText, TextInv
<1>3. QED
  BY <1>1, <1>2, StreamTypeCorrect, ShownInOrder, PlacesHold, TextStep, PTL DEF StreamSpec

-----------------------------------------------------------------------------
(* No event is missing unknown to the client. *)

\* The retention keeps everything, or more than a snapshot replays.
LongRetention == Retention = 0 \/ Retention > ReplayLimit

LEMMA PurgeStep ==
  ASSUME LongRetention
  PROVE  StreamTypeOK /\ JournalInv /\ PurgeInv /\ [StreamNext]_streamVars => PurgeInv'
<1> SUFFICES ASSUME StreamTypeOK, JournalInv, PurgeInv, [StreamNext]_streamVars PROVE PurgeInv'
  OBVIOUS
<1>1. Len(rows) \in Nat /\ seq \in Nat
  BY LenProperties, Sizes DEF StreamTypeOK
<1>2. ASSUME NEW kind \in Kind, Record(kind) PROVE PurgeInv'
  <2>1. seq' = seq + 1 /\ [seq |-> seq', kind |-> kind] \in Row
    BY <1>1, <1>2, Sizes DEF Record, Row, StreamTypeOK
  <2>2. Len(rows') = Len(rows) + 1
    BY <1>2, <2>1, AppendProperties DEF Record, StreamTypeOK
  <2>3. QED
    BY <1>1, <2>1, <2>2, Sizes DEF PurgeInv
<1>3. ASSUME Purge PROVE PurgeInv'
  BY <1>3, PurgeRows, Sizes DEF PurgeInv, LongRetention
<1>4. ASSUME Restart PROVE PurgeInv'
  BY <1>4, RestartKeepsNumber DEF Restart, PurgeInv
<1>5. CASE UNCHANGED <<rows, seq>>
  BY <1>5 DEF PurgeInv
<1>6. QED
  BY <1>2, <1>3, <1>4, <1>5
  DEF StreamNext, streamVars, relayVars, Produce, Deliver, Listen, Cut, Connect,
      Welcome, Pump, Receive

MemoryComplete == ~ redis => CompleteInv

\* A replay that leaves nothing out has every event after the number asked for.
LEMMA ReplayComplete ==
  ASSUME StreamTypeOK, JournalInv, PurgeInv, last <= seq, ~ Truncated(last),
         NEW n \in (last + 1)..seq
  PROVE  \E i \in 1..Len(Replay(last)) : Replay(last)[i].seq = n
<1>1. /\ Len(rows) \in Nat /\ seq \in Nat /\ last \in 0..seq /\ Len(rows) <= seq
      /\ Total(last) <= ReplayLimit
  <2>1. Total(last) \in 0..Len(rows) /\ Len(rows) \in Nat
    BY TotalType, LenProperties DEF StreamTypeOK
  <2>2. QED
    BY <2>1, WireFields, Sizes DEF Truncated, JournalInv
<1>2. Total(last) = seq - last
  <2>1. Total(last) = IF last < seq - Len(rows) THEN Len(rows) ELSE seq - last
    BY <1>1, ReplayNumbers
  <2>2. ~ (last < seq - Len(rows))
    BY <1>1, <2>1, Sizes DEF PurgeInv
  <2>3. QED
    BY <2>1, <2>2
<1>3. /\ Len(Replay(last)) = seq - last
      /\ \A i \in 1..Len(Replay(last)) : Replay(last)[i].seq = seq - Len(Replay(last)) + i
  BY <1>1, <1>2, ReplayNumbers
<1>4. n - last \in 1..Len(Replay(last)) /\ Replay(last)[n - last].seq = n
  BY <1>1, <1>3
<1>5. QED
  BY <1>4

\* What is published comes right after all that the participant has or will have.
LEMMA CompleteBehind ==
  ASSUME StreamTypeOK, OrderInv, ~ redis, PlacesInv, CompleteInv,
         NEW frame \in Frame, Publish(frame),
         UNCHANGED <<conn, wire, last, seen, told>>,
         \/ frame.kind \notin Kind /\ seq' = seq
         \/ frame.kind \in Kind /\ frame.seq = seq + 1 /\ seq' = seq + 1
  PROVE  CompleteInv'
<1>1. Base' = Base /\ Len(Path) \in Nat /\ (Welcoming' <=> Welcoming) /\ seq \in Nat
  BY PathFields, WireFields DEF Base, Welcoming
<1>2. (\A n \in 1..last : Accounted(n))' /\ SnapshotCovers'
  BY DEF CompleteInv, Accounted, SnapshotCovers, Welcoming
<1>3. Offer(frame)
  BY PublishResult
<1>4. ASSUME conn = "live", queue' = Append(queue, frame), ~ dropped
      PROVE  Gapless(Path, Base)' /\ (seq <= Base \/ HasEvent(Path, seq))'
  <2>1. /\ Len(Path)' = Len(Path) + 1 /\ Path'[Len(Path) + 1] = frame
        /\ \A i \in 1..Len(Path) : Path'[i] = Path[i]
    BY <1>4, PathAppend
  <2>2. \A i \in 1..Len(Path') : i \in 1..Len(Path) \/ i = Len(Path) + 1
    BY <1>1, <2>1
  <2>3. Base \in Nat
    BY WireFields, WelcomingFields DEF Base
  <2>4. ASSUME NEW i \in 1..Len(Path'), Path'[i].kind \in Kind, Path'[i].seq > Base + 1
        PROVE  \E j \in 1..(i - 1) : Path'[j].kind \in Kind /\ Path'[j].seq = Path'[i].seq - 1
    <3>1. CASE i \in 1..Len(Path)
      <4>1. PICK j \in 1..(i - 1) : Path[j].kind \in Kind /\ Path[j].seq = Path[i].seq - 1
        BY <1>4, <2>1, <2>4, <3>1 DEF CompleteInv, Gapless
      <4>2. j \in 1..Len(Path)
        BY <1>1, <3>1
      <4>3. QED
        BY <2>1, <3>1, <4>1, <4>2
    <3>2. CASE i = Len(Path) + 1
      <4>1. frame.kind \in Kind /\ frame.seq = seq + 1 /\ ~ (seq <= Base)
        BY <1>1, <2>1, <2>3, <2>4, <3>2
      <4>2. PICK j \in 1..Len(Path) : Path[j].kind \in Kind /\ Path[j].seq = seq
        BY <1>4, <4>1 DEF CompleteInv, HasEvent
      <4>3. j \in 1..(i - 1) /\ Path'[j] = Path[j] /\ Path'[i].seq - 1 = seq
        BY <1>1, <2>1, <3>2, <4>1
      <4>4. QED
        BY <4>2, <4>3
    <3>3. QED
      BY <2>2, <3>1, <3>2
  <2>5. Gapless(Path, Base)'
    BY <1>1, <2>4 DEF Gapless
  <2>6. (seq <= Base \/ HasEvent(Path, seq))'
    <3>1. CASE frame.kind \in Kind /\ frame.seq = seq + 1 /\ seq' = seq + 1
      <4>1. Len(Path) + 1 \in 1..Len(Path')
        BY <1>1, <2>1
      <4>2. QED
        BY <2>1, <3>1, <4>1 DEF HasEvent
    <3>2. CASE frame.kind \notin Kind /\ seq' = seq
      <4>1. CASE seq <= Base
        BY <1>1, <3>2, <4>1
      <4>2. CASE HasEvent(Path, seq)
        <5>1. PICK j \in 1..Len(Path) : Path[j].kind \in Kind /\ Path[j].seq = seq
          BY <4>2 DEF HasEvent
        <5>2. j \in 1..Len(Path') /\ Path'[j] = Path[j]
          BY <1>1, <2>1
        <5>3. QED
          BY <3>2, <5>1, <5>2 DEF HasEvent
      <4>3. QED
        BY <1>4, <4>1, <4>2 DEF CompleteInv
    <3>3. QED
      BY <3>1, <3>2
  <2>7. QED
    BY <2>5, <2>6
<1>5. ASSUME conn = "live", queue' = queue, dropped' PROVE Gapless(Path, Base)'
  BY <1>1, <1>5 DEF CompleteInv, Gapless, Path
<1>6. QED
  BY <1>2, <1>3, <1>4, <1>5, OfferResult DEF CompleteInv

LEMMA CompleteReceived ==
  ASSUME StreamTypeOK, OrderInv, PlacesInv, CompleteInv, Receive
  PROVE  CompleteInv'
<1> DEFINE frame == Head(wire)
<1>1. /\ wire # <<>> /\ wire' = Tail(wire)
      /\ UNCHANGED <<seq, queue, conn, dropped>> /\ conn = "live"
  BY DEF Receive, PlacesInv, relayVars
<1>2. /\ Len(Path) > 0 /\ Len(Path)' = Len(Path) - 1 /\ Path[1] = frame
      /\ \A i \in 1..(Len(Path) - 1) : Path'[i] = Path[i + 1]
      /\ Len(Path) \in Nat
  BY <1>1, PathTail, PathFields
<1>3. /\ frame = wire[1] /\ frame \in Frame \cup Snapshot /\ ~ Welcoming'
  BY <1>1, WireTail DEF OrderInv
<1>4. Base' = last' /\ SnapshotCovers'
  BY <1>3 DEF Base, SnapshotCovers
<1>5. Welcoming <=> frame.kind = "snapshot"
  BY <1>1, <1>3 DEF Welcoming
<1>6. last \in Nat /\ seq \in Nat /\ Base \in Nat
  BY WireFields, WelcomingFields DEF Base
<1>7. /\ last' \in Nat
      /\ Base <= last'
      /\ frame.kind \in Kind /\ frame.seq > Base => last' = frame.seq /\ frame.seq = Base + 1
      /\ ~ (frame.kind \in Kind /\ frame.seq > Base) => last' = Base
  <2>1. CASE frame.kind = "snapshot" /\ ApplySnapshot(frame)
    BY <1>3, <1>5, <1>6, <2>1 DEF ApplySnapshot, Base, Kind
  <2>2. CASE frame.kind = "delta" /\ ApplyDelta(frame)
    BY <1>5, <1>6, <2>2 DEF ApplyDelta, Base, Kind
  <2>3. CASE frame.kind \in Kind /\ ApplyEvent(frame)
    <3>1. frame.seq \in Nat /\ Base = last
      BY <1>3, <1>5, <2>3, FrameFields, Sizes DEF Base, Kind
    <3>2. CASE frame.seq <= last
      BY <1>6, <2>3, <3>1, <3>2 DEF ApplyEvent, viewVars
    <3>3. CASE ~ (frame.seq <= last)
      <4>1. last' = frame.seq
        BY <2>3, <3>3 DEF ApplyEvent
      <4>2. ~ (frame.seq > Base + 1)
        <5>1. 1 \in 1..Len(Path) /\ 1..(1 - 1) = {}
          BY <1>2
        <5>2. QED
          BY <1>1, <1>2, <2>3, <5>1 DEF CompleteInv, Gapless
      <4>3. QED
        BY <1>6, <2>3, <3>1, <3>3, <4>1, <4>2
    <3>4. QED
      BY <3>2, <3>3
  <2>4. QED
    BY <2>1, <2>2, <2>3 DEF Receive
<1>8. \A n \in 1..last' : Accounted(n)'
  <2> SUFFICES ASSUME NEW n \in 1..last' PROVE n \in ToSet(seen') \cup told'
    BY DEF Accounted
  <2>1. CASE frame.kind = "snapshot" /\ ApplySnapshot(frame)
    <3> DEFINE events == wire[1].events
               numbers == [i \in DOMAIN events |-> events[i].seq]
               before == IF last = 0 THEN <<>> ELSE seen
    <3>1. Welcoming /\ last' = wire[1].last /\ seen' = before \o numbers
          /\ told' = IF wire[1].truncated
                       THEN told \cup ((last + 1)..wire[1].last \ ToSet(numbers))
                       ELSE told
      BY <1>3, <1>5, <2>1 DEF ApplySnapshot
    <3>2. /\ numbers \in Seq(1..MaxEvents) /\ Len(numbers) = Len(events)
          /\ Len(events) \in Nat
          /\ \A i \in 1..Len(events) : numbers[i] = events[i].seq
      BY <3>1, WelcomingFields, NumbersType, LenProperties
    <3>3. before \in Seq(1..MaxEvents)
      BY EmptySeq DEF StreamTypeOK
    <3>4. ToSet(seen') = ToSet(before) \cup ToSet(numbers)
      <4>1. PICK b, m : b = before /\ m = numbers
        OBVIOUS
      <4>2. b \in Seq(1..MaxEvents) /\ m \in Seq(1..MaxEvents) /\ seen' = b \o m
        BY <3>1, <3>2, <3>3, <4>1
      <4>3. PICK S : S = 1..MaxEvents
        OBVIOUS
      <4>4. ToSet(b \o m) = ToSet(b) \cup ToSet(m)
        BY <4>2, <4>3, ElementsConcat
      <4>5. QED
        BY <4>1, <4>2, <4>4
    <3>5. CASE n <= last
      <4>1. n \in 1..last /\ last # 0
        BY <1>6, <1>7, <3>5
      <4>2. before = seen /\ n \in ToSet(seen) \cup told
        BY <4>1 DEF CompleteInv, Accounted
      <4>3. QED
        BY <3>1, <3>4, <4>2
    <3>6. CASE n > last
      <4>1. n \in (last + 1)..wire[1].last
        BY <1>6, <1>7, <3>1, <3>6
      <4>2. CASE wire[1].truncated
        BY <3>1, <3>4, <4>1, <4>2
      <4>3. CASE ~ wire[1].truncated
        <5>1. PICK i \in 1..Len(events) : events[i].seq = n
          BY <3>1, <4>1, <4>3 DEF CompleteInv, SnapshotCovers
        <5>2. n \in ToSet(numbers)
          BY <3>2, <5>1, Elements
        <5>3. QED
          BY <3>4, <5>2
      <4>4. QED
        BY <4>2, <4>3
    <3>7. QED
      BY <1>6, <1>7, <3>5, <3>6
  <2>2. CASE frame.kind = "delta" /\ ApplyDelta(frame)
    BY <2>2 DEF ApplyDelta, CompleteInv, Accounted
  <2>3. CASE frame.kind \in Kind /\ ApplyEvent(frame)
    <3>1. frame.seq \in 1..MaxEvents /\ Base = last
      BY <1>3, <1>5, <2>3, FrameFields DEF Base, Kind
    <3>2. CASE frame.seq <= last
      BY <2>3, <3>2 DEF ApplyEvent, viewVars, CompleteInv, Accounted
    <3>3. CASE ~ (frame.seq <= last)
      <4>1. seen' = Append(seen, frame.seq) /\ told' = told
        BY <2>3, <3>3 DEF ApplyEvent
      <4>2. ToSet(seen') = ToSet(seen) \cup {frame.seq}
        <5>1. PICK numbers : numbers = 1..MaxEvents
          OBVIOUS
        <5>2. seen \in Seq(numbers) /\ frame.seq \in numbers
          BY <3>1, <5>1 DEF StreamTypeOK
        <5> HIDE DEF frame
        <5>3. ToSet(Append(seen, frame.seq)) = ToSet(seen) \cup {frame.seq}
          BY <5>2, ElementsAppend
        <5>4. QED
          BY <4>1, <5>3
      <4>3. n \in 1..last \/ n = frame.seq
        BY <1>6, <1>7, <2>3, <3>1, <3>3, Sizes
      <4>4. QED
        BY <4>1, <4>2, <4>3 DEF CompleteInv, Accounted
    <3>4. QED
      BY <3>2, <3>3
  <2>4. QED
    BY <2>1, <2>2, <2>3 DEF Receive
<1>9. Gapless(Path, Base)'
  <2>1. ASSUME NEW i \in 1..Len(Path'), Path'[i].kind \in Kind, Path'[i].seq > last' + 1
        PROVE  \E j \in 1..(i - 1) : Path'[j].kind \in Kind /\ Path'[j].seq = Path'[i].seq - 1
    <3>1. i + 1 \in 1..Len(Path) /\ Path'[i] = Path[i + 1] /\ Path[i + 1].seq \in Nat
      BY <1>2, <2>1, PathFresh
    <3>2. PICK j \in 1..i : Path[j].kind \in Kind /\ Path[j].seq = Path[i + 1].seq - 1
      <4>1. Path[i + 1].kind \in Kind /\ Path[i + 1].seq > Base + 1 /\ (i + 1) - 1 = i
        BY <1>6, <1>7, <2>1, <3>1
      <4>2. Gapless(Path, Base)
        BY <1>1 DEF CompleteInv
      <4>3. QED
        BY <3>1, <4>1, <4>2 DEF Gapless
    <3>3. j # 1
      BY <1>2, <1>6, <1>7, <2>1, <3>1, <3>2
    <3>4. j - 1 \in 1..(i - 1) /\ Path'[j - 1] = Path[j]
      BY <1>2, <3>1, <3>2, <3>3
    <3>5. QED
      BY <3>1, <3>2, <3>4
  <2>2. QED
    BY <1>4, <2>1 DEF Gapless
<1>10. ASSUME ~ dropped PROVE (seq <= Base \/ HasEvent(Path, seq))'
  <2>1. CASE seq <= Base
    BY <1>1, <1>4, <1>6, <1>7, <2>1
  <2>2. CASE HasEvent(Path, seq) /\ ~ (seq <= Base)
    <3>1. PICK j \in 1..Len(Path) : Path[j].kind \in Kind /\ Path[j].seq = seq
      BY <2>2 DEF HasEvent
    <3>2. CASE j = 1
      BY <1>1, <1>2, <1>4, <1>6, <1>7, <2>2, <3>1, <3>2
    <3>3. CASE j # 1
      <4>1. j - 1 \in 1..Len(Path') /\ Path'[j - 1] = Path[j]
        BY <1>2, <3>3
      <4>2. QED
        BY <1>1, <3>1, <4>1 DEF HasEvent
    <3>4. QED
      BY <3>2, <3>3
  <2>3. QED
    BY <1>1, <1>10, <2>1, <2>2 DEF CompleteInv
<1>11. QED
  BY <1>1, <1>4, <1>8, <1>9, <1>10 DEF CompleteInv

LEMMA CompleteStep ==
  /\ StreamTypeOK /\ JournalInv /\ PurgeInv /\ OrderInv /\ MemoryPlaces /\ MemoryComplete
  /\ [StreamNext]_streamVars
  => MemoryComplete'
<1> SUFFICES ASSUME StreamTypeOK, JournalInv, PurgeInv, OrderInv, MemoryPlaces,
                    MemoryComplete, [StreamNext]_streamVars, ~ redis'
             PROVE  CompleteInv'
  BY DEF MemoryComplete
<1> USE DEF relayVars, connVars, viewVars
<1>1. /\ ~ redis /\ redis' = redis /\ PlacesInv /\ CompleteInv
  <2>1. redis' = redis
    BY DEF StreamNext, streamVars, Record, Produce, Purge, Deliver, Listen, Restart, Cut,
           Connect, Welcome, Pump, Receive
  <2>2. QED
    BY <2>1 DEF MemoryPlaces, MemoryComplete
<1>2. ASSUME NEW kind \in Kind, Record(kind) PROVE CompleteInv'
  <2> DEFINE frame == [kind |-> kind, seq |-> seq']
  <2>1. /\ Publish(frame) /\ UNCHANGED <<conn, wire, last, seen, told>> /\ seq' = seq + 1
    BY <1>2 DEF Record
  <2>2. frame \in Frame /\ frame.kind \in Kind /\ frame.seq = seq + 1
    BY <1>2, <2>1, Sizes DEF Record, Frame, StreamTypeOK
  <2>3. QED
    BY <1>1, <2>1, <2>2, CompleteBehind
<1>3. ASSUME Produce PROVE CompleteInv'
  <2> DEFINE frame == [kind |-> "delta", rank |-> produced']
  <2>1. /\ Publish(frame) /\ UNCHANGED <<conn, wire, last, seen, told, seq>>
    BY <1>3 DEF Produce
  <2>2. frame \in Frame /\ frame.kind \notin Kind
    BY <1>3, Sizes DEF Produce, Frame, Kind, Delta, StreamTypeOK
  <2>3. QED
    BY <1>1, <2>1, <2>2, CompleteBehind
<1>4. ASSUME Deliver PROVE FALSE
  BY <1>1, <1>4 DEF Deliver, PlacesInv
<1>5. ASSUME Welcome PROVE CompleteInv'
  <2>1. /\ Welcoming' /\ Base' = seq
        /\ wire'[1].events = Replay(last) /\ wire'[1].truncated = Truncated(last)
        /\ wire'[1].last = seq
        /\ \A i \in 1..Len(Path') : Path'[i].kind \in Kind => Path'[i].seq <= seq
    BY <1>1, <1>5, WelcomePath
  <2>2. UNCHANGED <<seq, last, seen, told>> /\ seq \in Nat /\ last <= seq
    BY <1>5, WireFields DEF Welcome, OrderInv, ViewInv
  <2>3. SnapshotCovers'
    <3>1. ASSUME ~ Truncated(last), NEW n \in (last + 1)..seq
          PROVE  \E i \in 1..Len(Replay(last)) : Replay(last)[i].seq = n
      BY <2>2, <3>1, ReplayComplete
    <3>2. QED
      BY <2>1, <2>2, <3>1 DEF SnapshotCovers
  <2>4. ASSUME NEW i \in 1..Len(Path'), Path'[i].kind \in Kind PROVE ~ (Path'[i].seq > seq + 1)
    <3>1. StreamTypeOK' /\ OrderInv'
      BY <1>5, TypeStep, OrderStep DEF StreamNext
    <3>2. Path'[i] \in Frame \cup Snapshot
      <4>1. wire' \in Seq(Frame \cup Snapshot) /\ queue' \in Seq(Frame \cup Snapshot)
        BY <3>1, SeqMonotonic DEF StreamTypeOK
      <4>2. Path' \in Seq(Frame \cup Snapshot)
        BY <4>1, ConcatProperties DEF Path
      <4>3. QED
        BY <4>2, ElementOfSeq
    <3>3. Path'[i].seq \in 1..MaxEvents
      BY <2>4, <3>2, FrameFields
    <3>4. QED
      BY <2>1, <2>2, <2>4, <3>3, Sizes
  <2>5. Gapless(Path, Base)'
    BY <2>1, <2>4 DEF Gapless
  <2>6. QED
    BY <1>1, <2>1, <2>2, <2>3, <2>5 DEF CompleteInv, Accounted
<1>6. ASSUME Pump PROVE CompleteInv'
  <2>1. Path' = Path /\ Base' = Base /\ (Welcoming' <=> Welcoming)
        /\ (Welcoming => wire'[1] = wire[1])
    BY <1>6, PumpKeeps
  <2>2. UNCHANGED <<seq, conn, dropped, last, seen, told>>
    BY <1>6 DEF Pump
  <2>3. QED
    BY <1>1, <2>1, <2>2 DEF CompleteInv, Accounted, SnapshotCovers
<1>7. ASSUME Gone, UNCHANGED <<last, seen, told>> PROVE CompleteInv'
  <2>1. conn' = "off" /\ ~ Welcoming'
    BY <1>7 DEF Gone, Welcoming
  <2>2. QED
    BY <1>1, <1>7, <2>1 DEF CompleteInv, Accounted, SnapshotCovers
<1>8. ASSUME Connect PROVE CompleteInv'
  <2>1. UNCHANGED <<wire, last, seen, told>> /\ conn' = "subscribed"
    BY <1>8 DEF Connect
  <2>2. QED
    BY <1>1, <2>1 DEF CompleteInv, Accounted, SnapshotCovers, Welcoming
<1>9. CASE UNCHANGED <<seq, conn, dropped, wire, queue, last, seen, told>>
  BY <1>1, <1>9 DEF CompleteInv, Accounted, SnapshotCovers, Path, Base, Welcoming
<1>10. QED
  BY <1>1, <1>2, <1>3, <1>4, <1>5, <1>6, <1>7, <1>8, <1>9, CompleteReceived
  DEF StreamNext, streamVars, Purge, Listen, Restart, Cut

\* The conversation shown is the journal: in order, never ahead of it, and with the
\* broadcast in memory complete up to last_seq but for what a snapshot said was missing
\* (core/eventlog.py:50-56), when the retention is off or longer than a replay, as it is
\* configured (config.py:69, eventlog.py:35).
THEOREM JournalIsShown ==
  ASSUME LongRetention
  PROVE  StreamSpec => []ShowsTheJournal
<1>1. StreamInit => PurgeInv /\ MemoryComplete
  <2> SUFFICES ASSUME StreamInit PROVE PurgeInv /\ MemoryComplete
    OBVIOUS
  <2>1. Len(rows) = 0 /\ seq = 0 /\ last = 0 /\ wire = <<>> /\ conn = "off"
    BY DEF StreamInit
  <2>2. QED
    BY <2>1 DEF PurgeInv, MemoryComplete, CompleteInv, SnapshotCovers, Welcoming
<1>2. StreamTypeOK /\ OrderInv /\ MemoryComplete => ShowsTheJournal
  <2> SUFFICES ASSUME StreamTypeOK, OrderInv, MemoryComplete PROVE ShowsTheJournal
    OBVIOUS
  <2>1. DOMAIN seen = 1..Len(seen)
    BY LenProperties DEF StreamTypeOK
  <2>2. \A i, j \in DOMAIN seen : i < j => seen[i] < seen[j]
    BY <2>1 DEF OrderInv, ViewInv, Increasing
  <2>3. QED
    BY <2>2 DEF ShowsTheJournal, OrderInv, ViewInv, MemoryComplete, CompleteInv, Accounted
<1>3. QED
  BY <1>1, <1>2, StreamTypeCorrect, ShownInOrder, PlacesHold, PurgeStep, CompleteStep, PTL
  DEF StreamSpec

=============================================================================
