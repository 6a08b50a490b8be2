-------------------------------- MODULE Stream --------------------------------
(***************************************************************************)
(* What a participant sees of a room: the journal (core/eventlog.py) kept   *)
(* in the database (db/eventstore.py), the broadcast (core/broker.py), the  *)
(* connection that serves it (server/ws.py) and the view a client rebuilds  *)
(* from it (tui/client.py: RoomView, RoomClient).                          *)
(*                                                                         *)
(* One room and one participant, who reconnects after every failure.       *)
(* Durable events carry a number; deltas of the running turn do not, and   *)
(* are identified here by their rank.                                      *)
(***************************************************************************)
EXTENDS Integers, Sequences, FiniteSets, SequencesExt

CONSTANTS MaxEvents,    \* durable events in a behaviour
          MaxDeltas,    \* deltas in a behaviour
          QueueMax,     \* broker.QUEUE_MAX
          ReplayLimit,  \* eventlog.REPLAY_LIMIT
          Retention     \* settings.event_retention; 0 keeps everything

ASSUME StreamAssumption == /\ {MaxEvents, QueueMax, ReplayLimit} \subseteq Nat \ {0}
                           /\ {MaxDeltas, Retention} \subseteq Nat

VARIABLES
  \* -- the relay
  redis,      \* the broadcast goes through Redis: a choice of the deployment
  rows,       \* the rows of the room in the database, oldest first
  seq,        \* EventLog._seq
  partial,    \* EventLog._partials of the running turn: deltas so far
  produced,   \* how many deltas were ever produced
  flight,     \* messages on their way through Redis
  \* -- the connection of the participant
  conn,       \* "off", "subscribed" (hello awaited), "live"
  listening,  \* the Redis channel is subscribed
  queue,      \* Subscription._queue
  dropped,    \* Subscription.dropped: detached from the broadcast
  wire,       \* frames sent on the socket
  \* -- RoomView
  last,       \* last_seq
  seen,       \* the durable events applied, in order
  shown,      \* the partial text of the turn
  told        \* the events a truncated snapshot said were missing

relayVars == <<redis, rows, seq, partial, produced, flight>>
connVars == <<conn, listening, queue, dropped, wire>>
viewVars == <<last, seen, shown, told>>
streamVars == <<relayVars, connVars, viewVars>>

\* "message" ends the partial text on both sides, "ended" (an interrupted
\* turn) on the relay only; "other" stands for what people do.
Kind == {"message", "ended", "other"}
Row == [seq : 1..MaxEvents, kind : Kind]
Delta == 1..MaxDeltas
Frame == [kind : Kind, seq : 1..MaxEvents] \cup [kind : {"delta"}, rank : Delta]
Snapshot == [kind : {"snapshot"}, events : Seq(Row), partial : Seq(Delta),
             last : 0..MaxEvents, truncated : BOOLEAN]

StreamTypeOK ==
  /\ redis \in BOOLEAN
  /\ rows \in Seq(Row)
  /\ seq \in 0..MaxEvents
  /\ partial \in Seq(Delta)
  /\ produced \in 0..MaxDeltas
  /\ flight \subseteq Frame
  /\ conn \in {"off", "subscribed", "live"}
  /\ listening \in BOOLEAN
  /\ queue \in Seq(Frame) /\ Len(queue) <= QueueMax
  /\ dropped \in BOOLEAN
  /\ wire \in Seq(Frame \cup Snapshot)
  /\ last \in 0..MaxEvents
  /\ seen \in Seq(1..MaxEvents)
  /\ shown \in Seq(Delta)
  /\ told \subseteq 1..MaxEvents

StreamInit ==
  /\ redis \in BOOLEAN
  /\ rows = <<>> /\ seq = 0 /\ partial = <<>> /\ produced = 0 /\ flight = {}
  /\ conn = "off" /\ listening = FALSE /\ queue = <<>> /\ dropped = FALSE
  /\ wire = <<>>
  /\ last = 0 /\ seen = <<>> /\ shown = <<>> /\ told = {}

-----------------------------------------------------------------------------
(* The broadcast. *)

Subscribed == conn # "off" /\ ~ dropped

\* Faulty variant: a full queue loses the message and nobody is told.
OfferLosing(frame) ==
  /\ queue' = IF Subscribed /\ Len(queue) < QueueMax THEN Append(queue, frame) ELSE queue
  /\ UNCHANGED dropped

\* Subscription.offer, and the detachment of a subscriber that is dropped.
\* Its close() changes nothing: the sentinel does not fit in a full queue.
Offer(frame) ==
  IF Subscribed /\ Len(queue) < QueueMax
    THEN queue' = Append(queue, frame) /\ UNCHANGED dropped
    ELSE dropped' = (dropped \/ Subscribed) /\ UNCHANGED queue

\* Broadcaster.publish
Publish(frame) ==
  IF redis THEN flight' = flight \cup {frame} /\ UNCHANGED <<queue, dropped>>
           ELSE Offer(frame) /\ UNCHANGED flight

\* Redis hands the message to the pump of the room, if it listens.  Two
\* publications in progress use two connections: any order is possible.
Deliver ==
  \E frame \in flight :
    /\ flight' = flight \ {frame}
    /\ IF listening THEN Offer(frame) ELSE UNCHANGED <<queue, dropped>>
    /\ UNCHANGED <<redis, rows, seq, partial, produced, conn, listening, wire, viewVars>>

\* The task of the pump reaches its own subscription.
Listen ==
  /\ redis /\ conn # "off" /\ ~ listening
  /\ listening' = TRUE
  /\ UNCHANGED <<relayVars, conn, queue, dropped, wire, viewVars>>

-----------------------------------------------------------------------------
(* The journal. *)

\* Events of the agent come one after the other from its socket: the next waits until
\* the last one is published.  Those of people come from as many sockets.
FromAgent == {"message", "ended", "delta"}
Idle == \A frame \in flight : frame.kind \notin FromAgent

\* EventLog.append of a durable event, then the broadcast (Room._on_event).
Record(kind) ==
  /\ seq < MaxEvents
  /\ kind = "other" \/ Idle
  /\ seq' = seq + 1
  /\ rows' = Append(rows, [seq |-> seq', kind |-> kind])
  /\ partial' = IF kind = "other" THEN partial ELSE <<>>
  /\ Publish([kind |-> kind, seq |-> seq'])
  /\ UNCHANGED <<redis, produced, conn, listening, wire, viewVars>>

\* EventLog.append of a delta, then the broadcast.
Produce ==
  /\ produced < MaxDeltas
  /\ Idle
  /\ produced' = produced + 1
  /\ partial' = Append(partial, produced')
  /\ Publish([kind |-> "delta", rank |-> produced'])
  /\ UNCHANGED <<redis, rows, seq, conn, listening, wire, viewVars>>

\* DatabaseLogStore.purge, by the periodic maintenance.
Purge ==
  /\ Retention > 0
  /\ Len(rows) > Retention
  /\ rows' = SubSeq(rows, Len(rows) - Retention + 1, Len(rows))
  /\ UNCHANGED <<redis, seq, partial, produced, flight, connVars, viewVars>>

\* DatabaseLogStore.last_seq
LastSeq(journal) == IF journal = <<>> THEN 0 ELSE journal[Len(journal)].seq

\* How many events there are after a number: the query counts them first.
Total(n) == Cardinality({i \in DOMAIN rows : rows[i].seq > n})

\* Those events, as many of the most recent as the limit allows: the rows are
\* ordered by their number, which increases.
Replay(n) == LET count == IF Total(n) <= ReplayLimit THEN Total(n) ELSE ReplayLimit
             IN  SubSeq(rows, Len(rows) - count + 1, Len(rows))

\* Faulty variant: what is left out is not compared with what was asked.
TruncatedNever(n) == FALSE
Truncated(n) == Total(n) > ReplayLimit

-----------------------------------------------------------------------------
(* The connection. *)

Gone == /\ conn' = "off" /\ listening' = FALSE /\ dropped' = FALSE
        /\ queue' = <<>> /\ wire' = <<>>

\* The relay restarts: the room is mounted again from the database.
Restart ==
  /\ seq' = LastSeq(rows)
  /\ partial' = <<>>
  /\ flight' = {}
  /\ Gone
  /\ UNCHANGED <<redis, rows, produced, viewVars>>

Cut == /\ conn # "off"
       /\ Gone
       /\ UNCHANGED <<relayVars, viewVars>>

\* serve_socket: the subscription first.  With Redis the channel may already be
\* listened to for somebody else.
Connect ==
  /\ conn = "off"
  /\ conn' = "subscribed"
  /\ listening' \in (IF redis THEN BOOLEAN ELSE {FALSE})
  /\ UNCHANGED <<relayVars, queue, dropped, wire, viewVars>>

\* Faulty variant: the snapshot leaves the running turn out.
WelcomeWithoutText ==
  /\ conn = "subscribed"
  /\ conn' = "live"
  /\ wire' = <<[kind |-> "snapshot", events |-> Replay(last), partial |-> <<>>,
                last |-> seq, truncated |-> Truncated(last)]>>
  /\ UNCHANGED <<relayVars, listening, queue, dropped, viewVars>>

\* The hello is read, with the client's last_seq, and the snapshot sent.
Welcome ==
  /\ conn = "subscribed"
  /\ conn' = "live"
  /\ wire' = <<[kind |-> "snapshot", events |-> Replay(last), partial |-> partial,
                last |-> seq, truncated |-> Truncated(last)]>>
  /\ UNCHANGED <<relayVars, listening, queue, dropped, viewVars>>

\* _pump_down.  A dropped subscriber empties its queue and then waits for ever.
Pump ==
  /\ conn = "live"
  /\ queue # <<>>
  /\ queue' = Tail(queue)
  /\ wire' = Append(wire, Head(queue))
  /\ UNCHANGED <<relayVars, conn, listening, dropped, viewVars>>

-----------------------------------------------------------------------------
(* The view. *)

\* RoomView._snapshot: everything the first time, the missing part afterwards;
\* the partial text is replaced.
ApplySnapshot(frame) ==
  LET numbers == [i \in DOMAIN frame.events |-> frame.events[i].seq]
      before  == IF last = 0 THEN <<>> ELSE shown
      cleared == \E i \in DOMAIN frame.events : frame.events[i].kind = "message"
  IN  /\ last' = frame.last
      /\ seen' = (IF last = 0 THEN <<>> ELSE seen) \o numbers
      /\ shown' = IF frame.partial # <<>> THEN frame.partial
                  ELSE IF cleared THEN <<>> ELSE before
      /\ told' = IF frame.truncated
                   THEN told \cup ((last + 1)..frame.last \ ToSet(numbers))
                   ELSE told

\* RoomView.apply of a durable event: a number already reached is a duplicate.
ApplyEvent(frame) ==
  IF frame.seq <= last THEN UNCHANGED viewVars
  ELSE /\ last' = frame.seq
       /\ seen' = Append(seen, frame.seq)
       /\ shown' = IF frame.kind = "message" THEN <<>> ELSE shown
       /\ UNCHANGED told

\* ... and of a delta, which has no number.
ApplyDelta(frame) == /\ shown' = Append(shown, frame.rank)
                     /\ UNCHANGED <<last, seen, told>>

Receive ==
  /\ wire # <<>>
  /\ wire' = Tail(wire)
  /\ LET frame == Head(wire)
     IN  \/ frame.kind = "snapshot" /\ ApplySnapshot(frame)
         \/ frame.kind = "delta" /\ ApplyDelta(frame)
         \/ frame.kind \in Kind /\ ApplyEvent(frame)
  /\ UNCHANGED <<relayVars, conn, listening, queue, dropped>>

-----------------------------------------------------------------------------
StreamNext ==
  \/ \E kind \in Kind : Record(kind)
  \/ Produce
  \/ Purge
  \/ Deliver
  \/ Listen
  \/ Restart
  \/ Cut
  \/ Connect
  \/ Welcome
  \/ Pump
  \/ Receive

StreamSpec == StreamInit /\ [][StreamNext]_streamVars

\* The event loop and the client run what is ready, and the client reconnects;
\* nothing is assumed of the network or of who produces events.
FairStreamSpec == /\ StreamSpec
                  /\ WF_streamVars(Connect)
                  /\ WF_streamVars(Welcome)
                  /\ WF_streamVars(Pump)
                  /\ WF_streamVars(Receive)
                  /\ WF_streamVars(Listen)
                  /\ WF_streamVars(Deliver)

-----------------------------------------------------------------------------
(* Properties. *)

\* The conversation a client shows is the journal.  No event is shown twice, or after
\* a later one, whatever mixture of broadcast, snapshot, reconnection and restart it
\* came through, and whatever order Redis delivers in (server/ws.py:16-20); the client
\* is never ahead of the journal, whose next events it would take for duplicates
\* (core/eventlog.py:91-95); and with the broadcast in memory it shows every event up
\* to its last_seq but those it was told are missing, purges included
\* (core/eventlog.py:50-56).
ShowsTheJournal ==
  /\ \A i, j \in DOMAIN seen : i < j => seen[i] < seen[j]
  /\ last <= seq
  /\ ~ redis => \A n \in 1..last : n \in ToSet(seen) \cup told

\* Nothing that is still on its way to the client is missing from its text.
Settled == /\ conn = "live"
           /\ ~ dropped
           /\ flight = {} /\ queue = <<>> /\ wire = <<>>

\* Once everything has arrived, the client shows all the text the turn has
\* produced so far, wherever in the turn it connected (core/eventlog.py:14-17),
\* with the broadcast in memory.
NoTextLost == Settled /\ ~ redis => ToSet(partial) \subseteq ToSet(shown)

\* With the broadcast in memory, an event that finds the client subscribed reaches it
\* unless the connection ends, even when the client is detached for being too slow
\* while the event still waits in its full queue; and what was recorded before a client
\* subscribed comes with its snapshot.  Nothing published after the detachment comes
\* any more, and the connection stays open (core/broker.py:52-76, 86-90).
CatchesUp ==
  \A n \in 1..MaxEvents :
    (conn = "live" /\ ~ dropped /\ ~ redis /\ seq >= n) ~> (last >= n \/ conn = "off")

=============================================================================
