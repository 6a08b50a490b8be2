-------------------------------- MODULE Turns --------------------------------
(***************************************************************************)
(* A turn from the floor to the machine that runs it and back.             *)
(*                                                                         *)
(* Composes the token (Floor) with the room that spends it                 *)
(* (server/room.py: submit, stop, host, unhost, _apply), the link to the   *)
(* daemon that hosts the room (server/agentlink.py) and, on the daemon's   *)
(* machine, the reader of the socket and the turns it starts               *)
(* (agent/worker.py, agent/supervisor.py).  The relay is one event loop:   *)
(* an action is what runs between two awaits that can really suspend.      *)
(***************************************************************************)
EXTENDS Floor

CONSTANTS MaxTurns,   \* prompts submitted in a behaviour
          MaxLinks,   \* connections of the daemon in a behaviour
          Preemptors  \* the people holding room.preempt and room.floor.grant

ASSUME TurnsAssumption == /\ MaxTurns \in Nat \ {0}
                          /\ MaxLinks \in Nat \ {0}
                          /\ Preemptors \subseteq People

Turn == 1..MaxTurns
Link == 1..MaxLinks
None == 0          \* no turn, or no link (AbsentAgent)

VARIABLES
  \* -- the room
  agent,      \* Room.agent: a link, or None
  task,       \* each prompt: "none"; "begun", its floor being announced; "lost"
              \* there; then its task run(): "spawned", "waiting", "over"
  via,        \* the link a waiting task sent its turn on
  announced,  \* Room._floor_signature: the last floor state sent to the clients
  cuts,       \* calls of _apply suspended in interrupt(), per link
  \* -- the links
  opened,     \* how many links were ever opened
  connected,  \* AgentLink.connected
  alive,      \* the socket underneath can still carry a frame
  current,    \* AgentLink._current_turn
  done,       \* AgentLink._done is set
  orders,     \* frames on their way to the daemon
  reports,    \* AGENT_DONE frames on their way to the relay
  \* -- the daemon's machine
  job,        \* each turn there: "none", "preparing", "running", "over"
  draining,   \* the turn an interrupt waits for, its reader blocked meanwhile
  \* -- history
  skipped,    \* an interrupt that raised kept _apply from announcing the floor, which
              \* was not announced since
  disturbed,  \* the turns under way when the floor was taken from a turn, and those
              \* accepted beside one of them
  givenUp     \* the turns that outlasted the watchdog

roomVars == <<agent, task, via, announced, skipped, cuts, disturbed, givenUp>>
linkVars == <<opened, connected, alive, current, done, orders, reports>>
workVars == <<job, draining>>
vars == <<floorVars, roomVars, linkVars, workVars>>

Order == [kind : {"run", "interrupt"}, turn : Turn]
Signature == <<state, holder, deferred, requests>>

TurnsTypeOK ==
  /\ TypeOK
  /\ agent \in Link \cup {None}
  /\ task \in [Turn -> {"none", "begun", "lost", "spawned", "waiting", "over"}]
  /\ via \in [Turn -> Link \cup {None}]
  /\ cuts \in [Link -> Nat]
  /\ opened \in 0..MaxLinks
  /\ connected \in [Link -> BOOLEAN]
  /\ alive \in [Link -> BOOLEAN]
  /\ current \in [Link -> Turn \cup {None}]
  /\ done \in [Link -> BOOLEAN]
  /\ orders \in [Link -> Seq(Order)]
  /\ reports \in [Link -> Seq(Turn)]
  /\ job \in [Turn -> {"none", "preparing", "running", "over"}]
  /\ draining \in Turn \cup {None}
  /\ skipped \in BOOLEAN
  /\ disturbed \subseteq Turn /\ givenUp \subseteq Turn

TurnsInit ==
  /\ Init
  /\ agent = None
  /\ task = [t \in Turn |-> "none"]
  /\ via = [t \in Turn |-> None]
  /\ announced = Signature
  /\ cuts = [l \in Link |-> 0]
  /\ opened = 0
  /\ connected = [l \in Link |-> FALSE]
  /\ alive = [l \in Link |-> FALSE]
  /\ current = [l \in Link |-> None]
  /\ done = [l \in Link |-> FALSE]
  /\ orders = [l \in Link |-> <<>>]
  /\ reports = [l \in Link |-> <<>>]
  /\ job = [t \in Turn |-> "none"]
  /\ draining = None
  /\ skipped = FALSE /\ disturbed = {} /\ givenUp = {}

-----------------------------------------------------------------------------
\* Room.hosted
Hosted == agent # None /\ connected[agent]

\* The turns of which the room has not seen the end.
Live == {t \in Turn : task[t] \in {"begun", "spawned", "waiting"}}

\* The end of _apply: the floor as it is now goes to the journal and the broadcast, if
\* it differs.  The signature is kept first: if they raise, nothing is tried again.
Announce ==
  IF announced = Signature' THEN UNCHANGED <<announced, skipped>>
  ELSE announced' = Signature' /\ skipped' = FALSE

\* The socket the daemon writes to (Worker._socket).
Sockets == {l \in Link : alive[l]}

\* AgentLink.dropped: a waiting turn is released.
Dropped(l) == /\ connected' = [connected EXCEPT ![l] = FALSE]
              /\ done' = [done EXCEPT ![l] = @ \/ current[l] # None]

\* AgentLink.interrupt: the frame is sent and the turn goes on; nothing is
\* sent when no turn is known to run or nobody is connected.
Interruptible == Hosted /\ current[agent] # None

SendInterrupt ==
  orders' = IF alive[agent]
              THEN [orders EXCEPT ![agent] =
                      Append(@, [kind |-> "interrupt", turn |-> current[agent]])]
              ELSE orders

-----------------------------------------------------------------------------
(* The room: decisions about the floor that cut nothing.  A request for the *)
(* floor changes nothing a turn depends on: see Floor.                      *)

Decide ==
  /\ \/ Revoke
     \/ \E who \in People : \/ GrantLater(who)
                            \/ GrantNow(who)
                            \/ GiveBack(who)
                            \/ Depart(who)
  /\ Announce
  /\ UNCHANGED <<agent, task, via, cuts, disturbed, givenUp, linkVars, workVars>>

\* grant_floor(immediate=True) during a turn: the token moves at once, then
\* _apply asks the link to interrupt.  With nothing to interrupt the call does
\* not suspend; otherwise the announcement waits for the frame to be sent.
PreemptFloor(who) ==
  /\ Preemptors # {}
  /\ Preempt(who)
  /\ disturbed' = disturbed \cup Live
  /\ \/ /\ ~ Interruptible
        /\ Announce
        /\ UNCHANGED <<cuts, orders>>
     \/ /\ Interruptible
        /\ cuts' = [cuts EXCEPT ![agent] = @ + 1]
        /\ SendInterrupt
        /\ UNCHANGED <<announced, skipped>>
  /\ UNCHANGED <<agent, task, via, givenUp, opened, connected, alive, current, done, reports,
                 workVars>>

\* The frame is sent: _apply goes on.
CutSent(l) ==
  /\ cuts[l] > 0
  /\ cuts' = [cuts EXCEPT ![l] = @ - 1]
  /\ UNCHANGED <<floorVars, agent, task, via, disturbed, givenUp, linkVars, workVars>>
  /\ Announce

\* The socket was closed underneath: interrupt() raises, through _apply, into
\* the connection of the person who asked; nothing is announced.
CutRaises(l) ==
  /\ cuts[l] > 0
  /\ ~ alive[l]
  /\ cuts' = [cuts EXCEPT ![l] = @ - 1]
  /\ skipped' = (skipped \/ announced # Signature)
  /\ UNCHANGED <<floorVars, agent, task, via, announced, disturbed, givenUp, linkVars, workVars>>

\* stream.stop -> Room.stop: cuts the turn and leaves the floor alone.  The model
\* bounds the channel: a turn has one interrupt of this kind under way.
Stop ==
  /\ Interruptible
  /\ [kind |-> "interrupt", turn |-> current[agent]] \notin ToSet(orders[agent])
  /\ SendInterrupt
  /\ UNCHANGED <<floorVars, roomVars, opened, connected, alive, current, done, reports, workVars>>

-----------------------------------------------------------------------------
(* The room: a prompt and the task that carries it.                        *)

\* Every prompt takes the next number.
IsNext(t) == task[t] = "none" /\ \A s \in Turn : s < t => task[s] # "none"

\* Faulty variant: holding the floor is enough, even during a turn.
SubmitWhileGenerating(who, t) ==
  /\ Hosted
  /\ IsNext(t)
  /\ holder = who
  /\ state' = "generating"
  /\ UNCHANGED <<holder, deferred, revokeAfterTurn, requests>>
  /\ announced' = Signature'
  /\ task' = [task EXCEPT ![t] = "begun"]
  /\ UNCHANGED <<agent, via, skipped, cuts, disturbed, givenUp, linkVars, workVars>>

\* Room.submit: refused without a host or without the floor; else the token is
\* spent, and announced, which is awaited.
Submit(who, t) ==
  /\ Hosted
  /\ IsNext(t)
  /\ BeginTurn(who)
  /\ announced' = Signature'
  /\ task' = [task EXCEPT ![t] = "begun"]
  /\ disturbed' = IF Live \cap disturbed = {} THEN disturbed ELSE disturbed \cup {t}
  /\ skipped' = FALSE
  /\ UNCHANGED <<agent, via, cuts, givenUp, linkVars, workVars>>

\* The floor is announced: a task is created, which the event loop starts later.
SubmitGoesOn(t) ==
  /\ task[t] = "begun"
  /\ task' = [task EXCEPT ![t] = "spawned"]
  /\ UNCHANGED <<floorVars, agent, via, announced, skipped, cuts, disturbed, givenUp, linkVars,
                 workVars>>

\* The journal or the broadcast raises, or the connection that asked is cancelled,
\* before there is a task: nothing gives the floor back.
SubmitRaises(t) ==
  /\ task[t] = "begun"
  /\ task' = [task EXCEPT ![t] = "lost"]
  /\ UNCHANGED <<floorVars, agent, via, announced, skipped, cuts, disturbed, givenUp, linkVars,
                 workVars>>

\* Faulty variant: the end of a turn is not announced.
EndTurnCallSilent == /\ EndTurn \/ (state # "generating" /\ UNCHANGED floorVars)
                     /\ UNCHANGED <<announced, skipped>>

\* The finally of run(): end_turn, which refuses when no turn is running.
EndTurnCall == /\ EndTurn \/ (state # "generating" /\ UNCHANGED floorVars)
               /\ Announce

\* Faulty variant: run_turn does not check that the link is busy.
StartSendsBusy(t) ==
  /\ task[t] = "spawned"
  /\ Hosted
  /\ task' = [task EXCEPT ![t] = "waiting"]
  /\ via' = [via EXCEPT ![t] = agent]
  /\ current' = [current EXCEPT ![agent] = t]
  /\ done' = [done EXCEPT ![agent] = FALSE]
  /\ orders' = [orders EXCEPT ![agent] = Append(@, [kind |-> "run", turn |-> t])]
  /\ UNCHANGED <<floorVars, agent, announced, skipped, cuts, disturbed, givenUp, opened, connected,
                 alive, reports, workVars>>

\* run() starts and AgentLink.run_turn sends the turn to the daemon.
StartSends(t) ==
  /\ task[t] = "spawned"
  /\ Hosted
  /\ current[agent] = None
  /\ task' = [task EXCEPT ![t] = "waiting"]
  /\ via' = [via EXCEPT ![t] = agent]
  /\ current' = [current EXCEPT ![agent] = t]
  /\ done' = [done EXCEPT ![agent] = FALSE]
  /\ orders' = IF alive[agent]
                 THEN [orders EXCEPT ![agent] =
                         Append(@, [kind |-> "run", turn |-> t])]
                 ELSE orders
  /\ UNCHANGED <<floorVars, agent, announced, skipped, cuts, disturbed, givenUp, opened, connected,
                 alive, reports, workVars>>

\* Faulty variant: without the finally, a turn that fails keeps the floor.
StartRefusedNoFinally(t) ==
  /\ task[t] = "spawned"
  /\ Hosted => current[agent] # None
  /\ task' = [task EXCEPT ![t] = "over"]
  /\ UNCHANGED <<floorVars, agent, announced, skipped, via, cuts, disturbed, givenUp, linkVars,
                 workVars>>

\* run_turn raises at once: no agent, a link that was dropped, or a link that
\* still has a turn.  The error is logged and the turn is over.
StartRefused(t) ==
  /\ task[t] = "spawned"
  /\ Hosted => current[agent] # None
  /\ task' = [task EXCEPT ![t] = "over"]
  /\ EndTurnCall
  /\ UNCHANGED <<agent, via, cuts, disturbed, givenUp, linkVars, workVars>>

\* run_turn raises while sending, before its try: the link keeps the turn.
StartRaises(t) ==
  /\ task[t] = "spawned"
  /\ Hosted
  /\ ~ alive[agent]
  /\ current[agent] = None
  /\ task' = [task EXCEPT ![t] = "over"]
  /\ current' = [current EXCEPT ![agent] = t]
  /\ done' = [done EXCEPT ![agent] = FALSE]
  /\ EndTurnCall
  /\ UNCHANGED <<agent, via, cuts, disturbed, givenUp, opened, connected, alive, orders, reports,
                 workVars>>

\* Faulty variant: the link is not freed when the turn is over.
FinishKeepsTurn(t) ==
  /\ task' = [task EXCEPT ![t] = "over"]
  /\ done' = [done EXCEPT ![via[t]] = FALSE]
  /\ EndTurnCall
  /\ UNCHANGED <<agent, via, cuts, disturbed, opened, connected, alive, current, orders, reports,
                 workVars>>

\* run_turn returns: _finish, then the finally of run().
Finish(t) ==
  /\ task' = [task EXCEPT ![t] = "over"]
  /\ current' = [current EXCEPT ![via[t]] = None]
  /\ done' = [done EXCEPT ![via[t]] = FALSE]
  /\ EndTurnCall
  /\ UNCHANGED <<agent, via, cuts, disturbed, opened, connected, alive, orders, reports, workVars>>

\* Faulty variant: an interrupt counts as the end of the turn.
WakeOnInterrupt(t) == /\ task[t] = "waiting"
                      /\ done[via[t]] \/ cuts[via[t]] > 0
                      /\ Finish(t) /\ UNCHANGED givenUp

\* ... because the daemon said so, or its link was dropped;
Wake(t) == task[t] = "waiting" /\ done[via[t]] /\ Finish(t) /\ UNCHANGED givenUp

\* Faulty variant: only the turn of a lost link is timed out.
WatchdogOfLostLink(t) ==
  /\ task[t] = "waiting" /\ ~ connected[via[t]] /\ ~ done[via[t]]
  /\ Finish(t) /\ givenUp' = givenUp \cup {t}

\* ... or because it did not for thirty minutes.
Watchdog(t) == /\ task[t] = "waiting" /\ ~ done[via[t]]
               /\ Finish(t) /\ givenUp' = givenUp \cup {t}

-----------------------------------------------------------------------------
(* The links.                                                              *)

\* The daemon connects and confirms the room: a new AgentLink, and Room.host.
\* The daemon has one socket at a time, and attaching it made the relay drop
\* the links of the previous one (app.py: remplace.close()).
HostRoom ==
  /\ opened < MaxLinks
  /\ Sockets = {}
  /\ \A l \in Link : ~ connected[l]
  /\ opened' = opened + 1
  /\ agent' = opened'
  /\ connected' = [connected EXCEPT ![opened'] = TRUE]
  /\ alive' = [alive EXCEPT ![opened'] = TRUE]
  /\ UNCHANGED <<floorVars, task, via, announced, skipped, cuts, disturbed, givenUp, current,
                 done, orders, reports, workVars>>

\* The network fails: orders in flight are lost, and part of the reports.
SocketDies(l) ==
  /\ alive[l]
  /\ alive' = [alive EXCEPT ![l] = FALSE]
  /\ orders' = [orders EXCEPT ![l] = <<>>]
  /\ \E n \in 0..Len(reports[l]) :
       reports' = [reports EXCEPT ![l] = SubSeq(@, 1, n)]
  /\ UNCHANGED <<floorVars, roomVars, opened, connected, current, done, workVars>>

\* The relay learns it: AgentSession.close releases the link (dropped), and
\* Room.unhost detaches it.
NoticeDrop(l) ==
  /\ connected[l]
  /\ ~ alive[l]
  /\ Dropped(l)
  /\ agent' = IF agent = l THEN None ELSE agent
  /\ reports' = [reports EXCEPT ![l] = <<>>]
  /\ UNCHANGED <<floorVars, task, via, announced, skipped, cuts, disturbed, givenUp, opened,
                 alive, current, orders, workVars>>

\* Faulty variant: the end of any turn releases the one that is waiting.
DoneReceivedAny(l) ==
  /\ connected[l]
  /\ reports[l] # <<>>
  /\ reports' = [reports EXCEPT ![l] = Tail(@)]
  /\ done' = [done EXCEPT ![l] = @ \/ current[l] # None]
  /\ UNCHANGED <<floorVars, roomVars, opened, connected, alive, current, orders,
                 workVars>>

\* AgentLink.finished: the end of a turn that is not the current one is ignored.
DoneReceived(l) ==
  /\ connected[l]
  /\ reports[l] # <<>>
  /\ reports' = [reports EXCEPT ![l] = Tail(@)]
  /\ done' = [done EXCEPT ![l] = @ \/ current[l] = Head(reports[l])]
  /\ UNCHANGED <<floorVars, roomVars, opened, connected, alive, current, orders,
                 workVars>>

-----------------------------------------------------------------------------
(* The daemon's machine.                                                   *)

Running == {t \in Turn : job[t] = "running"}

\* The reader handles the next order, one at a time: a turn becomes a task of
\* its own; an interrupt is handled in line, and hits whatever turn the session
\* runs.  It is lost if the turn is not yet in the session (attachments are
\* being fetched).
ReadOrder(l) ==
  /\ alive[l]
  /\ draining = None
  /\ orders[l] # <<>>
  /\ orders' = [orders EXCEPT ![l] = Tail(@)]
  /\ LET order == Head(orders[l])
     IN  \/ /\ order.kind = "run"
            /\ job' = [job EXCEPT ![order.turn] = "preparing"]
            /\ UNCHANGED draining
         \/ /\ order.kind = "interrupt"
            /\ draining' \in IF Running = {} THEN {None} ELSE Running
            /\ UNCHANGED job
  /\ UNCHANGED <<floorVars, roomVars, opened, connected, alive, current, done,
                 reports>>

\* Hosted._emit / AGENT_DONE: on the socket of the moment, dropped without one.
Report(t) == reports' = [l \in Link |-> IF l \in Sockets THEN Append(reports[l], t)
                                        ELSE reports[l]]

\* SessionSupervisor.run_turn takes the lock of the session...
StartJob(t) ==
  /\ job[t] = "preparing"
  /\ Running = {}
  /\ job' = [job EXCEPT ![t] = "running"]
  /\ UNCHANGED <<floorVars, roomVars, linkVars, draining>>

\* ... or raises TurnBusyError: the prompt is lost, its end is reported.
RejectJob(t) ==
  /\ job[t] = "preparing"
  /\ Running # {}
  /\ job' = [job EXCEPT ![t] = "over"]
  /\ Report(t)
  /\ UNCHANGED <<floorVars, roomVars, opened, connected, alive, current, done,
                 orders, draining>>

\* The turn ends, answered, failed or interrupted.
EndJob(t) ==
  /\ job[t] = "running"
  /\ job' = [job EXCEPT ![t] = "over"]
  /\ Report(t)
  /\ UNCHANGED <<floorVars, roomVars, opened, connected, alive, current, done,
                 orders, draining>>

\* interrupt() returns once the turn is drained, or after 30 seconds, over or not.
DrainEnds ==
  /\ draining # None
  /\ draining' = None
  /\ UNCHANGED <<floorVars, roomVars, linkVars, job>>

-----------------------------------------------------------------------------
TurnsNext ==
  \/ Decide
  \/ Stop
  \/ HostRoom
  \/ DrainEnds
  \/ \E who \in Preemptors : PreemptFloor(who)
  \/ \E who \in People, t \in Turn : Submit(who, t)
  \/ \E t \in Turn : \/ SubmitGoesOn(t)
                     \/ SubmitRaises(t)
                     \/ StartSends(t)
                     \/ StartRefused(t)
                     \/ StartRaises(t)
                     \/ Wake(t)
                     \/ Watchdog(t)
                     \/ StartJob(t)
                     \/ RejectJob(t)
                     \/ EndJob(t)
  \/ \E l \in Link : \/ CutSent(l)
                     \/ CutRaises(l)
                     \/ SocketDies(l)
                     \/ NoticeDrop(l)
                     \/ DoneReceived(l)
                     \/ ReadOrder(l)

TurnsSpec == TurnsInit /\ [][TurnsNext]_vars

\* The event loop runs what is ready and fires its timers; a dead socket is
\* noticed (the websocket's ping).  Nothing is assumed of people, of the
\* network, or of the daemon's machine.
RelayFairness ==
  /\ \A t \in Turn : /\ WF_vars(SubmitGoesOn(t) \/ SubmitRaises(t))
                     /\ WF_vars(StartSends(t) \/ StartRefused(t) \/ StartRaises(t))
                     /\ WF_vars(Wake(t) \/ Watchdog(t))
  /\ \A l \in Link : /\ WF_vars(CutSent(l) \/ CutRaises(l))
                     /\ WF_vars(NoticeDrop(l))

FairTurnsSpec == TurnsSpec /\ RelayFairness

-----------------------------------------------------------------------------
(* Properties. *)

\* The last prompt that was accepted.
Latest(t) == task[t] # "none" /\ \A s \in Turn : s > t => task[s] = "none"

\* It was lost between the beginning of its turn and the creation of its task.
Stranded == \E t \in Turn : Latest(t) /\ task[t] = "lost"

\* A room that generates has a turn whose end will free it, the last one accepted,
\* however the turns fail, are preempted or time out (room.py:354-358, the finally of
\* run()); but for the one that was lost before run() existed (room.py:343).
NeverStuckGenerating == state = "generating" => Stranded \/ \E t \in Live : Latest(t)

\* A link still connected releases its waiting turn only when the machine is
\* through with that very turn: the end of an older turn, reported late on a
\* new connection, frees nobody's floor (agentlink.py:219-227).
ReleasedByItsOwnEnd ==
  \A t \in Turn : task[t] = "waiting" /\ connected[via[t]] /\ done[via[t]]
                    => job[t] = "over"

\* The floor and the turn agree, again as soon as the turns that a preemption
\* disturbed are over: a room has one turn at most, and generates as long as that
\* turn (room.py:309-361).
FloorMatchesTurn ==
  Live \cap disturbed = {} => /\ \A s, t \in Live : s = t
                              /\ (Live # {} => state = "generating")

\* A prompt that was accepted reaches the daemon unless the host was lost, or it was
\* accepted beside a turn that was preempted: its task does not find the link still
\* busy with another turn (agentlink.py:121-122).
AcceptedIsSent ==
  [][\A t \in Turn : StartRefused(t) => ~ Hosted \/ ~ alive[agent] \/ t \in disturbed]_vars

\* The machine refuses a turn only because one sent on another connection still
\* runs, or because the relay gave up on one of the two after thirty minutes: on one
\* connection it is the floor's job to serialise turns, preempted or not
\* (supervisor.py:316-318).
SerialisedByTheFloor ==
  [][\A t \in Turn : RejectJob(t) =>
       \E s \in Running : via[s] # via[t] \/ s \in givenUp \/ t \in givenUp]_vars

\* An interrupt cuts the turn it was sent for, never its successor or its
\* predecessor (agentlink.py:158-166), but for a turn left over by a former
\* connection or by the watchdog.
InterruptHitsItsTurn ==
  [][draining = None /\ draining' # None =>
       \E l \in Link : /\ ReadOrder(l)
                       /\ \/ Head(orders[l]).turn = draining'
                          \/ via[draining'] # l
                          \/ draining' \in givenUp]_vars

\* A turn ends for the room whatever becomes of the daemon, the network or the
\* preemptions, unless it was lost before it had a task.
TurnEnds == state = "generating" ~> state # "generating" \/ Stranded

\* The room does not forget to announce the floor: a change that waits for an
\* interrupt to be sent is announced after it, by the preemption or by a transition
\* that came first, unless that raised (floor.py:158-174, room.py:447-463).
AnnouncedInTheEnd == (announced # Signature) ~> (announced = Signature \/ skipped)

=============================================================================
