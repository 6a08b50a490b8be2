# ClaudeShare: TLA+ models and proofs

ClaudeShare lets several people share one Claude session. A **relay** (FastAPI, one
process, one asyncio event loop) keeps the rooms; an **agent daemon** on a participant's
machine runs the Claude sessions of the rooms it hosts; **clients** (a browser page, a
terminal program) watch a room and write in it when they hold its speaking token. All of
them talk over WebSockets, with an HTTP API beside them for what is kept in a database.

This directory holds TLA+ modules translated from that code, the TLC instances that check
them, and TLAPS proofs. Paths are relative to `src/claudeshare/` of the repository.

1. [Inventory](#1-inventory)
2. [Hard behaviours](#2-hard-behaviours)
3. [Modules and how they correspond to the code](#3-modules-and-how-they-correspond-to-the-code)
4. [Runs, bounds and what they show](#4-runs-bounds-and-what-they-show)
5. [Fairness](#5-fairness)
6. [Proofs](#6-proofs)
7. [Disagreements found](#7-disagreements-found)
8. [What is not modelled, and the plan](#8-what-is-not-modelled-and-the-plan)

How to run, in this directory: `tlc -workers 2 -config MCFloor.cfg MCFloor`,
`tlapm FloorProofs.tla`. `PROJECT.json` lists every run with what it checks, the faulty
variants each property must catch, the lines each definition models, and the theorems.

## 1. Inventory

| Part | Source | State | Operations | What makes it correct |
|---|---|---|---|---|
| Speaking token | `core/floor.py` | state, holder, deferred grant, withdrawal flag, requests | request, withdraw, deny, grant, revoke, release, begin and end of turn, depart | one speaker; a turn is not lost in the middle; the end of a turn gives the floor to the person last decided; the queue is fair |
| Room | `server/room.py` | token, agent link, tasks of the turns, presence, desk of approvals, signature of the last floor announced | submit, stop, host, unhost, the token's operations, on_agent_event, joined, left, snapshot | never generating without a turn; a turn is released once, by its own end; clients are told of the floor as it is |
| Link to a daemon | `server/agentlink.py` | connected, current turn, its completion event | run_turn, interrupt, answer, configure, finished, dropped | the end of another turn releases nobody; a lost daemon releases its turn |
| Registry and daemon sockets | `server/daemons.py`, `server/ws_agents.py`, `server/app.py` | connection per person, links per connection, rooms per session | attach, detach, host, unhost; the frames of a daemon | the host is somebody who may host; a room never waits on a closed socket |
| Daemon | `agent/worker.py` | hosted rooms, running turn, outgoing channel | take a room in charge, let it go, run a turn, interrupt, configure, reconnect | one turn per room; an interrupt hits its turn; the relay is told of what runs |
| Session supervisor | `agent/supervisor.py` | SDK client, settings, mark for reopening, conversation, turn, drain | start, stop, configure, run, reopen, interrupt | one turn at a time; a session survives an interrupt; settings reach the session; a reopening cuts nobody and forgets nothing |
| Tool approvals | `agent/approval.py`, `server/approvals.py` | requests pending in the daemon, requests known to the relay | ask, decide, time out, abandon; observe, decide, forget | one decision per request, never by its author; no request pending for ever |
| Journal | `core/eventlog.py`, `db/eventstore.py` | rows, counter, partial texts | append, append_delta, replay, purge, restart | strictly increasing numbers; what a replay lacks is announced |
| Broadcast | `core/broker.py` | bounded queue per subscriber | publish, subscribe, detach the slow | nobody blocks the room; order kept; a lost subscriber comes back |
| Room socket | `server/ws.py` | per connection: mode, subscription | hello, snapshot, pump, the intentions of a client | snapshot and stream overlap without a hole; rights checked at each message |
| Presence | `server/room.py` (`joined`, `departure`, `left`), `server/ws.py` (`serve_socket`) | tabs per person, departures scheduled | subscribe, join, welcome, close, leave | who has left loses the floor; who opens a page again before the first is closed loses nothing; every tab shows who is there |
| Client view | `tui/client.py`, `server/static/` | last number, events, partial text, approvals | reconnect, apply a frame | each event once, in order |
| Membership | `core/capabilities.py`, `core/permissions.py`, `server/authz.py`, `server/api/roles.py`, `server/api/members.py`, `server/api/bans.py` | roles, members, adjustments, exclusions | create, change and delete a role; change and expel a member; exclude, lift | nobody confers what they lack, even through others; a room keeps an owner; who loses the right to speak loses the turn |
| Invitations | `core/invites.py`, `server/api/invites.py`, `server/auth/identity.py`, `server/api/rooms.py` | invitations, links, join requests, the room's code | invite, claim, redeem, revoke, ask, approve, reject, join by code, archive | a use counts once; every door asks about exclusions; what an offer gives exists |
| Pairing | `server/auth/cli.py`, `tui/login.py` | pending codes | start, approve, poll | one token per approval |
| Rate limit | `server/ratelimit.py` | buckets | allow | the average rate is bounded |
| Managed agents | `server/managed.py`, `server/api/credentials.py` | per profile: the deposited secret, the registered agent, its token, its process and the task that reads its output | start, stop, store and forget the secret, close the relay | one process per profile, with the secret deposited now; a token dies with its agent; a stop ends |
| Sign-in, database schema, attachments, policy, statistics, user interfaces | various | | | library calls, declarations, pure predicates, rendering |

**Interactions.** A client's intention reaches `ws.py`, which checks a capability and calls
the room. `Room.submit` takes the token (`begin_turn`) and starts a task, which sends
RUN_TURN through the link and waits for the link's completion event; the daemon answers
with events (journalled and broadcast) and AGENT_DONE, which `ws_agents.py` hands to the
link, which wakes the task, which gives the token back (`end_turn`). `_apply` sends the
token to the clients whenever it differs from what was last sent. The registry knows the
daemons by person; the API records the intention to host and sends RUN_HOST, and the
daemon's AGENT_HOSTED makes it the room's agent.

## 2. Hard behaviours

The relay is a single event loop: two handlers interleave only at an `await` that really
suspends. So atomicity is known exactly, and what is hard is what can happen at those
points and on the network between the three programs:

- decisions taken *during* a turn take effect at its end, and several may be taken;
- a turn can be cut (`preempt`), time out (30 minutes), lose its daemon, fail in its
  preparation, or end at the same time as any of these; the reports of a cut turn still
  arrive, possibly on a later connection;
- a daemon reconnects before or after the relay noticed its first connection was lost;
  frames of the old connection are still read after the new one announced itself;
- a client subscribes before it receives its snapshot, so what happens in between reaches
  it twice; the queue of a subscriber may overflow; a relay restart loses what was not in
  the database; old rows are purged;
- rights, archived rooms and intentions change between an order and its confirmation;
- rights spread through people: each call is within the rights of its caller, and what a
  chain of calls by several people can reach is what matters;
- the daemon's reader and the turns it started interleave at every await: a setting, an
  order to let the room go or the next turn arrives while a turn closes and reopens the
  session;
- the calls of two tabs of one person overlap while the process of their agent is created,
  ends, or does not obey.

`PROJECT.json` lists them one by one under `hazards`, at the line where each bites, with
the properties that would catch it going wrong.

## 3. Modules and how they correspond to the code

```
SpeakingRight   <-- implemented by --   Floor   <-- EXTENDS --   Turns
                                        |   |                      |
                              FloorProofs   |                  TurnsProofs
                                            +-- EXTENDS --   Presence -- PresenceProofs
Stream -- StreamProofs       Approvals -- ApprovalsProofs       Session -- SessionProofs

Rights <-- EXTENDS -- Members <-- EXTENDS -- Invites -- AccessProofs
Hosting, Managed -- HostingProofs

MCFloor, MCTurns, MCStream, MCHosting, MCApprovals, MCPresence, MCAccess, MCManaged,
MCSession: the instances of TLC
```

**SpeakingRight** is the abstract promise of the token, without requests or flags: one
speaker, and at any time one known *heir* who has the floor after the running turn.

**Floor** is class `Floor`: each method is an action, its fields are the variables. No
method awaits, so one action per call is exact; a method that refuses changes nothing and
is a disabled action. `grant` is three actions (`GrantNow`, `GrantLater`, `Preempt`)
because it does three different things. The refinement mapping computes the heir from the
flags (`Heir`). `_hand_over` is written with its deferred grant as in the code;
`TokenSound` shows that `release` never meets one (a deferred grant exists only during a
turn), so that branch is reached in no state.

**Turns** composes the token with what spends it. The room's `submit` takes the floor and
announces it, which it awaits (`task`: begun), then creates a task (spawned), unless the
announcement raised or was cancelled, and the prompt is lost with the floor still generating
(lost, `Stranded`). The task sends on the link it finds (`via`), and waits for the end of
the turn (waiting, over); `agent`, `connected`, `current`, `done` are the fields of `Room`
and `AgentLink`; `orders` and `reports` are the socket in both directions; `job` and
`draining` are the daemon's turns and the interrupt that blocks its reader until the turn is
drained, or thirty seconds have passed. `announced` is `_floor_signature` and `cuts` counts
the calls of `_apply` suspended in `interrupt()` between the transition and the
announcement. `skipped` (an interrupt that raised kept `_apply` from announcing),
`disturbed` (the turns under way at a preemption, and those accepted beside one of them) and
`givenUp` (the turns that outlasted the watchdog) are history. The relay's actions are what
runs between two awaits that can suspend. Requests for the floor are left out of its actions
(`Decide` has the decisions): a request changes no turn, and `Floor` covers them.

**Stream** is one room seen by one participant who reconnects after every failure: the
journal and its rows, the deltas that are not numbered, the two broadcasters (`redis`,
chosen at the start), the connection and the view (`RoomView`) a client rebuilds. Deltas are
identified by their rank, durable events by their number and by what they do to the
partial text (`Kind`). `seen`, `shown` and `told` record what the view applied.

**Hosting** is one room, its owners, each with one machine, and every connection their
daemons open. The database's intention (`autohost`, `archived`, `mayHost`), the registry,
the link of each connection (`link`, `holds` for `AgentSession._rooms`), the room's
`agent`, both directions of each socket and what each machine really runs (`runs`).
A connection is "lost" while only the network knows. The right to archive (`room.delete`)
is not tracked: an owner may archive whether or not they may host.

**Approvals** is one room and one machine. `call` is the state of each `can_use_tool` call
(the future pending, set, settled), `desk` the relay's `_waiting`; `orders` and `reports`
are the two directions of each connection; `reader` is what keeps the daemon's reader from
its next frame (an interrupted turn to drain, a session to close). A future that is set and
a delay that runs out before the coroutine has run are both possible: the answer is then the
refusal. A call cancelled while its request is being announced is "cut": nobody awaits its
future any more and no resolution follows. `answers` and `askedOn` are history. A daemon
that connects announces its room; the way it was given it is Hosting's.

**Presence** composes the token with the tabs of the room's participants. `stage` is where
`serve_socket` is for each of them, `count` is `_present`, `leaving` the departures the room
keeps as tasks, `owed` those that are done but not announced. Two steps are separate where
the code awaits a publication, which suspends with Redis and not with the broker in memory.
`shown` is what a tab shows once it has read its queue: the last frame queued since its
subscription, or else its snapshot. `named` and `spared` are history.

**Rights**, **Members** and **Invites** are one room and the people who are in it or may
come. `Rights` has the capabilities that administration tests (and `speak`), the builtin
roles, `resolve` and the two guards. `Members` has the roles, the memberships, the
exclusions, and the turn that `apply_live` cuts; `Invites` has the doors and composes both
(`AccessSpec`). A handler does not await between what it reads and what it writes, so each
is one action; `apply_live` publishes before it looks at the turn, so its cut is another
(`cuts` counts those that are suspended). What is simplified: the other capabilities open no
door here; a role is its identifier, so renaming one changes nothing; priorities are the
floor's; a person is who they are invited as; of invitations and links only those that can
be used are kept. `came`, `below` and `spared` are history: the door each member came
through (`code`, `invitation`, `link`, `request`), what owners gave below themselves, and
the turns nothing could find when their author lost the right.

**Managed** is one profile: the registered agent, the token, secret, process, signal and
output task of each, and the calls that overlap. A start issues its token before it knows
whether it will launch anything: it may find an agent that runs, or fail in making the
folders or writing the file. A call is used once and gives its name to
what it issues, launches or deposits. `at` is the await where a call is suspended, `next`
what it does after; `Cancelled` is what a cancellation does to the task of the output,
whose `finally` awaits the process. The credential can be deciphered and the relay runs
agents: both refusals change nothing. `astray` and `dropped` are history: the tokens that no
stop will find, and the agents forgotten while their process was being created.

**Session** is one room and the machine that hosts it. `reader` is what the daemon's reader
awaits for the order in hand (a session that opens, another model being told, a room let
go), `job` where each turn is: preparing, closing the former session, opening another,
playing. `sup` are the fields of the `SessionSupervisor` of each `Hosted`, `client` the SDK
clients with the settings they were opened with or told, `known` the turns each conversation
of the CLI holds; a client resumes the conversation its options name, or begins another.
What the reader raises closes the socket (`ReaderRaises`). A session that is open may refuse
a model or an interrupt, or answer too late, having taken the model or not. `missed` is
history: the settings that are shown and were not told, because they changed while the
supervisor had no client or because the session refused the model. Interrupts are `Turns`',
several connections and daemons `Hosting`'s.

| Module | Actions for |
|---|---|
| Floor | `request`, `withdraw`/`deny`, `grant`, `revoke`, `release`, `begin_turn`, `end_turn`, `depart` |
| Turns | `Room.submit` and `run()`, `stop`, `host`, `unhost`, `_apply`, `AgentLink.run_turn`, `interrupt`, `finished`, `dropped`, `Worker._handle` for RUN_TURN and RUN_INTERRUPT, `_run_turn`, `SessionSupervisor.run_turn`, `interrupt`, `_drain` |
| Stream | `EventLog.append`, `append_delta`, `replay`, `DatabaseLogStore`, `InProcessBroadcaster`, `RedisBroadcaster`, `ws.serve_socket` (subscription, snapshot, pump), `RoomView.apply`, `RoomClient.run` |
| Approvals | `ApprovalBroker.ask`, `decide`, `abandon`, `_settle`; `ApprovalDesk.observe`, `decide`, `forget`; `_handle_approval`; `Worker._handle` for RUN_APPROVAL, RUN_INTERRUPT and RUN_UNHOST; AGENT_HOSTED and the events of approvals in `AgentSession.handle` |
| Presence | `serve_socket`, `Room.joined`, `departure`, `left`, `_announce`; the intentions about the floor in `_pump_up` |
| Members | `create_role`, `update_role`, `delete_role`; `update_member`, `remove_member`, `apply_live`; `bannir`, `lever`; `Room.submit` and `run_turn` as far as the right to speak goes |
| Invites | `create_invite`, `_claim_now`, `claim_invitations`, `revoke_invite`; `create_link`, `redeem`, `revoke_link`; `ask`, `approve_request`, `reject_request`; `join_by_code`, `rotate_code`, `drop_code`, `archive` |
| Managed | `start`, `stop`, `store`, `forget` of `credentials.py`; `ManagedAgents.start`, `stop`, `aclose`, `_drain`, `_terminate` |
| Session | `SessionSupervisor.start`, `stop`, `configure`, `_reopen_session`, `run_turn`; `Worker._handle` for RUN_HOST, RUN_UNHOST, RUN_TURN and RUN_CONFIGURE; `_handle_configure`, `AgentLink.configure` |
| Hosting | `server/api/rooms.py` host, unhost, archive; `agent_socket`, `AgentSession.handle`, `DaemonRegistry`, `AgentDaemon`, `Room.host`/`unhost`; `Worker._session`, RUN_HOST, RUN_UNHOST |

## 4. Runs, bounds and what they show

| Run | Bounds | Shows |
|---|---|---|
| `floor` | three people, two priorities | the token is sound, the queue fair, the last decision binds, `SpeakingRight` is implemented |
| `turns` | two people who may both preempt, 2 turns, 2 connections, watchdog, drain timeout | a turn is released by its own end only; every generation ends unless its prompt was lost before it had a task; the floor and the turn agree again once the preempted turns are over; an accepted prompt reaches its host; a connection gives the machine one turn at a time and its interrupts hit their own turn; the floor is announced after the interrupt, unless that raised |
| `stream` | 3 events, 1 delta, queue of 2, replay of 1, retention of 2, either broadcaster | events in order, once, never ahead of the journal, whatever the order of arrival; in memory, holes are announced, no text is lost, and a client gets everything published while it was subscribed, even if it is detached afterwards |
| `hosting` | 2 owners, 3 connections, 1 order per socket, 2 requests, 1 fault | a connected link is the room's; the host's socket is one somebody will release; the registry knows the last connection; only the right makes a host; neither a lost connection nor a machine that does not run the room keeps it |
| `approvals` | two people with any rights, 1 call, 2 connections, 1 cut, 1 fault of any kind, 1 change of roles | no tool runs without a consent; the desk shows only what waits or was cut while announced, and everything that can be answered; a request ends though nobody answers |
| `presence` | two people, one of whom decides, 3 tabs, 1 turn | who watches is present and keeps floor and place; the floor is never kept for who has left; every tab shows who is there; who closes their tabs leaves in the end |
| `access` | three people, 1 custom role, 1 link of 2 uses at most, 3 calls of the API | the room keeps an owner; nobody below an owner gains what no owner gave; nobody under exclusion is in by the code or by having stayed; no role in use is gone; who may not speak any more loses the turn |
| `managed` | 3 calls that overlap | the registered agent has the secret deposited now; tokens and processes left behind are those of named races; a failure is told; every call returns unless it waits for the output of a process nobody has signalled |
| `session` | 1 hosting, 3 turns, 2 changes of a setting, 2 frames under way, sessions refused or lost, settings and interrupts refused | who answers remembers every turn answered before; an open session has its settings or will have them, but for those it refused or that changed while there was no client (`missed`); an answer is cut only to let the room go |

`hosting_announced`, `access_banned` and `managed_stop` each expect a violation: see section
7.

**Why the bounds are enough to meet the hard cases.** Three people let a decision be
overridden by another during one turn and give the queue a middle; two priorities order it.
In `Turns` two turns are one that is cut, given up or lost and the one accepted beside or
after it: the end of the first, or an interrupt meant for it, then meets the second on the
same connection or on the next one; two connections are a lost one and its successor. The
theorems are for any number of both. In `Stream` the queue and the replay are shorter than
the journal, so overflow and truncation both happen, and purges happen because the retention
is shorter than the journal. In `Hosting` three connections for two owners give a
reconnection of one while the other is connected; two requests are an intention and its
opposite. In `Approvals` one fault with a second connection gives every order of a loss, a
reconnection and late news; the calls of one turn meet only at the reader and at the desk,
and the theorem below is for any number of them. In `Presence` three tabs are one that is
closed, one opened again meanwhile, and a witness. In `Access` a second owner or an
accomplice takes one call, what they do for a third person another, and three calls with the
doors, the ends of offers and the turn in between give each faulty variant its
counterexample; the two people who did not create the room are interchangeable. In `Managed`
three calls are one that starts, one that stops or replaces, and one that starts meanwhile.
In `Session` a setting is changed and changed back; three turns are one that plays on after
a cut, one on the new connection and one after a reopening; a new `Hosted` shares nothing
with the former one, so one hosting is enough, and the theorems are for any number. Where
behaviours are bounded the system may stop, and the configuration says `CHECK_DEADLOCK
FALSE` (`Turns`, `Hosting`, `Approvals`, `Presence`, `Access`, `Managed`, `Session`);
`Floor` and `Stream` are checked for deadlock.

Every property is paired in `PROJECT.json` with a faulty variant of one action (a dropped
guard, a flag not reset, a replaced link left connected...), kept in the module just before
the definition it replaces, under which TLC finds the property violated.

## 5. Fairness

`FairTurnsSpec` assumes only the relay's event loop: a task that is ready runs, an
announcement goes on or raises, a timer fires, and a dead socket is noticed (the WebSocket's
ping). It assumes nothing of the daemon's machine, which may never answer: the watchdog is
what ends such a turn. `FairStreamSpec` assumes the loop, the delivery of what was
published, and a client that reconnects (`RoomClient` retries for ever); nothing makes
anybody produce an event or the network fail. `FairHostingSpec` assumes both event loops,
that a lost socket is noticed and that daemons reconnect; nothing of people.
`FairApprovalsSpec` assumes that a call that can be answered or times out does (`wait_for`
has a timer), that frames received are read and losses noticed; the daemon may stay
disconnected and nobody has to answer. `FairPresenceSpec` assumes that the loop runs the
tasks the room keeps. `ManagedFairness` assumes the loop, that a killed process ends and
that the output of a process that has ended does; a process that was not killed may run, and
ignore a first signal, for ever. All are weak fairness: none of these steps is disabled for
ever by a competing one while it waits.

## 6. Proofs

Checked by TLAPS, for every value of the constants.

**FloorProofs.** `TypeCorrect`; `TokenIsSound` (`TypeOK /\ TokenSound` is inductive);
`LastDecisionBinds`, an action property, from the same invariant; and
`ImplementsSpeakingRight`: initial states map to initial states, and each action of the
token maps to a step of the abstract promise or to a stutter, `Heir` included.
`NobodyIsOvertaken` (`NoOvertaking`) rests on what `Without` leaves of a list in which each
person is once (`WithoutElements`: an order-preserving injection into the former list) and
on the only three things a step does to the requests (`QueueMoves`): nothing, one more at
the end, somebody less. Assumption: `NoOne` is nobody's name.

**TurnsProofs.** `RoomKeepsToken`: the composed system changes the token only by its own
actions, so every theorem of `FloorProofs` holds of a room. `TurnsTypeCorrect`.
`FloorIsFreed` (`NeverStuckGenerating`) holds with preemption, timeouts and lost daemons: a
room that generates has a turn under way that will free it, the last one accepted
(`InOrder`), or is `Stranded`: the only turn that nothing ends is the last one accepted,
when it was lost before it had a task. `FloorIsTheTurn` (`FloorMatchesTurn`) has no
hypothesis on preemption: `DisturbedInv` says that the turns under way are all disturbed by
a preemption or none is, and in the second case there is one at most and the floor is
generating. The new speaker does write while the cut turn drains, and the statement takes
hold again when the disturbed turns are over. `ReleasedWhenOver` (`ReleasedByItsOwnEnd`)
needs a strengthening, `DeliveryInv`: an order is in a channel only if its turn was sent,
once; a turn that was not sent is unknown to the machine; a report in a channel is of a turn
that is over; a waiting turn is the current one of the connected link it was sent on.
Without these, nothing says that the report which sets `done` belongs to the turn that
waits. `PromptsAreSent` (`AcceptedIsSent`) excepts the prompts accepted beside a cut turn;
it needs `BusyInv`: a link that still carries a turn on a live socket carries one whose task
waits, so a prompt could only be refused behind a turn that has the floor.
`TurnsAreSerialised` (`SerialisedByTheFloor`) and `InterruptsHitTheirTurn`
(`InterruptHitsItsTurn`) are for any number of preemptions and connections, whatever a drain
takes. What they except is what the relay has lost sight of: turns of another connection,
and turns the watchdog gave up while they went on. Their invariant, `OneTurnInv`, is kept
for each connection apart: what the machine works at for it, and what it is ordered to
there, is the turn its link carries and has not heard the end of, and an interrupt on its
way names the turn of every order before it. A turn that follows a cut may be *accepted*
while the cut one drains, but is *sent* only once the link is free, which is why these two
hold of preempted turns as well. `NoneRefusedOnOneConnection` is the case of a daemon that
never reconnects: a turn is refused there only if the watchdog gave one up.

**StreamProofs.** `StreamTypeCorrect`, then three results for journals, queues, replays and
retentions of any size. `ShownInOrder`: the view shows each event once, in order, and is
never ahead of the journal, with either broadcaster and any retention. It needs `JournalInv`
(the rows are the last events, numbered one by one) and `OrderInv`: only the first frame of a
connection is a snapshot, it was taken after what the view has, and no frame is ahead of
the journal. `TextIsShown` (`NoTextLost`) needs `TextInv`: a delta of the running turn is on
its way with no end of message behind it, or it is in the text that the view shows or that
its snapshot will give it, and every end of message still on its way is one that the view or
that snapshot has already counted.
`JournalIsShown` (`ShowsTheJournal`) needs `CompleteInv`: frames on their way leave no gap
after where the view starts, or will start from (`Base`), and what a snapshot carries or
counts as missing covers what the view lacks. Its one hypothesis, `LongRetention` (retention
off, or longer than a replay), is what the code has: 5000 rows (`config.py:69`) and 2000
events (`core/eventlog.py:35`); `PurgeInv` is where it is used. What these say in Redis
mode is in the properties themselves: order and lead only.

**HostingProofs.** `HostingTypeCorrect` needs `Owned`: an opened connection is somebody's.
`NoForgottenLink` (`OnlyTheHostIsConnected`) is inductive with the types. `HostedIsServed`
(`HostIsServed`) rests on `Linked`: a link that exists is on a socket the relay has not
closed, and its session knows the room, or the link was replaced.
`DaemonAlwaysKnown` (`DaemonIsKnown`) and `OnlyByRight` (`HostsByRight`) follow.

**ApprovalsProofs.** `ApprovalsTypeCorrect`, and `OnlyByConsent` (`AllowedByRight`) with a
strengthening, `ConsentInv`, that follows a yes from the person to the tool: an accepted
answer came from somebody who could give it, about a call that was made, so that its author
does not change any more; what is on the desk or announced to it was asked; a yes in a
channel, in a future or in a result is one that was accepted. Three facts are stated once
for every step: orders and reports only lose elements or gain the one that was sent, and a
call that was made stays made. `TheDeskIsTrue` (`DeskIsTrue`) speaks of moments when nothing
is on its way, so its invariant, `DeskInv`, says what *is*: a request on a connection that
lasts is followed there by its end once it is over, unless it was cut while it was announced
(`FollowedInv`), what the desk shows has
its end coming (`EndComesInv`), what nobody answered is shown or coming (`ShownInv`), the
machine announces its room before anything else (`AnnouncedInv`), and a connection that is
not the last one owns the room only if it took it back (`LinksInv`).

**PresenceProofs.** `RoomKeepsToken`: a room moves the token only by its own actions, so
`RoomHasTheToken` carries `SpeakingRight` and `NoOvertaking` over from `FloorProofs`.
`WatchersLoseNothing` (`WatchersKeepTheirPlace`) follows from `CountIsExact`: the count of a
person is the number of their counted tabs, plus the departures to come; a set of tabs gains
or loses one element at a time, which the theorems on finite sets count.
`TabsShowWhoIsThere` (`TabsShowPresence`) needs `ShownIsFresh`: a tab that reads shows
nothing yet or the present list, unless a departure is still to be announced, and a snapshot
leaves it showing something. `FloorIsNotLeftBehind` (`HeirIsPresent`) needs
`HeirsAreExcused`, which also speaks of the holder a cancelled grant would give the floor
back to.

**AccessProofs.** `AccessTypeCorrect` needs `UsesLeft` (a link that can be used has a use
left), which is what keeps a quota from going below zero. `AnOwnerRemains`,
`ExclusionsYieldToOffers` and `NoDeadRole` follow from one lemma about what any step may do
to the memberships (`Moves`): nothing, an entry of somebody who is none, or a departure or a
change of role that is not the last owner's. `DelegationIsBounded` (`NoAccomplice`) needs
`RolesAreOrderly` (builtin roles never change, an identifier never returns, ownership is
nobody's additional role, who is out keeps nothing) and `OffersAreCounted` (what an open
offer confers was counted when it was made): every gift is within the rights of the giver,
so within what is counted unless the giver is an owner. `SpeechIsCut` (`RevokedIsCut`)
follows each change of rights to the call of `apply_live` it leaves. Assumptions: `NoOne`
and `NoRole` are no names, custom roles are not the builtin ones, the choices offered to
calls are sets of roles and capabilities.

**Managed agents** (also in `HostingProofs`)**.** `ManagedTypeCorrect`, and
`SecretsAreTheDeposit` (`RunsWithTheDeposit`), `TokensFollowTheAgent`
(`TokensDieWithTheirAgent`) and `ProcessesAreAttended` (`NoProcessUnattended`) from one
invariant, `ManagedIInv`: an agent whose process is being created is registered, or was
counted as dropped or astray, and the call that creates it stops nobody. It is stated of a
registry, tokens and a set of dropped agents given as parameters, because a call that stops
an agent and launches another changes them twice in one step.

**SessionProofs.** `SessionTypeCorrect`, `MemoryIsKept` (`OneMemory`),
`SettingsReachTheSession` (`SettingsTake`) and `AnswersAreNotCut` (`NobodysAnswerIsCut`)
from one invariant, `Inv`. Its first parts say who owns what: a session that is open is the
one its `Hosted` shows, one that is being opened is shown by nobody and has somebody who
opens it, one turn of a `Hosted` at most is past the check of the lock, an order is for a
turn that has not begun. Only then do `Memory` (every turn that was answered is in the
conversation its `Hosted` resumes, which is the one of any session that answers or is about
to) and `Settings` (the same of model and effort, `missed` apart) keep from step to step:
the client a turn works with could otherwise be another one's. No assumption but that an
absent field is no setting.

Type invariants are proved rather than run. Every invariant and every action property of
the passing runs is a theorem.

**Only model-checked:** the liveness properties, `TurnEnds`, `AnnouncedInTheEnd`, `CatchesUp`,
`HostIsThere`, `AskEnds`, `LeavesInTheEnd`, `FailureIsTold` and `CallsReturn`. Liveness
under fairness and ENABLED are out of the prover's reach, as is induction over data; no
module that is proved about declares a RECURSIVE operator.

## 7. Disagreements found

Three are runs that expect a violation of what the repository says of itself, with the
quotation in `PROJECT.json` (`findings`).

- `hosting_announced`: a daemon announcing a room twice on one connection is taken for its
  own replacement, and the room is left without a host.
- `access_banned`: an exclusion is said to close every door (`server/api/bans.py:12-14`,
  `server/app.py:306-309`, a test named for it); invitations, links and approved requests
  create the membership themselves and do not ask. `BannedNeedsAnOffer`, in `access`, says
  what is left of it.
- `managed_stop`: a stop awaits the task of the output before it signals the process, and
  that task awaits the process: a process that does not end by itself is never signalled.

Others are behaviours of the same models that no property forbids, because the code has
them; they are why some properties are stated under conditions, and each is noted with its
hazard in `PROJECT.json`:

- the announcement of a turn that begins is awaited before its task exists
  (`server/room.py:343`): if the journal or the broadcast raises there, or the connection
  that asked is cancelled, no `finally` gives the floor back and the room generates until
  somebody preempts (`Stranded`, against `server/room.py:354-355`);
- an interrupt that raises keeps `_apply` from announcing the preemption, which clients
  learn at the next change of the floor (`skipped`);
- a setting changed while a turn reopens the session reaches neither that session nor the
  next turn (`missed`); a reopening that fails puts back a session that is disconnected, so
  every turn fails until the effort changes again, and `set_model` or an interrupt on it
  raises out of the reader and cuts the connection (`agent/supervisor.py:266-286`);
- a model that an open session refuses, or takes too long to take, is kept as if it had been
  told (`agent/supervisor.py:254-263`): giving it again does nothing, the effort of the same
  order is lost, and the connection is cut (`missed` too);
- the order to host carries neither the settings of the room nor its conversation
  (`server/daemons.py:68-71`), so a machine that takes the room starts without them; a room
  let go while a turn reopens its session leaves a session that plays that turn;
- after a reconnection the floor is free while the machine still runs the turn of the lost
  connection, and rejects the next prompt, or is cut by an interrupt meant for it
  (`SerialisedByTheFloor` and `InterruptHitsItsTurn` except what another connection left);
- a delta produced between the subscription and the snapshot is in both, and shown twice
  (`NoTextLost` says nothing of duplicates);
- through Redis two publications may overtake each other, and the channel may be listened
  to after the snapshot (only order and lead are checked there); with a retention shorter than a
  replay, what was purged is not announced as missing;
- the intention to host is the room's and not a person's; a room let go while the order
  cannot reach the daemon is hosted again when it reconnects; archiving tells the daemon of
  the caller, not the one that hosts; a machine that is replaced is not told and goes on
  running the room; a late frame of a replaced connection takes the room back to it;
- a second person's machine that takes a room leaves the requests of the first on the desk;
  a client that replays the journal shows a request whose resolution was lost while the
  daemon was disconnected;
- the arrival and the floor are published, and the snapshot sent, before the `try` that
  schedules the departure (`server/ws.py:86-117`): if one of them raises, the person stays
  present, with the floor if they had it, until the relay restarts (`LeavesInTheEnd`
  excludes who it happened to);
- a withdrawal armed by the departure of the speaker wins over a grant deferred to the end
  of the turn, so the person promised the floor does not get it (`core/floor.py:334`);
- after a cut the new speaker may submit while the link still carries the old turn: the
  prompt is accepted and then refused by the link (`server/agentlink.py:121`);
- a subscriber that overflows is detached, but the mark that should end it goes into the
  queue that is full (`core/broker.py:65-69`, against 31-32): its socket stays open, nothing
  published afterwards comes, and the client is not told (`CatchesUp` promises only what was
  published while it was subscribed);
- a tool call cancelled while its request is being announced (`agent/approval.py:135`,
  before the `try`) leaves the request on the desk until somebody answers it, to no effect,
  or the connection is lost (`DeskIsTrue` says so);
- who manages roles may give any capability to a custom role, their own included:
  `update_role` asks neither guard (`NoAccomplice` counts it as given); the code of an
  archived room may be set again (`server/api/rooms.py:308-310`), and requests approved and
  invitations claimed into it;
- the author of a turn is known by label and compared with a handle
  (`server/api/members.py:257`), a change of role cuts no turn, and a withdrawal applied
  before the agent has the turn finds none (`RevokedIsCut` names them all); the open socket
  of somebody expelled goes on receiving;
- a start that finds an agent running, or cannot make the folders (`server/managed.py:152-153`),
  leaves the token it has just issued active, against `server/api/credentials.py:134-136`; a
  stop, or
  a second start, while a process is being created leaves that process in no registry; a
  stop signals the process and not the ones it has launched; the closing of the relay leaves
  the token of its agent active (`astray` and `dropped` count these);
- the floor can be given by name to somebody who has left; and a speaker who left during
  their turn has it again at its end when the person it was granted to meanwhile left too
  (`HeirIsPresent` excludes both, with `named` and `spared`).

## 8. What is not modelled, and the plan

In the order of the plan:

1. `Pairing`: the two codes of a command-line client, one approval, one token, expiry.
2. `RateLimit`: the integers of a token bucket.

Not planned: OAuth, cookies and hashes (library calls); rendering of the two clients; the
tool policy and the sandbox options (pure predicates over paths and names); migrations;
attachments' files. Left out of the modelled parts: the chat carried by `Room`, the settings
it remembers and its audit, more than one room per daemon, several participants of one
stream (each has its own queue and view, and only the journal is shared), more than one
profile of managed agents (they share nothing) and what the relay finds on disk of agents
that outlived it.
