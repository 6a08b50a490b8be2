-------------------------------- MODULE Hosting --------------------------------
(***************************************************************************)
(* Who runs a room: the intention kept in the database (server/api/rooms.py *)
(* host, unhost, archive), the registry of daemons (server/daemons.py), the *)
(* socket of each daemon (server/app.py agent_socket, server/ws_agents.py), *)
(* the link a room holds (server/room.py host, unhost) and, on each         *)
(* person's machine, the daemon that takes rooms in charge                  *)
(* (agent/worker.py).                                                      *)
(*                                                                         *)
(* One room.  A person has one machine; each connection of its daemon has   *)
(* an identity, and with it the AgentDaemon, the AgentSession and the       *)
(* AgentLink the relay makes for it.                                       *)
(***************************************************************************)
EXTENDS Integers, Sequences, FiniteSets, SequencesExt

CONSTANTS Owners,     \* the people who may be given room.settings
          MaxConns,   \* connections of daemons in a behaviour
          MaxOrders,  \* orders on their way to one daemon
          MaxCalls,   \* requests made of the API in a behaviour
          MaxFaults   \* connections cut, machines and relays restarted

ASSUME HostingAssumption ==
  /\ {MaxConns, MaxOrders, MaxCalls} \subseteq Nat \ {0}
  /\ MaxFaults \in Nat

Conn == 1..MaxConns
Nobody == 0

VARIABLES
  \* -- the database
  autohost,   \* Room.autohost
  archived,   \* Room.archived_at is set
  mayHost,    \* who has room.settings on the room
  \* -- the relay
  registry,   \* DaemonRegistry._daemons: the connection of each person
  link,       \* AgentDaemon.links: "none", "up" or "dropped"
  holds,      \* AgentSession._rooms has the room
  agent,      \* Room.agent: the connection of its link, or Nobody
  \* -- the sockets
  opened,     \* how many connections were ever opened
  owner,      \* whose daemon a connection is
  socket,     \* "unused", "open", "lost" (the relay does not know), "closed"
  orders,     \* frames on their way to the daemon
  reports,    \* frames on their way to the relay
  \* -- the machines
  runs,       \* Worker.hosted has the room
  \* -- the bounds
  calls, faults

dbVars == <<autohost, archived, mayHost>>
relayVars == <<registry, link, holds, agent>>
socketVars == <<opened, owner, socket, orders, reports>>
boundVars == <<calls, faults>>
hostingVars == <<dbVars, relayVars, socketVars, runs, boundVars>>

Order == {"host", "unhost"}
\* AGENT_HELLO, and AGENT_HOSTED with ok or without.
Report == {"hello", "hosted", "released"}

HostingTypeOK ==
  /\ autohost \in BOOLEAN /\ archived \in BOOLEAN /\ mayHost \subseteq Owners
  /\ registry \in [Owners -> Conn \cup {Nobody}]
  /\ link \in [Conn -> {"none", "up", "dropped"}]
  /\ holds \in [Conn -> BOOLEAN]
  /\ agent \in Conn \cup {Nobody}
  /\ opened \in 0..MaxConns
  /\ owner \in [Conn -> Owners \cup {Nobody}]
  /\ socket \in [Conn -> {"unused", "open", "lost", "closed"}]
  /\ orders \in [Conn -> Seq(Order)]
  /\ reports \in [Conn -> Seq(Report)]
  /\ runs \subseteq Owners
  /\ calls \in 0..MaxCalls /\ faults \in 0..MaxFaults

HostingInit ==
  /\ autohost = FALSE /\ archived = FALSE /\ mayHost = Owners
  /\ registry = [p \in Owners |-> Nobody]
  /\ link = [c \in Conn |-> "none"]
  /\ holds = [c \in Conn |-> FALSE]
  /\ agent = Nobody
  /\ opened = 0
  /\ owner = [c \in Conn |-> Nobody]
  /\ socket = [c \in Conn |-> "unused"]
  /\ orders = [c \in Conn |-> <<>>]
  /\ reports = [c \in Conn |-> <<>>]
  /\ runs = {} /\ calls = 0 /\ faults = 0

-----------------------------------------------------------------------------
(* Links and rooms. *)

\* The connection the daemon of a person writes to, if it has one.
Current(p) == {c \in Conn : owner[c] = p /\ socket[c] = "open"}

\* Room.hosted
Hosted == agent # Nobody /\ link[agent] = "up"

\* A frame to the daemon of a connection; nobody reads those of a lost socket.
Sent(c, order) == IF socket[c] = "open" THEN [orders EXCEPT ![c] = Append(@, order)]
                                        ELSE orders

\* Faulty variant: the link that is replaced is left connected.
HostKeepsOld(c) ==
  /\ link' = [link EXCEPT ![c] = IF @ = "none" THEN "up" ELSE @]
  /\ agent' = c

\* AgentDaemon.link_for, unless there is a link already, and Room.host: the
\* room's link is dropped if connected, whichever it is.
Host(c) ==
  LET made == [link EXCEPT ![c] = IF @ = "none" THEN "up" ELSE @]
  IN  /\ link' = IF agent # Nobody /\ made[agent] = "up"
                   THEN [made EXCEPT ![agent] = "dropped"] ELSE made
      /\ agent' = c

\* AgentSession.release: the link is dropped, and taken from the room if it is
\* still the room's (Room.unhost).
Release(c) ==
  /\ link' = [link EXCEPT ![c] = "none"]
  /\ holds' = [holds EXCEPT ![c] = FALSE]
  /\ agent' = IF agent = c /\ link[c] # "none" /\ holds[c] THEN Nobody ELSE agent

-----------------------------------------------------------------------------
(* The API. *)

Call == calls < MaxCalls /\ calls' = calls + 1
\* Orders to the daemon of a person, if it is connected.
Ordered(p, order) == IF registry[p] = Nobody THEN orders ELSE Sent(registry[p], order)
RoomToOrder(p) == registry[p] # Nobody => Len(orders[registry[p]]) < MaxOrders

\* POST host.  The intention is kept even when no daemon is connected, and nothing
\* asks whether the room is archived.
HostCall(p) ==
  /\ Call
  /\ p \in mayHost /\ RoomToOrder(p)
  /\ autohost' = TRUE
  /\ orders' = Ordered(p, "host")
  /\ UNCHANGED <<archived, mayHost, relayVars, opened, owner, socket, reports, runs, faults>>

\* POST unhost
UnhostCall(p) ==
  /\ Call
  /\ p \in mayHost /\ RoomToOrder(p)
  /\ autohost' = FALSE
  /\ orders' = Ordered(p, "unhost")
  /\ UNCHANGED <<archived, mayHost, relayVars, opened, owner, socket, reports, runs, faults>>

\* DELETE room: archived, then the daemon of the caller lets it go.  It takes
\* room.delete, which anybody may have and which no other call here asks for.
Archive(p) ==
  /\ Call
  /\ ~ archived /\ RoomToOrder(p)
  /\ archived' = TRUE
  /\ autohost' = FALSE
  /\ orders' = Ordered(p, "unhost")
  /\ UNCHANGED <<mayHost, relayVars, opened, owner, socket, reports, runs, faults>>

\* The roles of a person change: room.settings is given or taken.
ChangeRole(p) ==
  /\ Call
  /\ mayHost' = (mayHost \ {p}) \cup ({p} \ mayHost)
  /\ UNCHANGED <<autohost, archived, relayVars, socketVars, runs, faults>>

-----------------------------------------------------------------------------
(* The sockets. *)

\* The connection a daemon opens replaces the one the relay knew: its links are
\* dropped, and taken from the room (agent_socket).  Its frames are still read.
\* The daemon says hello, then announces what it already runs (Worker._session).
Connect(p) ==
  /\ opened < MaxConns
  /\ Current(p) = {}
  /\ opened' = opened + 1
  /\ owner' = [owner EXCEPT ![opened'] = p]
  /\ socket' = [socket EXCEPT ![opened'] = "open"]
  /\ reports' = [reports EXCEPT ![opened'] =
                   IF p \in runs THEN <<"hello", "hosted">> ELSE <<"hello">>]
  /\ registry' = [registry EXCEPT ![p] = opened']
  /\ LET old == registry[p]
     IN  /\ link' = IF old = Nobody THEN link ELSE [link EXCEPT ![old] = "none"]
         /\ agent' = IF old # Nobody /\ agent = old /\ link[old] # "none" /\ ~ archived
                       THEN Nobody ELSE agent
  /\ UNCHANGED <<dbVars, holds, orders, runs, boundVars>>

Fault == faults < MaxFaults /\ faults' = faults + 1

\* The daemon loses its connection: what it had not read is lost, and the end of
\* what it had sent may be.
Cut(c) ==
  /\ Fault
  /\ socket[c] = "open"
  /\ socket' = [socket EXCEPT ![c] = "lost"]
  /\ orders' = [orders EXCEPT ![c] = <<>>]
  /\ \E n \in 0..Len(reports[c]) :
       reports' = [reports EXCEPT ![c] = SubSeq(@, 1, n)]
  /\ UNCHANGED <<dbVars, relayVars, opened, owner, runs, calls>>

\* Faulty variant: the registry forgets the person, whichever connection it has.
NoticeForgets(c) ==
  /\ socket[c] = "lost"
  /\ socket' = [socket EXCEPT ![c] = "closed"]
  /\ reports' = [reports EXCEPT ![c] = <<>>]
  /\ IF holds[c] THEN Release(c) ELSE UNCHANGED <<link, holds, agent>>
  /\ registry' = [registry EXCEPT ![owner[c]] = Nobody]
  /\ UNCHANGED <<dbVars, opened, owner, orders, runs, boundVars>>

\* The relay finds the socket closed (serve_agent, agent_socket): what was not
\* read is lost, the room is released and the registry forgets the connection
\* if it is still the one it knows.
Notice(c) ==
  /\ socket[c] = "lost"
  /\ socket' = [socket EXCEPT ![c] = "closed"]
  /\ reports' = [reports EXCEPT ![c] = <<>>]
  /\ IF holds[c] THEN Release(c) ELSE UNCHANGED <<link, holds, agent>>
  /\ registry' = [p \in Owners |-> IF registry[p] = c THEN Nobody ELSE registry[p]]
  /\ UNCHANGED <<dbVars, opened, owner, orders, runs, boundVars>>

\* The relay restarts: the room is mounted again without an agent.
RelayRestart ==
  /\ Fault
  /\ registry' = [p \in Owners |-> Nobody]
  /\ link' = [c \in Conn |-> "none"]
  /\ holds' = [c \in Conn |-> FALSE]
  /\ agent' = Nobody
  /\ socket' = [c \in Conn |-> IF socket[c] = "unused" THEN "unused" ELSE "closed"]
  /\ orders' = [c \in Conn |-> <<>>]
  /\ reports' = [c \in Conn |-> <<>>]
  /\ UNCHANGED <<dbVars, opened, owner, runs, calls>>

\* The daemon stops, and with it its sessions.
MachineStops(p) ==
  /\ Fault
  /\ runs' = runs \ {p}
  /\ socket' = [c \in Conn |-> IF c \in Current(p) THEN "lost" ELSE socket[c]]
  /\ orders' = [c \in Conn |-> IF c \in Current(p) THEN <<>> ELSE orders[c]]
  /\ UNCHANGED <<dbVars, relayVars, opened, owner, reports, calls>>

-----------------------------------------------------------------------------
(* The relay reads a frame (AgentSession.handle). *)

Read(c, report) ==
  /\ socket[c] \in {"open", "lost"}
  /\ reports[c] # <<>> /\ Head(reports[c]) = report
  /\ reports' = [reports EXCEPT ![c] = Tail(@)]

MayHost(c) == owner[c] \in mayHost

\* AGENT_HELLO: the room is pushed to whoever may host it, if it is to be
\* hosted (_a_heberger).
ReadHello(c) ==
  /\ Read(c, "hello")
  /\ orders' = IF autohost /\ ~ archived /\ MayHost(c) THEN Sent(c, "host") ELSE orders
  /\ UNCHANGED <<dbVars, relayVars, opened, owner, socket, runs, boundVars>>

\* Faulty variant: the right is checked when the order is given only.
ReadHostedUnchecked(c) ==
  /\ Read(c, "hosted")
  /\ IF archived THEN Release(c)
                 ELSE Host(c) /\ holds' = [holds EXCEPT ![c] = TRUE]
  /\ UNCHANGED <<dbVars, registry, opened, owner, socket, orders, runs, boundVars>>

\* Faulty variant: the session does not remember the room.
ReadHostedForgets(c) ==
  /\ Read(c, "hosted")
  /\ IF MayHost(c) /\ ~ archived THEN Host(c) /\ UNCHANGED holds ELSE Release(c)
  /\ UNCHANGED <<dbVars, registry, opened, owner, socket, orders, runs, boundVars>>

\* AGENT_HOSTED with ok (_hosted).
ReadHosted(c) ==
  /\ Read(c, "hosted")
  /\ IF MayHost(c) /\ ~ archived
       THEN Host(c) /\ holds' = [holds EXCEPT ![c] = TRUE]
       ELSE Release(c)
  /\ UNCHANGED <<dbVars, registry, opened, owner, socket, orders, runs, boundVars>>

\* AGENT_HOSTED without ok: let go, or refused by the machine.
ReadReleased(c) ==
  /\ Read(c, "released")
  /\ Release(c)
  /\ UNCHANGED <<dbVars, registry, opened, owner, socket, orders, runs, boundVars>>

-----------------------------------------------------------------------------
(* The daemon reads an order (Worker._handle). *)

Obey(c, order) ==
  /\ socket[c] = "open"
  /\ orders[c] # <<>> /\ Head(orders[c]) = order
  /\ orders' = [orders EXCEPT ![c] = Tail(@)]

Reported(c, report) == reports' = [reports EXCEPT ![c] = Append(@, report)]

\* RUN_HOST: confirmed when the room is already in charge, taken in charge
\* otherwise.
ObeyHost(c) ==
  /\ Obey(c, "host")
  /\ runs' = runs \cup {owner[c]}
  /\ Reported(c, "hosted")
  /\ UNCHANGED <<dbVars, relayVars, opened, owner, socket, boundVars>>

\* ... or refused: no such directory, or the session does not start.
RefuseHost(c) ==
  /\ Obey(c, "host")
  /\ owner[c] \notin runs
  /\ Reported(c, "released")
  /\ UNCHANGED <<dbVars, relayVars, opened, owner, socket, runs, boundVars>>

\* Faulty variant: the relay is not told.
ObeyUnhostSilently(c) ==
  /\ Obey(c, "unhost")
  /\ runs' = runs \ {owner[c]}
  /\ UNCHANGED <<dbVars, relayVars, opened, owner, socket, reports, boundVars>>

\* RUN_UNHOST
ObeyUnhost(c) ==
  /\ Obey(c, "unhost")
  /\ runs' = runs \ {owner[c]}
  /\ IF owner[c] \in runs THEN Reported(c, "released") ELSE UNCHANGED reports
  /\ UNCHANGED <<dbVars, relayVars, opened, owner, socket, boundVars>>

-----------------------------------------------------------------------------
HostingNext ==
  \/ \E p \in Owners : \/ HostCall(p)
                       \/ UnhostCall(p)
                       \/ Archive(p)
                       \/ ChangeRole(p)
                       \/ Connect(p)
                       \/ MachineStops(p)
  \/ \E c \in Conn : \/ Cut(c)
                     \/ Notice(c)
                     \/ ReadHello(c)
                     \/ ReadHosted(c)
                     \/ ReadReleased(c)
                     \/ ObeyHost(c)
                     \/ RefuseHost(c)
                     \/ ObeyUnhost(c)
  \/ RelayRestart

HostingSpec == HostingInit /\ [][HostingNext]_hostingVars

\* Both event loops run what is ready and a lost socket is found out in the
\* end; daemons reconnect.  Nothing is assumed of people or of faults.
FairHostingSpec ==
  /\ HostingSpec
  /\ \A p \in Owners : WF_hostingVars(Connect(p))
  /\ \A c \in Conn : /\ WF_hostingVars(Notice(c))
                     /\ WF_hostingVars(ReadHello(c) \/ ReadHosted(c) \/ ReadReleased(c))
                     /\ WF_hostingVars(ObeyHost(c) \/ RefuseHost(c) \/ ObeyUnhost(c))

-----------------------------------------------------------------------------
(* Properties. *)

\* A link that is not dropped is the room's: whatever replaces or releases a link
\* frees the turn that waits on it (server/room.py:125-141).
OnlyTheHostIsConnected == \A c \in Conn : link[c] = "up" => agent = c

\* The room never counts on a socket the relay knows to be closed, and the
\* session of that socket will release it (server/ws_agents.py:196-206).
HostIsServed == Hosted => socket[agent] \in {"open", "lost"} /\ holds[agent]

\* The registry knows the last connection of every daemon, whatever the order in
\* which the relay hears of the old ones (server/daemons.py:107-129).
DaemonIsKnown == \A p \in Owners : \A c \in Current(p) : registry[p] = c

\* A machine becomes the host only with the right to, at that moment, and never
\* of an archived room (server/ws_agents.py:158-168).
HostsByRight ==
  [][agent' \notin {agent, Nobody} => owner[agent'] \in mayHost /\ ~ archived]_hostingVars

\* The room's machine is not there: its connection is over, or it does not run
\* the room.
HostLost == agent # Nobody /\ socket[agent] # "open" /\ ~ archived
HostIdle == Hosted /\ owner[agent] \notin runs

\* A room does not stay with a connection that is lost, unless it is archived and
\* nobody can open it (server/ws_agents.py:204-206), nor with a machine that no longer
\* runs it: prompts would go to a session that does not exist (agent/worker.py:467-471).
HostIsThere == (HostLost ~> ~ HostLost) /\ (HostIdle ~> ~ HostIdle)

\* Everything sent was read, and every lost connection noticed.
Quiet == \A c \in Conn : /\ socket[c] # "lost"
                         /\ orders[c] = <<>> /\ reports[c] = <<>>

\* A machine that is connected and runs the room hosts it: it announced so
\* (agent/worker.py:495-499).
AnnouncedIsHosted ==
  Quiet /\ (\E p \in runs : Current(p) # {}) => Hosted

=============================================================================
