------------------------------- MODULE Approvals -------------------------------
(***************************************************************************)
(* A tool call that waits for somebody's approval: the machine that asks    *)
(* and keeps the promise (agent/approval.py, agent/worker.py), the desk of  *)
(* the relay (server/approvals.py), the handler of a participant's answer   *)
(* (server/ws.py) and the connection between them (server/agentlink.py,     *)
(* server/ws_agents.py, server/room.py).                                    *)
(*                                                                         *)
(* One room and one machine.  A daemon that reconnects announces the room   *)
(* it runs; how it was given the room is the subject of Hosting.           *)
(***************************************************************************)
EXTENDS Integers, Sequences, FiniteSets

CONSTANTS People,      \* the names participants are known by
          MaxAsks,     \* tool calls in a behaviour
          MaxConns,    \* connections of the daemon in a behaviour
          MaxCuts,     \* turns interrupted and rooms let go
          MaxFaults,   \* connections lost, machines and relays restarted
          MaxChanges   \* changes of roles

ASSUME ApprovalsAssumption ==
  /\ {MaxAsks, MaxConns} \subseteq Nat \ {0}
  /\ {MaxCuts, MaxFaults, MaxChanges} \subseteq Nat

Ask == 1..MaxAsks
Conn == 1..MaxConns
None == 0

VARIABLES
  \* -- the machine
  call,     \* each can_use_tool call: see CallState
  author,   \* Pending.author: who sent the turn that called the tool
  verdict,  \* what the future of the call was set to
  outcome,  \* what the tool was answered
  reader,   \* what the daemon's reader is busy with: see ReaderState
  hosting,  \* Worker.hosted has the room
  \* -- the relay
  desk,     \* ApprovalDesk._waiting
  agent,    \* Room.agent: the connection of its link, or None
  linked,   \* the connections whose AgentDaemon has a link for the room
  rights,   \* what each participant may do: see Right
  \* -- the connections
  opened,   \* how many were ever opened
  socket,   \* "unused", "open", "lost" (the relay does not know), "closed"
  orders,   \* frames on their way to the daemon
  reports,  \* frames on their way to the relay
  \* -- history
  answers,  \* the answers the relay accepted: who, and with which rights
  askedOn,  \* the connection the daemon had when it asked, or None
  tookBack, \* a connection that was replaced took the room back
  cuts, faults, changes

machineVars == <<call, author, verdict, outcome, reader, hosting>>
relayVars == <<desk, agent, linked, rights>>
connVars == <<opened, socket, orders, reports>>
historyVars == <<answers, askedOn, tookBack, cuts, faults, changes>>
approvalVars == <<machineVars, relayVars, connVars, historyVars>>

\* "waiting": the future is pending; "decided": it is set and the coroutine has
\* not run since; "over": the tool was answered; "lost": the machine stopped;
\* "cut": cancelled while the request was being announced.
CallState == {"none", "waiting", "decided", "over", "lost", "cut"}
\* The reader awaits what it handles: an interrupted turn to be drained, or the
\* session of a room that is let go to be closed.
ReaderState == {"free", "draining", "closing"}
\* tools.approve, and room.settings with it.
Right == {"none", "approve", "settings"}

Answer == [ask : Ask, by : People, allow : BOOLEAN, right : Right]
Order == [kind : {"answer"}, ask : Ask, allow : BOOLEAN]
           \cup [kind : {"interrupt", "unhost"}]
Report == [kind : {"requested", "resolved"}, ask : Ask]
            \cup [kind : {"hosted", "released"}]

ApprovalsTypeOK ==
  /\ call \in [Ask -> CallState]
  /\ author \in [Ask -> People \cup {None}]
  /\ verdict \in [Ask -> BOOLEAN]
  /\ outcome \in [Ask -> {"none", "allowed", "denied"}]
  /\ reader \in ReaderState /\ hosting \in BOOLEAN
  /\ desk \subseteq Ask
  /\ agent \in Conn \cup {None}
  /\ linked \subseteq Conn
  /\ rights \in [People -> Right]
  /\ opened \in 0..MaxConns
  /\ socket \in [Conn -> {"unused", "open", "lost", "closed"}]
  /\ orders \in [Conn -> Seq(Order)]
  /\ reports \in [Conn -> Seq(Report)]
  /\ answers \subseteq Answer
  /\ askedOn \in [Ask -> Conn \cup {None}]
  /\ tookBack \in BOOLEAN
  /\ cuts \in 0..MaxCuts /\ faults \in 0..MaxFaults /\ changes \in 0..MaxChanges

ApprovalsInit ==
  /\ call = [a \in Ask |-> "none"] /\ author = [a \in Ask |-> None]
  /\ verdict = [a \in Ask |-> FALSE] /\ outcome = [a \in Ask |-> "none"]
  /\ reader = "free" /\ hosting = TRUE
  /\ desk = {} /\ agent = None /\ linked = {}
  /\ rights \in [People -> Right]
  /\ opened = 0 /\ socket = [c \in Conn |-> "unused"]
  /\ orders = [c \in Conn |-> <<>>] /\ reports = [c \in Conn |-> <<>>]
  /\ answers = {} /\ askedOn = [a \in Ask |-> None] /\ tookBack = FALSE
  /\ cuts = 0 /\ faults = 0 /\ changes = 0

-----------------------------------------------------------------------------
(* The machine. *)

\* The connection the daemon writes to, if it has one.
Current == {c \in Conn : socket[c] = "open"}

\* Worker._send: without a connection the frame is dropped.
Reported(report) ==
  reports' = [c \in Conn |-> IF c \in Current THEN Append(reports[c], report)
                                              ELSE reports[c]]

\* ApprovalBroker.ask: the call is registered and the request announced.  One turn
\* runs at a time: the calls that wait together have the same author.
Asked(a, p, state) ==
  /\ call[a] = "none"
  /\ \A b \in Ask : b < a => call[b] # "none"
  /\ \A b \in Ask : call[b] \in {"waiting", "decided"} => author[b] = p
  /\ call' = [call EXCEPT ![a] = state]
  /\ author' = [author EXCEPT ![a] = p]
  /\ askedOn' = [askedOn EXCEPT ![a] = IF Current = {} THEN None
                                                      ELSE CHOOSE c \in Current : TRUE]
  /\ Reported([kind |-> "requested", ask |-> a])
  /\ UNCHANGED <<verdict, outcome, reader, hosting, relayVars, opened, socket, orders,
                 answers, tookBack, cuts, faults, changes>>

StartAsk(a, p) == hosting /\ reader # "closing" /\ Asked(a, p, "waiting")

\* The turn is interrupted while the announcement is awaited, before the try: the
\* request is neither forgotten nor resolved.
AskCut(a, p) == reader # "free" /\ Asked(a, p, "cut")

\* ApprovalBroker._settle
Settle(a, allow) ==
  /\ call' = [call EXCEPT ![a] = "over"]
  /\ outcome' = [outcome EXCEPT ![a] = IF allow THEN "allowed" ELSE "denied"]
  /\ Reported([kind |-> "resolved", ask |-> a])
  /\ UNCHANGED <<author, verdict, reader, hosting, relayVars, opened, socket, orders,
                 historyVars>>

\* The coroutine runs with the verdict it was given.
Answered(a) == call[a] = "decided" /\ Settle(a, verdict[a])

\* Faulty variant: silence is consent.
TimedOutAllows(a) == call[a] \in {"waiting", "decided"} /\ Settle(a, TRUE)

\* Faulty variant: the delay runs while the daemon is connected.
TimedOutConnected(a) ==
  call[a] \in {"waiting", "decided"} /\ Current # {} /\ Settle(a, FALSE)

\* The delay is over before the coroutine ran: a refusal, even if the future was
\* set in the meantime (wait_for cancels the coroutine that was about to run).
TimedOut(a) == call[a] \in {"waiting", "decided"} /\ Settle(a, FALSE)

\* The SDK cancels the call of a turn that is interrupted.
Cancelled(a) ==
  /\ call[a] \in {"waiting", "decided"}
  /\ reader # "free"
  /\ Settle(a, FALSE)

\* The daemon's reader takes the next order.
Obey(c, kind) ==
  /\ reader = "free"
  /\ socket[c] = "open"
  /\ orders[c] # <<>> /\ Head(orders[c]).kind = kind
  /\ orders' = [orders EXCEPT ![c] = Tail(@)]

\* RUN_APPROVAL: ApprovalBroker.decide, unless the room was let go.
ObeyAnswer(c) ==
  /\ Obey(c, "answer")
  /\ LET order == Head(orders[c])
         heard == hosting /\ call[order.ask] = "waiting"
     IN  /\ call' = IF heard THEN [call EXCEPT ![order.ask] = "decided"] ELSE call
         /\ verdict' = IF heard THEN [verdict EXCEPT ![order.ask] = order.allow]
                                ELSE verdict
  /\ UNCHANGED <<author, outcome, reader, hosting, relayVars, opened, socket, reports,
                 historyVars>>

\* RUN_INTERRUPT: the reader waits until the turn is drained.
ObeyInterrupt(c) ==
  /\ Obey(c, "interrupt")
  /\ reader' = IF hosting THEN "draining" ELSE reader
  /\ UNCHANGED <<call, author, verdict, outcome, hosting, relayVars, opened, socket,
                 reports, historyVars>>

\* ... or the drain gives up.
Drained ==
  /\ reader = "draining"
  /\ reader' = "free"
  /\ UNCHANGED <<call, author, verdict, outcome, hosting, relayVars, connVars, historyVars>>

\* RUN_UNHOST: the room is let go, and what waits is refused (Hosted.aclose).
ObeyUnhost(c) ==
  /\ Obey(c, "unhost")
  /\ hosting' = FALSE
  /\ reader' = IF hosting THEN "closing" ELSE reader
  /\ call' = [a \in Ask |-> IF call[a] = "waiting" THEN "decided" ELSE call[a]]
  /\ verdict' = [a \in Ask |-> IF call[a] = "waiting" THEN FALSE ELSE verdict[a]]
  /\ UNCHANGED <<author, outcome, relayVars, opened, socket, reports, historyVars>>

\* The session is closed; the relay is told.
Released ==
  /\ reader = "closing"
  /\ \A a \in Ask : call[a] \notin {"waiting", "decided"}
  /\ reader' = "free"
  /\ Reported([kind |-> "released"])
  /\ UNCHANGED <<call, author, verdict, outcome, hosting, relayVars, opened, socket, orders,
                 historyVars>>

-----------------------------------------------------------------------------
(* The relay. *)

Sent(c, order) == IF socket[c] = "open" THEN [orders EXCEPT ![c] = Append(@, order)]
                                        ELSE orders

\* Faulty variant: the desk forgets whoever is unhosted.
UnhostForgetsAll(c) ==
  /\ agent' = IF agent = c THEN None ELSE agent
  /\ desk' = {}

\* Room.unhost: the desk forgets, if it is the host that goes.
Unhost(c) ==
  /\ agent' = IF agent = c THEN None ELSE agent
  /\ desk' = IF agent = c THEN {} ELSE desk

\* _handle_approval: nobody approves the calls of their own turn, but those who
\* may widen the policy anyway.
MayDecide(p, a) ==
  /\ rights[p] # "none"
  /\ author[a] = p => rights[p] = "settings"

\* A participant answers (ApprovalDesk.decide, Room._answer_approval): the request
\* leaves the desk at once, and the answer goes to the agent of the moment.
DecideAsk(p, a, allow) ==
  /\ a \in desk
  /\ MayDecide(p, a)
  /\ desk' = desk \ {a}
  /\ answers' = answers \cup {[ask |-> a, by |-> p, allow |-> allow, right |-> rights[p]]}
  /\ orders' = IF agent = None THEN orders
               ELSE Sent(agent, [kind |-> "answer", ask |-> a, allow |-> allow])
  /\ UNCHANGED <<machineVars, agent, linked, rights, opened, socket, reports, askedOn,
                 tookBack, cuts, faults, changes>>

\* The turn is interrupted, or the room is let go, by an order of the relay.
OrderCut(kind) ==
  /\ cuts < MaxCuts /\ cuts' = cuts + 1
  /\ agent # None
  /\ orders' = Sent(agent, [kind |-> kind])
  /\ UNCHANGED <<machineVars, relayVars, opened, socket, reports, answers, askedOn, tookBack,
                 faults, changes>>

\* The roles of a participant change; they are read again at each answer.
ChangeRight(p, right) ==
  /\ changes < MaxChanges /\ changes' = changes + 1
  /\ rights' = [rights EXCEPT ![p] = right]
  /\ UNCHANGED <<machineVars, desk, agent, linked, connVars, answers, askedOn, tookBack,
                 cuts, faults>>

Read(c, kind) ==
  /\ socket[c] \in {"open", "lost"}
  /\ reports[c] # <<>> /\ Head(reports[c]).kind = kind
  /\ reports' = [reports EXCEPT ![c] = Tail(@)]
  /\ UNCHANGED <<machineVars, rights, opened, socket, orders, answers, askedOn, cuts,
                 faults, changes>>

\* TOOL_APPROVAL_REQUESTED passes by (ApprovalDesk.observe), if the connection
\* has the room.
ReadRequested(c) ==
  /\ Read(c, "requested")
  /\ desk' = IF c \in linked THEN desk \cup {Head(reports[c]).ask} ELSE desk
  /\ UNCHANGED <<agent, linked, tookBack>>

\* TOOL_APPROVAL_RESOLVED passes by.
ReadResolved(c) ==
  /\ Read(c, "resolved")
  /\ desk' = IF c \in linked THEN desk \ {Head(reports[c]).ask} ELSE desk
  /\ UNCHANGED <<agent, linked, tookBack>>

\* AGENT_HOSTED with ok: the room's agent is the link of this connection.
ReadHosted(c) ==
  /\ Read(c, "hosted")
  /\ linked' = linked \cup {c}
  /\ agent' = c
  /\ tookBack' = (tookBack \/ c # opened)
  /\ UNCHANGED desk

\* AGENT_HOSTED without ok.
ReadReleased(c) ==
  /\ Read(c, "released")
  /\ linked' = linked \ {c}
  /\ IF c \in linked THEN Unhost(c) ELSE UNCHANGED <<desk, agent>>
  /\ UNCHANGED tookBack

-----------------------------------------------------------------------------
(* The connections. *)

\* The daemon connects, once its reader is free, and announces its room; the
\* relay unhosts the connection it knew (agent_socket).
Connect ==
  /\ reader = "free"
  /\ opened < MaxConns /\ Current = {}
  /\ opened' = opened + 1
  /\ socket' = [socket EXCEPT ![opened'] = "open"]
  /\ reports' = [reports EXCEPT ![opened'] =
                   IF hosting THEN <<[kind |-> "hosted"]>> ELSE <<>>]
  /\ linked' = linked \ {opened}
  /\ IF opened \in linked THEN Unhost(opened) ELSE UNCHANGED <<desk, agent>>
  /\ UNCHANGED <<machineVars, rights, orders, historyVars>>

Fault == /\ faults < MaxFaults /\ faults' = faults + 1
         /\ UNCHANGED <<answers, askedOn, tookBack, cuts, changes>>

\* A connection is lost, with what the daemon had not read and, maybe, the end
\* of what it had sent.
Lost(c) ==
  /\ socket[c] = "open"
  /\ socket' = [socket EXCEPT ![c] = "lost"]
  /\ orders' = [orders EXCEPT ![c] = <<>>]
  /\ \E n \in 0..Len(reports[c]) : reports' = [reports EXCEPT ![c] = SubSeq(@, 1, n)]

CutConnection(c) ==
  /\ Fault
  /\ Lost(c)
  /\ UNCHANGED <<machineVars, relayVars, opened>>

\* The machine stops with what it was doing, and starts again with the room.
MachineRestarts ==
  /\ Fault
  /\ call' = [a \in Ask |-> IF call[a] \in {"waiting", "decided"} THEN "lost" ELSE call[a]]
  /\ reader' = "free"
  /\ \/ \E c \in Current : Lost(c)
     \/ Current = {} /\ UNCHANGED <<socket, orders, reports>>
  /\ UNCHANGED <<author, verdict, outcome, hosting, relayVars, opened>>

\* The relay finds the socket closed.
Notice(c) ==
  /\ socket[c] = "lost"
  /\ socket' = [socket EXCEPT ![c] = "closed"]
  /\ reports' = [reports EXCEPT ![c] = <<>>]
  /\ linked' = linked \ {c}
  /\ IF c \in linked THEN Unhost(c) ELSE UNCHANGED <<desk, agent>>
  /\ UNCHANGED <<machineVars, rights, opened, orders, historyVars>>

\* The relay restarts: the desk is in its memory only.
RelayRestarts ==
  /\ Fault
  /\ desk' = {} /\ agent' = None /\ linked' = {}
  /\ socket' = [c \in Conn |-> IF socket[c] = "unused" THEN "unused" ELSE "closed"]
  /\ orders' = [c \in Conn |-> <<>>] /\ reports' = [c \in Conn |-> <<>>]
  /\ UNCHANGED <<machineVars, rights, opened>>

-----------------------------------------------------------------------------
Machine == \/ \E a \in Ask : \/ \E p \in People : StartAsk(a, p) \/ AskCut(a, p)
                             \/ Answered(a)
                             \/ TimedOut(a)
                             \/ Cancelled(a)
           \/ \E c \in Conn : ObeyAnswer(c) \/ ObeyInterrupt(c) \/ ObeyUnhost(c)
           \/ Drained
           \/ Released
           \/ MachineRestarts

Relay == \/ \E p \in People, a \in Ask, allow \in BOOLEAN : DecideAsk(p, a, allow)
         \/ \E p \in People, right \in Right : ChangeRight(p, right)
         \/ \E kind \in {"interrupt", "unhost"} : OrderCut(kind)
         \/ \E c \in Conn : \/ ReadRequested(c)
                            \/ ReadResolved(c)
                            \/ ReadHosted(c)
                            \/ ReadReleased(c)
                            \/ Notice(c)
         \/ RelayRestarts

ApprovalsNext == Machine \/ Relay \/ Connect \/ \E c \in Conn : CutConnection(c)

ApprovalsSpec == ApprovalsInit /\ [][ApprovalsNext]_approvalVars

\* Both event loops run what is ready, timers fire (the delay of a call, that of
\* a drain), a lost socket is found out.  Nothing is assumed of people or of
\* the network, and the daemon may stay disconnected.
FairApprovalsSpec ==
  /\ ApprovalsSpec
  /\ \A a \in Ask : WF_approvalVars(Answered(a) \/ TimedOut(a) \/ Cancelled(a))
  /\ \A c \in Conn : /\ WF_approvalVars(Notice(c))
                     /\ WF_approvalVars(\/ ReadRequested(c) \/ ReadResolved(c)
                                        \/ ReadHosted(c) \/ ReadReleased(c))

-----------------------------------------------------------------------------
(* Properties. *)

\* A tool runs only because somebody who could decide said yes while they could,
\* and not the author of the turn: no delay, interruption, restart, reconnection
\* or change of roles turns into consent (agent/approval.py:7-14, server/ws.py:433).
AllowedByRight ==
  \A a \in Ask : outcome[a] = "allowed" =>
    \E w \in answers : /\ w.ask = a /\ w.allow
                       /\ w.right # "none"
                       /\ w.by = author[a] => w.right = "settings"

\* Everything sent was read and every loss noticed, and the machine has nothing
\* left to run but what waits.
Quiet ==
  /\ \A c \in Conn : socket[c] # "lost" /\ orders[c] = <<>> /\ reports[c] = <<>>
  /\ \A a \in Ask : call[a] # "decided"

\* What the desk shows is waiting: no loss leaves a request there that is over
\* (server/approvals.py:116-124); only one cut while it was announced stays.  And who
\* arrives during a request sees it and can answer, as long as the connection it came
\* through lasts, whatever late news of other connections arrives
\* (server/approvals.py:66-72).
DeskIsTrue ==
  Quiet => /\ ~ tookBack => \A a \in desk : call[a] \in {"waiting", "cut"}
           /\ \A a \in Ask :
                (call[a] = "waiting" /\ agent # None /\ askedOn[a] = agent
                   /\ (\A w \in answers : w.ask # a)) => a \in desk

\* A request never hangs: with nobody to answer, it ends (agent/approval.py:9-14).
AskEnds == \A a \in Ask : (call[a] = "waiting") ~> (call[a] # "waiting")

=============================================================================
