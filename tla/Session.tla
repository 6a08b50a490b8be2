------------------------------- MODULE Session -------------------------------
(***************************************************************************)
(* The Claude sessions a daemon keeps for one room, and the settings that  *)
(* reach them (agent/supervisor.py, agent/worker.py).                      *)
(*                                                                         *)
(* Two kinds of task meet here.  The reader of the socket handles one      *)
(* order at a time and awaits what the order takes: opening a session,     *)
(* telling it another model, letting it go.  Turns are tasks of their own: *)
(* a turn that starts after the effort was changed closes the session and  *)
(* opens it again before it asks its question.  Each await lets the other  *)
(* in.  A room that was let go and is hosted again gets a new Hosted,      *)
(* while a task of the former one may still run.                           *)
(*                                                                         *)
(* Interrupts are in Turns, several connections and daemons in Hosting.    *)
(* What the room remembers of its settings (Room.config) and of its        *)
(* conversation is left out: no order carries it to a machine.             *)
(***************************************************************************)
EXTENDS Naturals, Sequences

CONSTANTS Values,    \* models and levels of effort
          Default,   \* "": the CLI chooses
          Keep,      \* the field is absent from the order
          MaxHosts,  \* times the daemon takes the room in charge
          MaxTurns,  \* turns in a behaviour
          MaxChanges, \* orders to change a setting
          MaxFrames, \* frames under way, when another order is given
          Failing    \* a session may be refused, or lost

ASSUME SessionAssumption == /\ Default \in Values /\ Keep \notin Values
                            /\ MaxHosts \in Nat /\ MaxTurns \in Nat /\ MaxChanges \in Nat
                            /\ MaxFrames \in Nat /\ Failing \in BOOLEAN

None == 0
Host == 1..MaxHosts
Turn == 1..MaxTurns
Client == 1..(MaxHosts + MaxTurns)

VARIABLES
  link,     \* the room's AgentLink: "none", "up", "down" (dropped and still there)
  current,  \* the turn it waits for
  sent,     \* how many turns were sent to the daemon
  changes,  \* how many changes of settings
  online,   \* the daemon's socket is open
  orders,   \* frames on their way to the daemon
  hosted,   \* Worker.hosted: the room's Hosted
  reader,   \* the order being handled: what is awaited, for whom, what comes after
  sup,      \* the SessionSupervisor of each Hosted
  job,      \* Hosted.run, of each turn: where it is, with which clients
  client,   \* the ClaudeSDKClients
  known,    \* the turns each conversation kept by the CLI holds
  missed    \* history: settings shown that the open session was not told: changed while
            \* the supervisor had no client, or refused by the session

relayVars == <<link, current, sent, changes, online>>
machineVars == <<hosted, reader, sup, job, client, known, missed>>
sessionVars == <<relayVars, orders, machineVars>>

Reading == [at |-> "reading", of |-> None, with |-> None, effort |-> Keep]

Setting == Values \cup {Keep}
OrderFrame == [kind : {"host", "unhost", "turn", "configure"}, turn : Turn \cup {None},
               model : Setting, effort : Setting]
Reader == [at : {"reading", "opening", "setting", "letting"}, of : Host \cup {None},
           with : Client \cup {None}, effort : Setting]
Supervisor == [model : Values, effort : Values, reopen : BOOLEAN,
               client : Client \cup {None}, sid : Client \cup {None}]
Job == [at : {"none", "preparing", "closing", "opening", "playing", "over"},
        of : Host \cup {None}, client : Client \cup {None}, old : Client \cup {None}]
SDKClient == [state : {"none", "opening", "open", "closed"}, of : Host \cup {None},
              model : Values, effort : Values, conv : Client]

SessionTypeOK ==
  /\ link \in {"none", "up", "down"} /\ online \in BOOLEAN
  /\ current \in Turn \cup {None} /\ sent \in 0..MaxTurns /\ changes \in 0..MaxChanges
  /\ orders \in Seq(OrderFrame)
  /\ hosted \in Host \cup {None} /\ reader \in Reader
  /\ sup \in [Host -> Supervisor] /\ job \in [Turn -> Job]
  /\ client \in [Client -> SDKClient]
  /\ known \in [Client -> SUBSET Turn]
  /\ missed \in [Host -> SUBSET {"model", "effort"}]

SessionInit ==
  /\ link = "none" /\ current = None /\ sent = 0 /\ changes = 0 /\ online = TRUE
  /\ orders = <<>>
  /\ hosted = None /\ reader = Reading
  /\ sup = [h \in Host |-> [model |-> Default, effort |-> Default, reopen |-> FALSE,
                            client |-> None, sid |-> None]]
  /\ job = [t \in Turn |-> [at |-> "none", of |-> None, client |-> None, old |-> None]]
  /\ client = [c \in Client |-> [state |-> "none", of |-> None, model |-> Default,
                                 effort |-> Default, conv |-> c]]
  /\ known = [c \in Client |-> {}]
  /\ missed = [h \in Host |-> {}]

-----------------------------------------------------------------------------
(* The relay.                                                              *)

Order(kind, turn, model, effort) ==
  /\ online
  /\ Len(orders) < MaxFrames
  /\ orders' = Append(orders, [kind |-> kind, turn |-> turn, model |-> model, effort |-> effort])
  /\ UNCHANGED machineVars

\* Daemon.host and Daemon.unhost: asked for by an owner, or by the relay when
\* the daemon says hello.
AskHost == Order("host", None, Keep, Keep) /\ UNCHANGED relayVars
AskUnhost == Order("unhost", None, Keep, Keep) /\ UNCHANGED relayVars

\* session.configure -> Room.configure -> AgentLink.configure; an order with
\* neither field is refused.
Configure(model, effort) ==
  /\ model # Keep \/ effort # Keep
  /\ link = "up"
  /\ changes < MaxChanges /\ changes' = changes + 1
  /\ Order("configure", None, model, effort)
  /\ UNCHANGED <<link, current, sent, online>>

\* AgentLink.run_turn: one turn at a time on a link.
SendTurn(t) ==
  /\ link = "up" /\ current = None
  /\ t = sent + 1
  /\ Order("turn", t, Keep, Keep)
  /\ current' = t /\ sent' = t
  /\ UNCHANGED <<link, changes, online>>

\* AGENT_HOSTED, refused or accepted, and AGENT_DONE: nothing is sent without a
\* socket.  Attaching the link the room already has drops it, and a link that is
\* dropped frees its turn.
Tell(kind, turn) ==
  /\ link' = CASE ~ online -> link
               [] online /\ kind = "hosted" -> IF link = "none" THEN "up" ELSE "down"
               [] online /\ kind = "released" -> "none"
               [] online /\ kind = "done" -> link
  /\ current' = IF link' # "up" \/ (kind = "done" /\ turn = current) THEN None ELSE current
  /\ UNCHANGED <<sent, changes, online>>

\* The connection breaks: what was on its way is lost and the relay lets go of
\* the link and of its turn.
Disconnected ==
  /\ online' = FALSE /\ link' = "none" /\ current' = None
  /\ orders' = <<>> /\ UNCHANGED <<sent, changes>>

\* ... because of the network,
ConnectionLost == online /\ Disconnected /\ UNCHANGED machineVars

\* Worker._session: connected again once the order in hand is done with.  What
\* is hosted is announced.
Reconnect ==
  /\ ~ online /\ reader = Reading
  /\ online' = TRUE
  /\ link' = IF hosted # None THEN "up" ELSE "none"
  /\ UNCHANGED <<current, sent, changes, orders, machineVars>>

-----------------------------------------------------------------------------
(* The session of a Hosted.                                                *)

Fresh(c) == client[c].state = "none" /\ \A d \in Client : d < c => client[d].state # "none"

\* A client that is disconnected, or dead, can be asked nothing more.
Shut(c) == [state |-> "closed", of |-> client[c].of, model |-> Default,
            effort |-> Default, conv |-> c]

\* A session was opened for h, or refused.
Made(h) == \E c \in Client : client[c].of = h

\* A turn of h is past the check of the lock.
Busy(h) == \E t \in Turn : job[t].of = h /\ job[t].at \in {"closing", "opening", "playing"}

\* The turn t is being answered by the session c.
Answers(c, t) == job[t].at = "playing" /\ job[t].client = c /\ client[c].state = "open"

\* Faulty variant: the options do not ask for the conversation.
OptionsForget(h, c) == [state |-> "opening", of |-> h, model |-> sup[h].model,
                        effort |-> sup[h].effort, conv |-> c]

\* _build_options: the settings of this moment, and the conversation to resume;
\* without one the CLI begins another.
Options(h, c) == [state |-> "opening", of |-> h, model |-> sup[h].model,
                  effort |-> sup[h].effort,
                  conv |-> IF sup[h].sid = None THEN c ELSE sup[h].sid]

\* The reader raises: the exception leaves Worker._session, whose socket closes.
ReaderRaises == reader' = Reading /\ Disconnected

\* The next order, read when the one before is done with.
Takes(kind) == /\ online /\ reader = Reading
               /\ orders # <<>> /\ Head(orders).kind = kind
               /\ orders' = Tail(orders)

\* RUN_HOST: confirmed if the room is hosted, else a Hosted is made and opens.
ReadHost ==
  /\ Takes("host")
  /\ UNCHANGED <<hosted, sup, job, known, missed>>
  /\ \/ /\ hosted # None
        /\ Tell("hosted", None)
        /\ UNCHANGED <<reader, client>>
     \/ /\ hosted = None
        /\ \E h \in Host, c \in Client :
             /\ ~ Made(h) /\ \A i \in Host : i < h => Made(i)
             /\ Fresh(c)
             /\ client' = [client EXCEPT ![c] = Options(h, c)]
             /\ reader' = [at |-> "opening", of |-> h, with |-> c, effort |-> Keep]
        /\ UNCHANGED relayVars

\* SessionSupervisor.start returns: the room is hosted.
HostOpens ==
  /\ reader.at = "opening"
  /\ client' = [client EXCEPT ![reader.with].state = "open"]
  /\ sup' = [sup EXCEPT ![reader.of].client = reader.with]
  /\ hosted' = reader.of
  /\ reader' = Reading
  /\ Tell("hosted", None)
  /\ UNCHANGED <<orders, job, known, missed>>

\* ... or raises: the room is refused.
HostRefused ==
  /\ Failing
  /\ reader.at = "opening"
  /\ client' = [client EXCEPT ![reader.with] = Shut(reader.with)]
  /\ reader' = Reading
  /\ Tell("released", None)
  /\ UNCHANGED <<orders, hosted, sup, job, known, missed>>

\* RUN_UNHOST: the room is forgotten, then Hosted.aclose.
ReadUnhost ==
  /\ Takes("unhost")
  /\ hosted' = None
  /\ reader' = IF hosted = None THEN Reading
               ELSE [Reading EXCEPT !.at = "letting", !.of = hosted]
  /\ UNCHANGED <<relayVars, sup, job, client, known, missed>>

\* Its turn was interrupted and is over, or thirty seconds have passed:
\* SessionSupervisor.stop, which finds no client while a turn reopens it.
LetGo ==
  /\ reader.at = "letting"
  /\ LET c == sup[reader.of].client
     IN  client' = IF c = None THEN client ELSE [client EXCEPT ![c] = Shut(c)]
  /\ sup' = [sup EXCEPT ![reader.of].client = None]
  /\ reader' = Reading
  /\ Tell("released", None)
  /\ UNCHANGED <<orders, hosted, job, known, missed>>

\* The interrupt raises: the session is dead, or refuses it, or does not answer in
\* time.  It is not disconnected.
LetGoRaises ==
  /\ reader.at = "letting"
  /\ \E t \in Turn : /\ job[t].of = reader.of /\ job[t].at = "playing"
                     /\ job[t].client = sup[reader.of].client
                     /\ job[t].client # None
                     /\ Failing \/ client[job[t].client].state # "open"
  /\ ReaderRaises
  /\ UNCHANGED <<hosted, sup, job, client, known, missed>>

-----------------------------------------------------------------------------
(* Settings.                                                               *)

\* Faulty variant: the session is not marked for reopening.
ChangeEffortOnly(s, effort) ==
  IF effort \in {Keep, s.effort} THEN s ELSE [s EXCEPT !.effort = effort]

\* configure, the effort: the session is reopened at the next turn, if there is one.
ChangeEffort(s, effort) ==
  IF effort \in {Keep, s.effort} THEN s
  ELSE [s EXCEPT !.effort = effort, !.reopen = s.client # None]

\* What a change leaves behind when the supervisor has no client to tell.
Missing(s, new, field, was) ==
  IF new = s[field] \/ new = Keep THEN was
  ELSE IF s.client = None THEN was \cup {field} ELSE was \ {field}

\* RUN_CONFIGURE: another model is told to the session, which is awaited; else
\* the effort is changed at once.
ReadConfigure ==
  /\ Takes("configure")
  /\ UNCHANGED <<relayVars, hosted, job, client, known>>
  /\ LET order == Head(orders)
         h     == hosted
     IN  \/ h = None /\ UNCHANGED <<reader, sup, missed>>
         \/ LET s     == sup[h]
                other == order.model \notin {Keep, s.model}
                mine  == Missing(s, order.model, "model", missed[h])
                told  == IF other THEN [s EXCEPT !.model = order.model] ELSE s
            IN  /\ h # None
                /\ \/ /\ other /\ s.client # None
                      /\ sup' = [sup EXCEPT ![h] = told]
                      /\ missed' = [missed EXCEPT ![h] = mine]
                      /\ reader' = [at |-> "setting", of |-> h, with |-> s.client,
                                  effort |-> order.effort]
                   \/ /\ ~ other \/ s.client = None
                      /\ sup' = [sup EXCEPT ![h] = ChangeEffort(told, order.effort)]
                      /\ missed' = [missed EXCEPT ![h] =
                                      Missing(told, order.effort, "effort", mine)]
                      /\ UNCHANGED reader

\* set_model(): the client it was asked of has it; then the effort.
ModelSet ==
  /\ reader.at = "setting" /\ client[reader.with].state = "open"
  /\ client' = [client EXCEPT ![reader.with].model = sup[reader.of].model]
  /\ sup' = [sup EXCEPT ![reader.of] = ChangeEffort(@, reader.effort)]
  /\ missed' = [missed EXCEPT ![reader.of] =
                  Missing(sup[reader.of], reader.effort, "effort", @)]
  /\ reader' = Reading
  /\ UNCHANGED <<relayVars, orders, hosted, job, known>>

\* It raises when that client is closed by a turn, or lost: the effort is not changed.
ModelSetRaises ==
  /\ reader.at = "setting" /\ client[reader.with].state # "open"
  /\ ReaderRaises
  /\ UNCHANGED <<hosted, sup, job, client, known, missed>>

\* An open session refuses the model, or does not answer in time, though it may have
\* taken it: the supervisor goes on showing the model, and an order to set the same
\* one again does nothing.  The effort is not changed.
ModelRefused ==
  /\ Failing
  /\ reader.at = "setting" /\ client[reader.with].state = "open"
  /\ \/ UNCHANGED client
     \/ client' = [client EXCEPT ![reader.with].model = sup[reader.of].model]
  /\ missed' = [missed EXCEPT ![reader.of] = @ \cup {"model"}]
  /\ ReaderRaises
  /\ UNCHANGED <<hosted, sup, job, known>>

-----------------------------------------------------------------------------
(* Turns.                                                                  *)

\* RUN_TURN: a task, for the Hosted of this moment.
ReadTurn ==
  /\ Takes("turn")
  /\ job' = IF hosted = None THEN job
            ELSE [job EXCEPT ![Head(orders).turn].at = "preparing",
                             ![Head(orders).turn].of = hosted]
  /\ UNCHANGED <<relayVars, hosted, reader, sup, client, known, missed>>

\* run_turn raises, or has nothing more to do: AGENT_DONE in any case.
Over(t) == /\ job' = [job EXCEPT ![t] = [at |-> "over", of |-> @.of,
                                         client |-> None, old |-> None]]
           /\ Tell("done", t)

\* No session (it was let go, or is being reopened), or another turn still plays.
TurnRefused(t) ==
  /\ job[t].at = "preparing"
  /\ sup[job[t].of].client = None \/ Busy(job[t].of)
  /\ Over(t)
  /\ UNCHANGED <<orders, hosted, reader, sup, client, known, missed>>

\* Faulty variant: the lock is not looked at.
MayStartAnyway(t) == job[t].at = "preparing" /\ sup[job[t].of].client # None

\* run_turn: there is a session and nobody plays.
MayStart(t) == /\ job[t].at = "preparing"
               /\ sup[job[t].of].client # None
               /\ ~ Busy(job[t].of)

\* The question is put to the session as it is.
Ask(t) ==
  /\ MayStart(t) /\ ~ sup[job[t].of].reopen
  /\ job' = [job EXCEPT ![t].at = "playing", ![t].client = sup[job[t].of].client]
  /\ UNCHANGED <<relayVars, orders, hosted, reader, sup, client, known, missed>>

\* _reopen_session: the former client is put aside and disconnected,
Reopen(t) ==
  /\ MayStart(t) /\ sup[job[t].of].reopen
  /\ LET h   == job[t].of
         old == sup[h].client
     IN  /\ sup' = [sup EXCEPT ![h].reopen = FALSE, ![h].client = None]
         /\ job' = [job EXCEPT ![t].at = "closing", ![t].old = old]
         /\ client' = [client EXCEPT ![old] = Shut(old)]
  /\ UNCHANGED <<relayVars, orders, hosted, reader, known, missed>>

\* another is made, with the settings of this moment,
Closed(t) ==
  /\ job[t].at = "closing"
  /\ \E c \in Client :
       /\ Fresh(c)
       /\ client' = [client EXCEPT ![c] = Options(job[t].of, c)]
       /\ job' = [job EXCEPT ![t].at = "opening", ![t].client = c]
  /\ missed' = [missed EXCEPT ![job[t].of] = {}]
  /\ UNCHANGED <<relayVars, orders, hosted, reader, sup, known>>

\* and is the session from then on,
Reopened(t) ==
  /\ job[t].at = "opening"
  /\ client' = [client EXCEPT ![job[t].client].state = "open"]
  /\ sup' = [sup EXCEPT ![job[t].of].client = job[t].client]
  /\ job' = [job EXCEPT ![t].at = "playing"]
  /\ UNCHANGED <<relayVars, orders, hosted, reader, known, missed>>

\* or fails to open (or the former to close, with the same outcome): the former one is
\* put back, disconnected as it is.
ReopenFails(t) ==
  /\ Failing
  /\ job[t].at = "opening"
  /\ client' = [client EXCEPT ![job[t].client] = Shut(job[t].client)]
  /\ sup' = [sup EXCEPT ![job[t].of].client = job[t].old]
  /\ job' = [job EXCEPT ![t].at = "playing", ![t].client = job[t].old]
  /\ UNCHANGED <<relayVars, orders, hosted, reader, known, missed>>

\* The first message of an answer says which conversation it belongs to,
Ready(t) ==
  /\ job[t].at = "playing" /\ client[job[t].client].state = "open"
  /\ sup' = [sup EXCEPT ![job[t].of].sid = client[job[t].client].conv]
  /\ UNCHANGED <<relayVars, orders, hosted, reader, job, client, known, missed>>

\* ... and so does the last.  The turn ends; one whose session is not open fails.
EndTurn(t) ==
  /\ job[t].at = "playing"
  /\ Over(t)
  /\ LET c == client[job[t].client]
     IN  \/ /\ c.state = "open"
            /\ known' = [known EXCEPT ![c.conv] = @ \cup {t}]
            /\ sup' = [sup EXCEPT ![job[t].of].sid = c.conv]
         \/ /\ c.state # "open"
            /\ UNCHANGED <<known, sup>>
  /\ UNCHANGED <<orders, hosted, reader, client, missed>>

\* The CLI dies while it answers: the stream ends without a result.
SessionLost(c) ==
  /\ Failing
  /\ \E t \in Turn : Answers(c, t)
  /\ client' = [client EXCEPT ![c] = Shut(c)]
  /\ UNCHANGED <<relayVars, orders, hosted, reader, sup, job, known, missed>>

-----------------------------------------------------------------------------
SessionNext ==
  \/ AskHost \/ AskUnhost
  \/ ConnectionLost \/ Reconnect
  \/ \E model, effort \in Setting : Configure(model, effort)
  \/ ReadHost \/ ReadUnhost \/ ReadConfigure \/ ReadTurn
  \/ HostOpens \/ HostRefused \/ LetGo \/ LetGoRaises
  \/ ModelSet \/ ModelSetRaises \/ ModelRefused
  \/ \E c \in Client : SessionLost(c)
  \/ \E t \in Turn : \/ SendTurn(t)
                     \/ TurnRefused(t)
                     \/ Ask(t)
                     \/ Reopen(t)
                     \/ Closed(t)
                     \/ Reopened(t)
                     \/ ReopenFails(t)
                     \/ Ready(t)
                     \/ EndTurn(t)

SessionSpec == SessionInit /\ [][SessionNext]_sessionVars

-----------------------------------------------------------------------------
(* Properties. *)

\* Nobody's answer is cut by a setting, or by a later turn that was accepted
\* after a reconnection and would reopen the session under it: a session that
\* answers is closed only to let the room go (agent/supervisor.py:249-253, 325-328).
NobodysAnswerIsCut ==
  [][\A c \in Client, t \in Turn :
       Answers(c, t) /\ client[c].state' = "closed" => LetGo \/ SessionLost(c)]_sessionVars

\* However often the session was reopened, and whichever reopenings failed, who
\* answers remembers every turn this hosting has answered
\* (agent/supervisor.py:120-123, 269-271).
OneMemory ==
  \A c \in Client, t \in Turn : Answers(c, t) =>
    \A u \in Turn : job[u].of = job[t].of /\ (\E d \in Client : u \in known[d])
                      => u \in known[client[c].conv]

\* An open session has the settings its supervisor shows, or will have them: the
\* model is being told, the effort waits for the next turn.  The exceptions are what was
\* changed while it was being reopened and a model it refused; they end with the next
\* change, or the next reopening (agent/supervisor.py:240-263).
SettingsTake ==
  \A h \in Host : LET s == sup[h]
                      c == client[s.client]
                  IN  s.client # None /\ c.state = "open" =>
    /\ c.model = s.model \/ "model" \in missed[h] \/ (reader.at = "setting" /\ reader.of = h)
    /\ c.effort = s.effort \/ "effort" \in missed[h] \/ s.reopen

=============================================================================
