----------------------------- MODULE SessionProofs -----------------------------
(***************************************************************************)
(* Theorems about Session, for any number of hostings, turns and changes:  *)
(* types, the memory of a conversation, the settings of a session and the  *)
(* answers nobody cuts.                                                    *)
(***************************************************************************)
EXTENDS Session, TLAPS

(* The inductive invariant. *)

\* A task that opens c: the reader, for a room taken in charge, or a turn.
Opener(c) == \/ reader.at = "opening" /\ reader.with = c
             \/ \E t \in Turn : job[t].at = "opening" /\ job[t].client = c

\* c answers, or is about to; t is past the check of the lock.
Live(c) == client[c].state \in {"opening", "open"}
InHand(t) == job[t].at \in {"closing", "opening", "playing"}

\* A session that is open is the one its Hosted shows.  One that is being opened is
\* shown by nobody, and somebody opens it.
Clients ==
  \A c \in Client :
    /\ client[c].state = "none" <=> client[c].of = None
    /\ client[c].state = "open" => sup[client[c].of].client = c
    /\ client[c].state = "opening" => sup[client[c].of].client = None /\ Opener(c)

\* What a Hosted shows was opened for it, and may be dead.
Supervisors ==
  \A h \in Host : sup[h].client # None =>
    /\ client[sup[h].client].of = h
    /\ client[sup[h].client].state \in {"open", "closed"}

\* One turn of a Hosted is past the check of the lock; while it reopens the session
\* nothing is shown.
Jobs ==
  /\ hosted # None => Made(hosted)
  /\ \A t \in Turn :
       /\ job[t].at = "none" <=> job[t].of = None
       /\ job[t].at # "none" => Made(job[t].of)
       /\ job[t].at \in {"closing", "opening"} =>
            /\ sup[job[t].of].client = None
            /\ job[t].old # None
            /\ client[job[t].old].of = job[t].of /\ client[job[t].old].state = "closed"
       /\ job[t].at = "opening" =>
            /\ job[t].client # None
            /\ client[job[t].client].of = job[t].of /\ client[job[t].client].state = "opening"
       /\ job[t].at = "playing" =>
            /\ job[t].client # None
            /\ client[job[t].client].of = job[t].of
            /\ client[job[t].client].state \in {"open", "closed"}
       /\ \A u \in Turn : InHand(t) /\ InHand(u) /\ job[t].of = job[u].of => t = u

\* The reader handles an order for a Hosted.  One that opens has no turn yet.
Readers ==
  /\ reader.at = "reading" => reader = Reading
  /\ reader.at # "reading" => reader.of # None
  /\ reader.at \in {"opening", "setting"} =>
       reader.with # None /\ client[reader.with].of = reader.of
  /\ reader.at = "opening" =>
       /\ client[reader.with].state = "opening"
       /\ \A t \in Turn : job[t].of # reader.of
  /\ reader.at = "setting" => client[reader.with].state \in {"open", "closed"}

\* An order is for a turn that has not begun, and for one turn once.
Orders ==
  /\ \A i \in DOMAIN orders : orders[i].kind = "turn" =>
       /\ orders[i].turn # None /\ orders[i].turn <= sent
       /\ job[orders[i].turn].at = "none"
       /\ \A j \in DOMAIN orders : orders[j].kind = "turn" /\ orders[j].turn = orders[i].turn => i = j
  /\ \A t \in Turn : job[t].at # "none" => t <= sent

\* Every turn that was answered is in the conversation its Hosted resumes, and who
\* answers for it, or is about to, has that conversation.
Memory ==
  /\ \A d \in Client : \A u \in known[d] :
       /\ job[u].at = "over"
       /\ sup[job[u].of].sid # None /\ u \in known[sup[job[u].of].sid]
  /\ \A c \in Client : Live(c) => sup[client[c].of].sid \in {None, client[c].conv}

\* Every session that answers, or is about to, has its settings or will have them.
Settings ==
  \A c \in Client : Live(c) =>
    LET h == client[c].of
    IN  /\ \/ client[c].model = sup[h].model
           \/ "model" \in missed[h]
           \/ reader.at = "setting" /\ reader.of = h /\ reader.with = c
        /\ client[c].effort = sup[h].effort \/ "effort" \in missed[h] \/ sup[h].reopen

Inv == /\ SessionTypeOK /\ Clients /\ Supervisors /\ Jobs
       /\ Readers /\ Orders /\ Memory /\ Settings

-----------------------------------------------------------------------------
(* Types, and what a change of one entry leaves of the others. *)

LEMMA Numbers == None \notin Host /\ None \notin Turn /\ None \notin Client
BY DEF None, Host, Turn, Client

LEMMA TellTypes ==
  ASSUME SessionTypeOK, NEW kind \in {"hosted", "released", "done"}, NEW turn, Tell(kind, turn)
  PROVE  link' \in {"none", "up", "down"} /\ current' \in Turn \cup {None}
         /\ sent' = sent /\ changes' = changes /\ online' = online
<1>1. link' \in {"none", "up", "down"}
  BY DEF Tell, SessionTypeOK
<1> QED BY <1>1 DEF Tell, SessionTypeOK

LEMMA TakesTypes ==
  ASSUME SessionTypeOK, NEW kind, Takes(kind)
  PROVE  /\ orders' \in Seq(OrderFrame) /\ Head(orders) \in OrderFrame /\ Head(orders).kind = kind
         /\ orders # <<>> /\ reader = Reading /\ orders' = Tail(orders)
BY DEF Takes, SessionTypeOK

LEMMA SupStep ==
  ASSUME SessionTypeOK, NEW h \in Host, NEW s \in Supervisor, sup' = [sup EXCEPT ![h] = s]
  PROVE  sup' \in [Host -> Supervisor]
         /\ \A i \in Host : sup'[i] = IF i = h THEN s ELSE sup[i]
BY DEF SessionTypeOK

LEMMA ClientStep ==
  ASSUME SessionTypeOK, NEW c \in Client, NEW s \in SDKClient, client' = [client EXCEPT ![c] = s]
  PROVE  client' \in [Client -> SDKClient]
         /\ \A i \in Client : client'[i] = IF i = c THEN s ELSE client[i]
BY DEF SessionTypeOK

LEMMA JobStep ==
  ASSUME SessionTypeOK, NEW t \in Turn, NEW s \in Job, job' = [job EXCEPT ![t] = s]
  PROVE  job' \in [Turn -> Job]
         /\ \A i \in Turn : job'[i] = IF i = t THEN s ELSE job[i]
BY DEF SessionTypeOK

LEMMA Fields == ASSUME SessionTypeOK PROVE
  /\ \A h \in Host : /\ sup[h].client \in Client \cup {None} /\ sup[h].sid \in Client \cup {None}
                     /\ sup[h].model \in Values /\ sup[h].effort \in Values /\ sup[h].reopen \in BOOLEAN
                     /\ sup[h] \in Supervisor
  /\ \A c \in Client : /\ client[c].of \in Host \cup {None} /\ client[c].conv \in Client
                       /\ client[c].model \in Values /\ client[c].effort \in Values
                       /\ client[c].state \in {"none", "opening", "open", "closed"}
                       /\ client[c] \in SDKClient
  /\ \A t \in Turn : /\ job[t].of \in Host \cup {None} /\ job[t].client \in Client \cup {None}
                     /\ job[t].old \in Client \cup {None}
                     /\ job[t].at \in {"none", "preparing", "closing", "opening", "playing", "over"}
                     /\ job[t] \in Job
  /\ reader.of \in Host \cup {None} /\ reader.with \in Client \cup {None} /\ reader.effort \in Setting
  /\ reader.at \in {"reading", "opening", "setting", "letting"}
<1> USE DEF SessionTypeOK
<1>1. \A h \in Host : sup[h] \in Supervisor
  OBVIOUS
<1>2. \A c \in Client : client[c] \in SDKClient
  OBVIOUS
<1>3. \A t \in Turn : job[t] \in Job
  OBVIOUS
<1> QED BY <1>1, <1>2, <1>3 DEF Supervisor, SDKClient, Job, Reader

\* Who owns what: a client, a turn and a turn that was answered have a Hosted.
LEMMA Owned == ASSUME Inv PROVE
  /\ \A c \in Client : client[c].state # "none" => client[c].of \in Host
  /\ \A t \in Turn : job[t].at # "none" => job[t].of \in Host
  /\ \A d \in Client : \A u \in known[d] : u \in Turn /\ job[u].at = "over" /\ job[u].of \in Host
                                           /\ sup[job[u].of].sid \in Client
<1>1. \A c \in Client : client[c].state # "none" => client[c].of \in Host
  BY Fields DEF Inv, Clients
<1>2. \A t \in Turn : job[t].at # "none" => job[t].of \in Host
  BY Fields DEF Inv, Jobs
<1>3. \A d \in Client : \A u \in known[d] : u \in Turn
  BY DEF Inv, SessionTypeOK
<1>4. \A d \in Client : \A u \in known[d] : job[u].at = "over" /\ sup[job[u].of].sid # None
  BY DEF Inv, Memory
<1>5. \A d \in Client : \A u \in known[d] : job[u].of \in Host
  BY <1>2, <1>3, <1>4
<1>6. \A d \in Client : \A u \in known[d] : sup[job[u].of].sid \in Client
  BY <1>4, <1>5, Fields DEF Inv
<1> QED BY <1>1, <1>2, <1>3, <1>4, <1>5, <1>6

-----------------------------------------------------------------------------
(* Steps of the relay and of the reader. *)

LEMMA HostOpensKeeps == ASSUME Inv, HostOpens PROVE Inv'
<1> DEFINE h == reader.of
           c == reader.with
<1>1. h \in Host /\ c \in Client /\ client[c].of = h /\ client[c].state = "opening"
      /\ sup[h].client = None /\ \A t \in Turn : job[t].of # h
  BY Fields, Numbers DEF HostOpens, Inv, Readers, Clients
<1>2. /\ client' \in [Client -> SDKClient]
      /\ \A d \in Client : client'[d] = IF d = c THEN [client[c] EXCEPT !.state = "open"] ELSE client[d]
  BY <1>1, Fields, ClientStep DEF HostOpens, Inv, SDKClient
<1>3. /\ sup' \in [Host -> Supervisor]
      /\ \A i \in Host : sup'[i] = IF i = h THEN [sup[h] EXCEPT !.client = c] ELSE sup[i]
  <2>1. SessionTypeOK /\ sup[h] \in Supervisor
    BY <1>1, Fields DEF Inv
  <2>2. [sup[h] EXCEPT !.client = c] \in Supervisor
    BY <1>1, <2>1 DEF Supervisor
  <2>3. sup' = [sup EXCEPT ![h] = [sup[h] EXCEPT !.client = c]]
    BY DEF HostOpens
  <2> QED BY <1>1, <2>1, <2>2, <2>3, SupStep
<1>4. UNCHANGED <<orders, job, known, missed>> /\ hosted' = h /\ reader' = Reading
  BY DEF HostOpens
<1>5. SessionTypeOK'
  <2>1. reader' \in Reader
    BY <1>4 DEF Reading, Reader, Setting
  <2> QED BY <1>1, <1>2, <1>3, <1>4, <2>1, TellTypes DEF HostOpens, Inv, SessionTypeOK
<1>6. /\ client'[c].state = "open" /\ client'[c].of = h
      /\ \A d \in Client : /\ client'[d].of = client[d].of /\ client'[d].conv = client[d].conv
                           /\ client'[d].model = client[d].model
                           /\ client'[d].effort = client[d].effort
                           /\ d # c => client'[d] = client[d]
  BY <1>1, <1>2, Fields DEF Inv, SDKClient
<1>7. /\ sup'[h].client = c
      /\ \A i \in Host : /\ sup'[i].sid = sup[i].sid /\ sup'[i].model = sup[i].model
                         /\ sup'[i].effort = sup[i].effort /\ sup'[i].reopen = sup[i].reopen
                         /\ i # h => sup'[i] = sup[i]
  BY <1>1, <1>3, Fields DEF Inv, Supervisor
<1> HIDE DEF h, c
<1>8. \A d \in Client : client[d].state = "opening" /\ client[d].of = h => d = c
  BY <1>1, Fields DEF Inv, Clients, Opener, Jobs, h, c
<1>9. Clients'
  BY <1>1, <1>4, <1>6, <1>7, <1>8, Fields, Numbers DEF Inv, Clients, Opener, Jobs
<1>10. Supervisors'
  BY <1>1, <1>6, <1>7, Fields, Numbers DEF Inv, Supervisors
<1>11. Jobs'
  BY <1>1, <1>4, <1>6, <1>7, Fields, Numbers DEF Inv, Jobs, Made, InHand
<1>12. Readers'
  BY <1>4 DEF Readers, Reading
<1>13. Orders'
  BY <1>4, TellTypes DEF HostOpens, Inv, Orders
<1>14. Memory'
  <2>1. \A d \in Client : \A u \in known[d] :
          sup'[job[u].of].sid = sup[job[u].of].sid
    BY <1>7, Owned
  <2>2. \A d \in Client : Live(d)' => Live(d) /\ sup'[client'[d].of].sid = sup[client[d].of].sid
    BY <1>1, <1>6, <1>7, Owned DEF Live
  <2> QED BY <1>4, <1>6, <2>1, <2>2 DEF Inv, Memory
<1>15. Settings'
  <2>1. \A d \in Client : Live(d)' => Live(d) /\ client[d].of \in Host
    BY <1>1, <1>6, Owned DEF Live
  <2>2. reader.at = "opening"
    BY DEF HostOpens
  <2> QED BY <1>4, <1>6, <1>7, <2>1, <2>2 DEF Inv, Settings
<1> QED BY <1>5, <1>9, <1>10, <1>11, <1>12, <1>13, <1>14, <1>15 DEF Inv

LEMMA TurnsOrdered ==
  ASSUME Inv PROVE \A i \in DOMAIN orders : orders[i] \in OrderFrame
                     /\ (orders[i].kind = "turn" => orders[i].turn \in Turn)
<1>1. \A i \in DOMAIN orders : orders[i] \in OrderFrame
  BY DEF Inv, SessionTypeOK
<1>2. \A i \in DOMAIN orders : orders[i].turn \in Turn \cup {None}
  BY <1>1 DEF OrderFrame
<1>3. \A i \in DOMAIN orders : orders[i].kind = "turn" => orders[i].turn # None
  BY DEF Inv, Orders
<1> QED BY <1>1, <1>2, <1>3

\* A step that changes nothing on the machine.
LEMMA RelayKeeps ==
  ASSUME Inv, UNCHANGED machineVars, SessionTypeOK', Orders'
  PROVE  Inv'
<1> USE DEF machineVars
<1>1. Clients' /\ Supervisors' /\ Jobs' /\ Readers' /\ Memory' /\ Settings'
  BY DEF Inv, Clients, Supervisors, Jobs, Readers, Memory, Settings, Opener, Made, InHand,
         Live, Reading
<1> QED BY <1>1 DEF Inv

LEMMA OrderKeeps ==
  ASSUME Inv, NEW kind \in {"host", "unhost", "configure"},
         NEW model \in Setting, NEW effort \in Setting,
         Order(kind, None, model, effort), UNCHANGED <<link, current, sent, online>>,
         changes' \in 0..MaxChanges
  PROVE  Inv'
<1> DEFINE frame == [kind |-> kind, turn |-> None, model |-> model, effort |-> effort]
<1>1. orders' = Append(orders, frame) /\ UNCHANGED machineVars
  BY DEF Order
<1>2. frame \in OrderFrame /\ frame.kind # "turn"
  BY DEF OrderFrame, None, Turn
<1>3. orders \in Seq(OrderFrame)
  BY DEF Inv, SessionTypeOK
<1> HIDE DEF frame
<1>4. SessionTypeOK'
  <2>1. orders' \in Seq(OrderFrame)
    BY <1>1, <1>2, <1>3
  <2> QED BY <1>1, <2>1 DEF Inv, SessionTypeOK, machineVars
<1>5. Orders'
  <2>1. \A i \in DOMAIN orders' : orders'[i].kind = "turn" =>
          i \in DOMAIN orders /\ orders'[i] = orders[i]
    BY <1>1, <1>2, <1>3
  <2> QED BY <1>1, <2>1 DEF Inv, Orders, machineVars
<1> QED BY <1>1, <1>4, <1>5, RelayKeeps

LEMMA SendTurnKeeps == ASSUME Inv, NEW t \in Turn, SendTurn(t) PROVE Inv'
<1> DEFINE frame == [kind |-> "turn", turn |-> t, model |-> Keep, effort |-> Keep]
<1>1. orders' = Append(orders, frame) /\ UNCHANGED machineVars
  BY DEF SendTurn, Order
<1>2. frame \in OrderFrame /\ frame.kind = "turn" /\ frame.turn = t
  BY DEF OrderFrame, Setting
<1>3. orders \in Seq(OrderFrame)
  BY DEF Inv, SessionTypeOK
<1> HIDE DEF frame
<1>4. sent \in Nat /\ t = sent + 1 /\ sent' = t /\ sent' \in 0..MaxTurns
  BY SessionAssumption DEF SendTurn, Inv, SessionTypeOK, Turn
<1>5. SessionTypeOK'
  <2>1. orders' \in Seq(OrderFrame)
    BY <1>1, <1>2, <1>3
  <2> QED BY <1>1, <1>4, <2>1 DEF SendTurn, Inv, SessionTypeOK, machineVars
<1>6. job[t].at = "none"
  BY <1>4, Fields DEF Inv, Orders
<1>7. Orders'
  <2>1. \A i \in DOMAIN orders' : \/ i \in DOMAIN orders /\ orders'[i] = orders[i]
                                  \/ i \notin DOMAIN orders /\ i = Len(orders) + 1
                                     /\ orders'[i] = frame
    <3>1. Len(orders') = Len(orders) + 1 /\ DOMAIN orders' = 1..Len(orders')
          /\ DOMAIN orders = 1..Len(orders) /\ Len(orders) \in Nat
      BY <1>1, <1>2, <1>3
    <3> QED BY <1>1, <1>2, <1>3, <3>1
  <2>2. \A i \in DOMAIN orders : orders[i].kind = "turn" =>
          orders[i].turn \in Turn /\ orders[i].turn # t
    BY <1>4, TurnsOrdered DEF Inv, Orders, Turn
  <2>3. \A i \in DOMAIN orders' : orders'[i].kind = "turn" =>
          orders'[i].turn # None /\ orders'[i].turn <= sent' /\ job[orders'[i].turn].at = "none"
    BY <1>2, <1>3, <1>4, <1>6, <2>1, <2>2, Numbers DEF Inv, Orders, Turn
  <2>4. \A i, j \in DOMAIN orders' :
          orders'[i].kind = "turn" /\ orders'[j].kind = "turn"
            /\ orders'[j].turn = orders'[i].turn => i = j
    BY <1>2, <2>1, <2>2 DEF Inv, Orders
  <2>5. \A u \in Turn : job[u].at # "none" => u <= sent'
    BY <1>4 DEF Inv, Orders, Turn
  <2> QED BY <1>1, <2>3, <2>4, <2>5 DEF Orders, machineVars
<1> QED BY <1>1, <1>5, <1>7, RelayKeeps

LEMMA ConnectionKeeps == ASSUME Inv, ConnectionLost \/ Reconnect PROVE Inv'
<1>1. UNCHANGED machineVars /\ sent' = sent /\ (orders' = orders \/ orders' = <<>>)
  BY DEF ConnectionLost, Reconnect, Disconnected
<1>2. SessionTypeOK'
  <2>1. orders' \in Seq(OrderFrame)
    <3>1. orders \in Seq(OrderFrame) /\ <<>> \in Seq(OrderFrame)
      BY DEF Inv, SessionTypeOK
    <3> QED BY <1>1, <3>1
  <2>2. link' \in {"none", "up", "down"} /\ online' \in BOOLEAN
        /\ current' \in Turn \cup {None} /\ changes' = changes
    BY DEF ConnectionLost, Reconnect, Disconnected, Inv, SessionTypeOK
  <2> QED BY <1>1, <2>1, <2>2 DEF Inv, SessionTypeOK, machineVars
<1>3. Orders'
  BY <1>1 DEF Inv, Orders, machineVars
<1> QED BY <1>1, <1>2, <1>3, RelayKeeps

LEMMA TakenOrders ==
  ASSUME Inv, NEW kind, Takes(kind)
  PROVE  /\ \A i \in DOMAIN orders' : i \in Nat /\ i + 1 \in DOMAIN orders
                                       /\ orders'[i] = orders[i + 1]
         /\ 1 \in DOMAIN orders /\ Head(orders) = orders[1]
BY DEF Takes, Inv, SessionTypeOK

\* Orders after the reading of one, when no turn begins and none was given.
LEMMA OrdersKept ==
  ASSUME Inv, sent' = sent, \A t \in Turn : job'[t].at # "none" => job[t].at # "none",
         orders' \in Seq(OrderFrame),
         orders' = orders \/ orders' = <<>> \/ (\E kind : Takes(kind))
  PROVE  Orders'
<1>0. \A i \in DOMAIN orders : orders[i].kind = "turn" => orders[i].turn \in Turn
  BY TurnsOrdered
<1>1. CASE orders' = orders
  BY <1>0, <1>1 DEF Inv, Orders
<1>2. CASE orders' = <<>>
  BY <1>2 DEF Inv, Orders
<1>3. CASE \E kind : Takes(kind)
  <2>1. \A i \in DOMAIN orders' : i \in Nat /\ i + 1 \in DOMAIN orders /\ orders'[i] = orders[i + 1]
    BY <1>3, TakenOrders
  <2>2. \A i, j \in Nat : i + 1 = j + 1 => i = j
    OBVIOUS
  <2>3. \A i \in DOMAIN orders' : orders'[i].kind = "turn" =>
          orders'[i].turn # None /\ orders'[i].turn <= sent' /\ job'[orders'[i].turn].at = "none"
    BY SMTT(30), <1>0, <2>1 DEF Inv, Orders
  <2>4. \A i, j \in DOMAIN orders' :
          orders'[i].kind = "turn" /\ orders'[j].kind = "turn"
            /\ orders'[j].turn = orders'[i].turn => i = j
    BY <2>1, <2>2 DEF Inv, Orders
  <2>5. \A t \in Turn : job'[t].at # "none" => t <= sent'
    BY DEF Inv, Orders
  <2> QED BY <2>3, <2>4, <2>5 DEF Orders
<1> QED BY <1>1, <1>2, <1>3

LEMMA OwnersOrdersKeep ==
  ASSUME Inv, AskHost \/ AskUnhost \/ (\E model, effort \in Setting : Configure(model, effort))
  PROVE  Inv'
<1>1. Keep \in Setting
  BY DEF Setting
<1>2. CASE AskHost
  BY <1>1, <1>2, OrderKeeps DEF AskHost, relayVars, Inv, SessionTypeOK
<1>3. CASE AskUnhost
  BY <1>1, <1>3, OrderKeeps DEF AskUnhost, relayVars, Inv, SessionTypeOK
<1>4. ASSUME NEW model \in Setting, NEW effort \in Setting, Configure(model, effort)
      PROVE  Inv'
  <2>1. changes' \in 0..MaxChanges
    BY <1>4, SessionAssumption DEF Configure, Inv, SessionTypeOK
  <2> QED BY <1>4, <2>1, OrderKeeps DEF Configure
<1> QED BY <1>2, <1>3, <1>4

\* Nothing of the sessions changes, and the reader, unless it goes on as before,
\* awaited nothing of a session that is still alive.
LEMMA QuietKeeps ==
  ASSUME Inv, UNCHANGED <<sup, job, client, known, missed>>, hosted' \in {hosted, None},
         reader.at \in {"opening", "setting"} => reader' = reader \/ ~ Live(reader.with),
         SessionTypeOK', Readers', Orders'
  PROVE  Inv'
<1>1. Clients'
  BY DEF Inv, Clients, Opener, Live
<1>2. Supervisors' /\ Memory'
  BY DEF Inv, Supervisors, Memory, Live
<1>3. Jobs'
  BY DEF Inv, Jobs, Made, InHand
<1>4. Settings'
  BY DEF Inv, Settings, Live
<1> QED BY <1>1, <1>2, <1>3, <1>4 DEF Inv

LEMMA ReadingReader == Reading \in Reader
BY DEF Reading, Reader, Setting

LEMMA ReadingKept == ASSUME reader' = Reading PROVE Readers'
BY DEF Readers, Reading

LEMMA DisconnectedTypes ==
  ASSUME SessionTypeOK, Disconnected
  PROVE  /\ link' \in {"none", "up", "down"} /\ online' \in BOOLEAN
         /\ current' \in Turn \cup {None} /\ sent' = sent /\ changes' = changes
         /\ orders' = <<>> /\ orders' \in Seq(OrderFrame)
<1>1. orders' = <<>> /\ <<>> \in Seq(OrderFrame)
  BY DEF Disconnected
<1> QED BY <1>1 DEF Disconnected, SessionTypeOK

LEMMA RaisesKeep == ASSUME Inv, LetGoRaises \/ ModelSetRaises PROVE Inv'
<1>1. UNCHANGED <<hosted, sup, job, client, known, missed>> /\ reader' = Reading /\ Disconnected
  BY DEF LetGoRaises, ModelSetRaises, ReaderRaises
<1>2. orders' = <<>> /\ orders' \in Seq(OrderFrame) /\ sent' = sent
  BY <1>1, DisconnectedTypes DEF Inv
<1>3. SessionTypeOK'
  BY <1>1, <1>2, DisconnectedTypes, ReadingReader DEF Inv, SessionTypeOK
<1>4. Orders'
  BY <1>1, <1>2, OrdersKept
<1>5. reader.at \in {"opening", "setting"} => ~ Live(reader.with)
  BY DEF LetGoRaises, ModelSetRaises, Inv, Readers, Live
<1> QED BY <1>1, <1>3, <1>4, <1>5, QuietKeeps, ReadingKept

LEMMA ReadUnhostKeeps == ASSUME Inv, ReadUnhost PROVE Inv'
<1>1. UNCHANGED <<relayVars, sup, job, client, known, missed>> /\ hosted' = None
      /\ orders' \in Seq(OrderFrame) /\ reader = Reading
  BY TakesTypes DEF ReadUnhost, Inv
<1>2. \/ reader' = Reading
      \/ hosted \in Host /\ reader' = [at |-> "letting", of |-> hosted, with |-> None, effort |-> Keep]
  BY DEF ReadUnhost, Reading, Inv, SessionTypeOK
<1>3. Readers'
  <2>1. CASE reader' = Reading
    BY <2>1, ReadingKept
  <2>2. CASE reader' = [at |-> "letting", of |-> hosted, with |-> None, effort |-> Keep]
    BY <1>2, <2>2, Numbers DEF Readers, Reading
  <2> QED BY <1>2, <2>1, <2>2
<1>4. SessionTypeOK'
  <2>1. reader' \in Reader
    BY <1>2, ReadingReader DEF Reader, Setting
  <2> QED BY <1>1, <2>1 DEF Inv, SessionTypeOK, relayVars
<1>5. Orders'
  BY <1>1, OrdersKept DEF ReadUnhost, relayVars
<1> QED BY <1>1, <1>3, <1>4, <1>5, QuietKeeps DEF Reading

\* A client that never was is nobody's.
\* A client that was never made is nobody's, so making one disturbs nothing.
LEMMA FreshIsNobodys ==
  ASSUME Inv, NEW c \in Client, Fresh(c)
  PROVE  /\ client[c].state = "none" /\ client[c].of = None
         /\ \A h \in Host : sup[h].client # c
         /\ \A t \in Turn : (job[t].at \in {"closing", "opening"} => job[t].old # c)
                            /\ (job[t].at \in {"opening", "playing"} => job[t].client # c)
         /\ reader.at \in {"opening", "setting"} => reader.with # c
<1>1. client[c].state = "none" /\ client[c].of = None
  BY DEF Fresh, Inv, Clients
<1>2. \A h \in Host : sup[h].client # c
  BY <1>1, Numbers DEF Inv, Supervisors
<1>3. \A t \in Turn : (job[t].at \in {"closing", "opening"} => job[t].old # c)
                      /\ (job[t].at \in {"opening", "playing"} => job[t].client # c)
  BY <1>1 DEF Inv, Jobs
<1>4. reader.at \in {"opening", "setting"} => reader.with # c
  BY <1>1 DEF Inv, Readers
<1> QED BY <1>1, <1>2, <1>3, <1>4

\* A session being opened for h.
LEMMA OptionsOpen ==
  ASSUME Inv, NEW h \in Host, NEW c \in Client,
         client' = [client EXCEPT ![c] = Options(h, c)]
  PROVE  /\ client' \in [Client -> SDKClient]
         /\ client'[c].state = "opening" /\ client'[c].of = h
         /\ client'[c].model = sup[h].model /\ client'[c].effort = sup[h].effort
         /\ sup[h].sid \in {None, client'[c].conv}
         /\ \A d \in Client : d # c => client'[d] = client[d]
<1>1. /\ Options(h, c) \in SDKClient /\ Options(h, c).state = "opening" /\ Options(h, c).of = h
      /\ Options(h, c).model = sup[h].model /\ Options(h, c).effort = sup[h].effort
      /\ sup[h].sid \in {None, Options(h, c).conv}
  BY Fields DEF Inv, Options, SDKClient
<1> QED BY <1>1, ClientStep DEF Inv

LEMMA ReadHostKeeps == ASSUME Inv, ReadHost PROVE Inv'
<1>1. UNCHANGED <<hosted, sup, job, known, missed>> /\ orders' \in Seq(OrderFrame)
      /\ reader = Reading
  BY TakesTypes DEF ReadHost, Inv
<1>2. sent' = sent
  BY TellTypes DEF ReadHost, relayVars, Inv
<1>3. Orders'
  BY <1>1, <1>2, OrdersKept DEF ReadHost
<1>4. CASE hosted # None /\ Tell("hosted", None) /\ UNCHANGED <<reader, client>>
  <2>1. SessionTypeOK'
    BY <1>1, <1>4, TellTypes DEF Inv, SessionTypeOK
  <2> QED BY <1>1, <1>3, <1>4, <2>1, QuietKeeps, ReadingKept
<1>5. ASSUME NEW h \in Host, NEW c \in Client, ~ Made(h), Fresh(c),
             client' = [client EXCEPT ![c] = Options(h, c)],
             reader' = [at |-> "opening", of |-> h, with |-> c, effort |-> Keep],
             UNCHANGED relayVars
      PROVE  Inv'
  <2>1. /\ client' \in [Client -> SDKClient]
        /\ client'[c].state = "opening" /\ client'[c].of = h
        /\ client'[c].model = sup[h].model /\ client'[c].effort = sup[h].effort
        /\ sup[h].sid \in {None, client'[c].conv}
        /\ \A d \in Client : d # c => client'[d] = client[d]
    BY <1>5, OptionsOpen
  <2>2. reader'.at = "opening" /\ reader'.of = h /\ reader'.with = c /\ reader' \in Reader
    BY <1>5 DEF Reader, Setting
  <2>3. sup[h].client = None /\ \A t \in Turn : job[t].of # h
    BY <1>5, Fields, Numbers DEF Inv, Supervisors, Jobs, Made
  <2>4. SessionTypeOK'
    BY <1>1, <1>5, <2>1, <2>2 DEF Inv, SessionTypeOK, relayVars
  <2>5. Clients'
    BY <1>1, <2>1, <2>2, <2>3, Numbers DEF Inv, Clients, Opener, Reading
  <2>6. Supervisors'
    BY <1>1, <1>5, <2>1, FreshIsNobodys, Fields DEF Inv, Supervisors
  <2>7. Jobs'
    <3>1. \A i \in Host : Made(i) => \E d \in Client : client'[d].of = i
      BY <1>5, <2>1, FreshIsNobodys, Numbers DEF Made
    <3>2. hosted' # None => Made(hosted)'
      BY <1>1, <3>1 DEF Inv, Jobs, SessionTypeOK, Made
    <3>3. \A t \in Turn : job'[t].at # "none" => Made(job[t].of)'
      BY <1>1, <3>1, Owned DEF Inv, Jobs, Made
    <3>4. \A t \in Turn : /\ job[t].at \in {"closing", "opening"} => client'[job[t].old] = client[job[t].old]
                          /\ job[t].at \in {"opening", "playing"} => client'[job[t].client] = client[job[t].client]
      BY <1>5, <2>1, FreshIsNobodys, Fields DEF Inv, Jobs
    <3> QED BY <1>1, <3>2, <3>3, <3>4 DEF Inv, Jobs, Made, InHand
  <2>8. Readers'
    BY <1>1, <2>1, <2>2, <2>3, Numbers DEF Readers
  <2>9. \A d \in Client : Live(d)' => d = c \/ (Live(d) /\ client'[d] = client[d])
    BY <2>1 DEF Live
  <2>10. Memory'
    BY <1>1, <2>1, <2>9 DEF Inv, Memory
  <2>11. Settings'
    BY <1>1, <2>1, <2>2, <2>9 DEF Inv, Settings, Reading
  <2> QED BY <1>3, <2>4, <2>5, <2>6, <2>7, <2>8, <2>10, <2>11 DEF Inv
<1> QED BY <1>4, <1>5 DEF ReadHost

LEMMA ClosedKeeps == ASSUME Inv, NEW t \in Turn, Closed(t) PROVE Inv'
<1> DEFINE h == job[t].of
<1>1. h \in Host /\ job[t].at = "closing" /\ sup[h].client = None
      /\ UNCHANGED <<relayVars, orders, hosted, reader, sup, known>>
      /\ missed' = [missed EXCEPT ![h] = {}]
  BY Owned DEF Closed, Inv, Jobs
<1>2. PICK c \in Client : /\ Fresh(c)
                          /\ client' = [client EXCEPT ![c] = Options(h, c)]
                          /\ job' = [job EXCEPT ![t].at = "opening", ![t].client = c]
  BY DEF Closed
<1>3. /\ client' \in [Client -> SDKClient]
      /\ client'[c].state = "opening" /\ client'[c].of = h
      /\ client'[c].model = sup[h].model /\ client'[c].effort = sup[h].effort
      /\ sup[h].sid \in {None, client'[c].conv}
      /\ \A d \in Client : d # c => client'[d] = client[d]
  BY <1>1, <1>2, OptionsOpen
<1>4. [job[t] EXCEPT !.at = "opening", !.client = c] \in Job
  BY Fields DEF Inv, Job
<1>5. /\ job' \in [Turn -> Job]
      /\ \A u \in Turn : job'[u] = IF u = t THEN [job[t] EXCEPT !.at = "opening", !.client = c] ELSE job[u]
  BY <1>2, <1>4 DEF Inv, SessionTypeOK
<1>6. /\ job'[t].at = "opening" /\ job'[t].client = c
      /\ job'[t].of = h /\ job'[t].old = job[t].old
      /\ \A u \in Turn : u # t => job'[u] = job[u]
  BY <1>5, Fields DEF Inv, Job
<1>7. missed' \in [Host -> SUBSET {"model", "effort"}] /\ missed'[h] = {}
      /\ \A i \in Host : i # h => missed'[i] = missed[i]
  BY <1>1 DEF Inv, SessionTypeOK
<1> HIDE DEF h
<1>8. \A u \in Turn : job'[u].of = job[u].of /\ (InHand(u)' <=> InHand(u))
                      /\ (job'[u].at = "over" <=> job[u].at = "over")
                      /\ (job'[u].at = "none" <=> job[u].at = "none")
  BY <1>1, <1>6 DEF InHand, h
<1>9. SessionTypeOK'
  BY <1>1, <1>3, <1>5, <1>7 DEF Inv, SessionTypeOK, relayVars
<1>10. Clients'
  <2>1. \A d \in Client : d # c /\ client[d].state = "opening" => Opener(d)'
    BY <1>1, <1>6 DEF Inv, Clients, Opener
  <2>2. Opener(c)'
    BY <1>6 DEF Opener
  <2> QED BY <1>1, <1>3, <2>1, <2>2, Numbers DEF Inv, Clients
<1>11. Supervisors'
  BY <1>1, <1>2, <1>3, FreshIsNobodys, Fields DEF Inv, Supervisors
<1>12. Jobs'
  <2>1. \A i \in Host : Made(i) => \E d \in Client : client'[d].of = i
    BY <1>2, <1>3, FreshIsNobodys, Numbers DEF Made
  <2>2. hosted' # None => Made(hosted)'
    BY <1>1, <2>1 DEF Inv, Jobs, SessionTypeOK, Made
  <2>3. \A u \in Turn : job'[u].at # "none" => Made(job[u].of)'
    BY <1>8, <2>1, Owned DEF Inv, Jobs, Made
  <2>4. \A u \in Turn : /\ job[u].at \in {"closing", "opening"} => client'[job[u].old] = client[job[u].old]
                        /\ job[u].at \in {"opening", "playing"} => client'[job[u].client] = client[job[u].client]
    BY <1>2, <1>3, FreshIsNobodys, Fields DEF Inv, Jobs
  <2>5. \A u, v \in Turn : InHand(u)' /\ InHand(v)' /\ job'[u].of = job'[v].of => u = v
    BY <1>8 DEF Inv, Jobs
  <2>6. \A u \in Turn : job'[u].at = "none" <=> job'[u].of = None
    BY <1>8 DEF Inv, Jobs
  <2>7. \A u \in Turn : u # t =>
         /\ job'[u].at \in {"closing", "opening"} =>
              /\ sup'[job'[u].of].client = None /\ job'[u].old # None
              /\ client'[job'[u].old].of = job'[u].of /\ client'[job'[u].old].state = "closed"
         /\ job'[u].at = "opening" =>
              /\ job'[u].client # None
              /\ client'[job'[u].client].of = job'[u].of /\ client'[job'[u].client].state = "opening"
         /\ job'[u].at = "playing" =>
              /\ job'[u].client # None
              /\ client'[job'[u].client].of = job'[u].of
              /\ client'[job'[u].client].state \in {"open", "closed"}
    BY <1>1, <1>6, <2>4 DEF Inv, Jobs
  <2>8. /\ sup'[h].client = None /\ job'[t].old # None
        /\ client'[job'[t].old].of = h /\ client'[job'[t].old].state = "closed"
    BY <1>1, <1>6, <2>4 DEF Inv, Jobs, h
  <2>9. job'[t].client # None /\ client'[job'[t].client].of = job'[t].of
        /\ client'[job'[t].client].state = "opening"
    BY <1>3, <1>6, Numbers
  <2>10. \A u, v \in Turn : (InHand(u) /\ InHand(v) /\ job[u].of = job[v].of)' => u = v
    BY <2>5
  <2>11. \A u \in Turn :
         /\ job'[u].at \in {"closing", "opening"} =>
              /\ sup'[job'[u].of].client = None /\ job'[u].old # None
              /\ client'[job'[u].old].of = job'[u].of /\ client'[job'[u].old].state = "closed"
         /\ job'[u].at = "opening" =>
              /\ job'[u].client # None
              /\ client'[job'[u].client].of = job'[u].of /\ client'[job'[u].client].state = "opening"
         /\ job'[u].at = "playing" =>
              /\ job'[u].client # None
              /\ client'[job'[u].client].of = job'[u].of
              /\ client'[job'[u].client].state \in {"open", "closed"}
    BY <1>6, <2>7, <2>8, <2>9
  <2> QED BY <2>2, <2>3, <2>6, <2>10, <2>11 DEF Jobs
<1>13. Readers'
  <2>1. reader.at \in {"opening", "setting"} => client'[reader.with] = client[reader.with]
    BY <1>2, <1>3, FreshIsNobodys, Fields DEF Inv, Readers
  <2> QED BY <1>1, <1>8, <2>1 DEF Inv, Readers, Reading
<1>14. Orders'
  BY <1>1, <1>8, OrdersKept DEF relayVars, Inv, SessionTypeOK
<1>15. \A d \in Client : Live(d)' => d = c \/ (Live(d) /\ client'[d] = client[d])
  BY <1>3 DEF Live
<1>16. Memory'
  <2>1. \A d \in Client : Live(d)' => sup'[client'[d].of].sid \in {None, client'[d].conv}
    BY <1>1, <1>3, <1>15 DEF Inv, Memory
  <2>2. \A d \in Client : \A u \in known[d] : job'[u].at = "over" /\ job'[u].of = job[u].of
    BY <1>8, Owned
  <2> QED BY <1>1, <2>1, <2>2 DEF Inv, Memory
<1>17. Settings'
  <2>1. ASSUME NEW d \in Client, Live(d), client[d].of = h PROVE FALSE
    <3>1. client[d].state = "opening" /\ Opener(d)
      BY <1>1, <2>1, Numbers DEF Inv, Clients, Live
    <3>2. CASE reader.at = "opening" /\ reader.with = d
      BY <2>1, <3>2 DEF Inv, Readers, h
    <3>3. ASSUME NEW u \in Turn, job[u].at = "opening", job[u].client = d PROVE FALSE
      BY <1>1, <2>1, <3>3 DEF Inv, Jobs, InHand, h
    <3> QED BY <3>1, <3>2, <3>3 DEF Opener
  <2>2. \A d \in Client : Live(d) => client[d].of \in Host
    BY Owned DEF Live
  <2>3. ASSUME NEW d \in Client, Live(d), d # c
        PROVE  /\ client'[d].of = client[d].of /\ client'[d].model = client[d].model
               /\ client'[d].effort = client[d].effort /\ missed'[client[d].of] = missed[client[d].of]
    BY <1>3, <1>7, <2>1, <2>2, <2>3
  <2> QED BY <1>1, <1>3, <1>15, <2>3 DEF Inv, Settings
<1> QED BY <1>9, <1>10, <1>11, <1>12, <1>13, <1>14, <1>16, <1>17 DEF Inv

\* A session is disconnected, or dies.
\* What closing a client leaves.
LEMMA ShutClosed ==
  ASSUME Inv, NEW c \in Client, client' = [client EXCEPT ![c] = Shut(c)]
  PROVE  /\ client' \in [Client -> SDKClient]
         /\ client'[c].state = "closed" /\ client'[c].of = client[c].of
         /\ \A d \in Client : d # c => client'[d] = client[d]
         /\ \A d \in Client : client'[d].of = client[d].of
<1>0. \E v \in Values : v = Default
  BY SessionAssumption
<1>1. Shut(c) \in SDKClient /\ Shut(c).state = "closed" /\ Shut(c).of = client[c].of
  BY <1>0, Fields DEF Inv, Shut, SDKClient
<1> QED BY <1>1, ClientStep DEF Inv

LEMMA HostRefusedKeeps == ASSUME Inv, HostRefused PROVE Inv'
<1> DEFINE h == reader.of
           c == reader.with
<1>1. h \in Host /\ c \in Client /\ client[c].of = h /\ client[c].state = "opening"
      /\ sup[h].client = None /\ \A t \in Turn : job[t].of # h
  BY Fields, Numbers DEF HostRefused, Inv, Readers, Clients
<1>2. /\ UNCHANGED <<orders, hosted, sup, job, known, missed>> /\ reader' = Reading
      /\ client' = [client EXCEPT ![c] = Shut(c)] /\ reader.at = "opening"
  BY DEF HostRefused
<1>3. /\ client' \in [Client -> SDKClient]
      /\ client'[c].state = "closed" /\ client'[c].of = h
      /\ \A d \in Client : d # c => client'[d] = client[d]
      /\ \A d \in Client : client'[d].of = client[d].of
  BY <1>1, <1>2, ShutClosed
<1>4. sent' = sent /\ changes' = changes /\ online' = online
      /\ link' \in {"none", "up", "down"} /\ current' \in Turn \cup {None}
  BY TellTypes DEF HostRefused, Inv
<1> HIDE DEF h, c
<1>5. SessionTypeOK'
  BY <1>2, <1>3, <1>4, ReadingReader DEF Inv, SessionTypeOK
<1>6. Clients'
  <2>1. \A d \in Client : d # c /\ client[d].state = "opening" => Opener(d)'
    BY <1>2 DEF Inv, Clients, Opener, c
  <2> QED BY <1>1, <1>2, <1>3, <2>1, Numbers DEF Inv, Clients
<1>7. Supervisors'
  BY <1>1, <1>2, <1>3, Fields DEF Inv, Supervisors
<1>8. Jobs'
  <2>1. \A t \in Turn : /\ job[t].at \in {"closing", "opening"} => client'[job[t].old] = client[job[t].old]
                        /\ job[t].at \in {"opening", "playing"} => client'[job[t].client] = client[job[t].client]
    BY <1>1, <1>3, Fields DEF Inv, Jobs
  <2>2. \A i : Made(i) <=> Made(i)'
    BY <1>3 DEF Made
  <2> QED BY <1>2, <2>1, <2>2 DEF Inv, Jobs, InHand
<1>9. Orders'
  BY <1>2, <1>4, OrdersKept DEF Inv, SessionTypeOK
<1>10. \A d \in Client : Live(d)' => Live(d) /\ d # c /\ client'[d] = client[d]
  BY <1>3 DEF Live
<1>11. Memory'
  BY <1>2, <1>10 DEF Inv, Memory
<1>12. Settings'
  BY <1>2, <1>10 DEF Inv, Settings
<1> QED BY <1>2, <1>5, <1>6, <1>7, <1>8, <1>9, <1>11, <1>12, ReadingKept DEF Inv

LEMMA SessionLostKeeps == ASSUME Inv, NEW c \in Client, SessionLost(c) PROVE Inv'
<1>1. /\ UNCHANGED <<relayVars, orders, hosted, reader, sup, job, known, missed>>
      /\ client' = [client EXCEPT ![c] = Shut(c)]
      /\ client[c].state = "open"
  BY DEF SessionLost, Answers
<1>2. /\ client' \in [Client -> SDKClient]
      /\ client'[c].state = "closed"
      /\ \A d \in Client : d # c => client'[d] = client[d]
      /\ \A d \in Client : client'[d].of = client[d].of
  BY <1>1, ShutClosed
<1>3. SessionTypeOK'
  BY <1>1, <1>2 DEF Inv, SessionTypeOK, relayVars
<1>4. Clients'
  <2>1. \A d \in Client : client[d].state = "none" <=> client[d].of = None
    BY DEF Inv, Clients
  <2>2. \A d \in Client : d # c /\ client[d].state = "opening" => Opener(d)'
    BY <1>1 DEF Inv, Clients, Opener
  <2> QED BY <1>1, <1>2, <2>1, <2>2 DEF Inv, Clients
<1>5. Supervisors'
  BY <1>1, <1>2, Fields DEF Inv, Supervisors
<1>6. Jobs'
  <2>1. \A t \in Turn : /\ job[t].at \in {"closing", "opening"} => client'[job[t].old] = client[job[t].old]
                        /\ job[t].at = "opening" => client'[job[t].client] = client[job[t].client]
                        /\ job[t].at = "playing" => client'[job[t].client].state \in {"open", "closed"}
                                                    /\ client'[job[t].client].of = client[job[t].client].of
    BY <1>1, <1>2, Fields DEF Inv, Jobs
  <2>2. \A i : Made(i) <=> Made(i)'
    BY <1>2 DEF Made
  <2> QED BY <1>1, <2>1, <2>2 DEF Inv, Jobs, InHand
<1>7. Readers'
  <2>1. reader.at \in {"opening", "setting"} =>
          /\ client'[reader.with].of = client[reader.with].of
          /\ reader.at = "opening" => client'[reader.with] = client[reader.with]
          /\ client[reader.with].state \in {"open", "closed"}
               => client'[reader.with].state \in {"open", "closed"}
    BY <1>1, <1>2, Fields DEF Inv, Readers
  <2> QED BY <1>1, <2>1 DEF Inv, Readers, Reading
<1>8. Orders'
  BY <1>1, OrdersKept DEF Inv, SessionTypeOK, relayVars
<1>9. \A d \in Client : Live(d)' => Live(d) /\ d # c /\ client'[d] = client[d]
  BY <1>2 DEF Live
<1>10. Memory'
  BY <1>1, <1>9 DEF Inv, Memory
<1>11. Settings'
  BY <1>1, <1>9 DEF Inv, Settings
<1> QED BY <1>3, <1>4, <1>5, <1>6, <1>7, <1>8, <1>10, <1>11 DEF Inv

LEMMA LetGoKeeps == ASSUME Inv, LetGo PROVE Inv'
<1> DEFINE h == reader.of
           c == sup[h].client
<1>1. h \in Host /\ reader.at = "letting" /\ reader' = Reading
      /\ UNCHANGED <<orders, hosted, job, known, missed>>
  BY Fields DEF LetGo, Inv, Readers
<1>2. /\ client' \in [Client -> SDKClient]
      /\ \A d \in Client : /\ client'[d].of = client[d].of
                           /\ d # c => client'[d] = client[d]
                           /\ d = c => client'[d].state = "closed"
  <2>1. CASE c = None
    BY <2>1, Numbers DEF LetGo, Inv, SessionTypeOK
  <2>2. CASE c # None
    BY <1>1, <2>2, Fields, ShutClosed DEF LetGo, Inv
  <2> QED BY <2>1, <2>2
<1>3. /\ sup' \in [Host -> Supervisor]
      /\ \A i \in Host : sup'[i] = IF i = h THEN [sup[h] EXCEPT !.client = None] ELSE sup[i]
  BY <1>1, Fields, SupStep DEF LetGo, Inv, Supervisor
<1>4. /\ sup'[h].client = None
      /\ \A i \in Host : /\ sup'[i].sid = sup[i].sid /\ sup'[i].model = sup[i].model
                         /\ sup'[i].effort = sup[i].effort /\ sup'[i].reopen = sup[i].reopen
                         /\ i # h => sup'[i] = sup[i]
  BY <1>1, <1>3, Fields DEF Inv, Supervisor
<1>5. sent' = sent /\ changes' = changes /\ online' = online
      /\ link' \in {"none", "up", "down"} /\ current' \in Turn \cup {None}
  BY TellTypes DEF LetGo, Inv
<1>6. c \in Client \cup {None} /\ (c # None => client[c].of = h /\ client[c].state \in {"open", "closed"})
  BY <1>1, Fields DEF Inv, Supervisors
<1> HIDE DEF h, c
<1>7. SessionTypeOK'
  BY <1>1, <1>2, <1>3, <1>5, ReadingReader DEF Inv, SessionTypeOK
<1>8. \A d \in Client : Live(d)' => Live(d) /\ d # c /\ client'[d] = client[d]
  BY <1>2 DEF Live
<1>9. Clients'
  <2>1. \A d \in Client : client'[d].state = "none" <=> client'[d].of = None
    BY <1>2, <1>6, Numbers DEF Inv, Clients
  <2>2. ASSUME NEW d \in Client, client'[d].state = "open" PROVE sup'[client'[d].of].client = d
    <3>1. client[d].state = "open" /\ d # c /\ client'[d] = client[d] /\ client[d].of \in Host
      BY <1>2, <2>2, Owned
    <3> QED BY <1>4, <3>1 DEF Inv, Clients, c
  <2>3. ASSUME NEW d \in Client, client'[d].state = "opening"
        PROVE  sup'[client'[d].of].client = None /\ Opener(d)'
    <3>1. client[d].state = "opening" /\ client'[d] = client[d] /\ client[d].of \in Host
      BY <1>2, <2>3, Owned
    <3> QED BY <1>1, <1>4, <3>1 DEF Inv, Clients, Opener
  <2> QED BY <2>1, <2>2, <2>3 DEF Clients
<1>10. Supervisors'
  <2>1. ASSUME NEW i \in Host, sup'[i].client # None
        PROVE  client'[sup'[i].client].of = i /\ client'[sup'[i].client].state \in {"open", "closed"}
    <3>1. i # h /\ sup'[i] = sup[i] /\ sup[i].client \in Client
      BY <1>1, <1>4, <2>1, Fields DEF Inv
    <3> QED BY <1>2, <3>1, <2>1 DEF Inv, Supervisors
  <2> QED BY <2>1 DEF Supervisors
<1>11. Jobs'
  <2>1. \A t \in Turn : /\ job[t].at \in {"closing", "opening"} =>
                              client'[job[t].old] = client[job[t].old] \/ client'[job[t].old].state = "closed"
                        /\ job[t].at = "opening" => client'[job[t].client] = client[job[t].client]
                        /\ job[t].at = "playing" => client'[job[t].client].state \in {"open", "closed"}
    BY <1>2, <1>6, Fields DEF Inv, Jobs
  <2>2. \A i : Made(i) <=> Made(i)'
    BY <1>2 DEF Made
  <2>3. \A t \in Turn : job[t].at \in {"closing", "opening"} => sup'[job[t].of].client = None
    BY <1>4, Owned DEF Inv, Jobs
  <2>4. \A t \in Turn : /\ job[t].at \in {"closing", "opening"} => client'[job[t].old].of = client[job[t].old].of
                        /\ job[t].at \in {"opening", "playing"} => client'[job[t].client].of = client[job[t].client].of
    BY <1>2, Fields DEF Inv, Jobs
  <2> QED BY <1>1, <2>1, <2>2, <2>3, <2>4 DEF Inv, Jobs, InHand
<1>12. Orders'
  BY <1>1, <1>5, OrdersKept DEF Inv, SessionTypeOK
<1>13. \A d \in Client : Live(d) => client[d].of \in Host
  BY Owned DEF Live
<1>14. Memory'
  <2>1. \A d \in Client : \A u \in known[d] : sup'[job[u].of].sid = sup[job[u].of].sid
    BY <1>4, Owned
  <2> QED BY <1>1, <1>4, <1>8, <1>13, <2>1 DEF Inv, Memory
<1>15. Settings'
  BY <1>1, <1>4, <1>8, <1>13 DEF Inv, Settings
<1> QED BY <1>1, <1>7, <1>9, <1>10, <1>11, <1>12, <1>14, <1>15, ReadingKept DEF Inv

\* Nothing but settings change.
-----------------------------------------------------------------------------
(* Settings. *)

\* A change of the settings of one Hosted touches the invariant in Settings only.
LEMMA SettingsKeep ==
  ASSUME Inv, UNCHANGED <<hosted, job, known>>,
         \A d \in Client : /\ client'[d].state = client[d].state /\ client'[d].of = client[d].of
                           /\ client'[d].conv = client[d].conv,
         \A h \in Host : sup'[h].client = sup[h].client /\ sup'[h].sid = sup[h].sid,
         reader.at # "opening", SessionTypeOK', Readers', Orders', Settings'
  PROVE  Inv'
<1>1. Clients'
  <2>1. \A d \in Client : client[d].state = "opening" => Opener(d)'
    BY DEF Inv, Clients, Opener
  <2> QED BY <2>1, Owned, Numbers DEF Inv, Clients
<1>2. Supervisors'
  BY Fields DEF Inv, Supervisors
<1>3. Jobs'
  <2>1. \A i : Made(i) <=> Made(i)'
    BY DEF Made
  <2>2. \A t \in Turn : job[t].at \in {"closing", "opening"} => sup'[job[t].of].client = None
    BY Owned DEF Inv, Jobs
  <2>3. \A t \in Turn : /\ job[t].at \in {"closing", "opening"} => job[t].old \in Client
                        /\ job[t].at \in {"opening", "playing"} => job[t].client \in Client
    BY Fields DEF Inv, Jobs
  <2> QED BY <2>1, <2>2, <2>3 DEF Inv, Jobs, InHand
<1>4. Memory'
  <2>1. \A d \in Client : Live(d)' => Live(d) /\ client[d].of \in Host
    BY Owned DEF Live
  <2>2. \A d \in Client : \A u \in known[d] : sup'[job[u].of].sid = sup[job[u].of].sid
    BY Owned
  <2> QED BY <2>1, <2>2 DEF Inv, Memory
<1> QED BY <1>1, <1>2, <1>3, <1>4 DEF Inv

\* What a change of the effort leaves.
LEMMA EffortChanged ==
  ASSUME NEW s \in Supervisor, NEW effort \in Setting, NEW was \in SUBSET {"model", "effort"}
  PROVE  LET new == ChangeEffort(s, effort)
             mine == Missing(s, effort, "effort", was)
         IN  /\ new \in Supervisor /\ mine \in SUBSET {"model", "effort"}
             /\ new.client = s.client /\ new.sid = s.sid /\ new.model = s.model
             /\ "model" \in was <=> "model" \in mine
             /\ \/ new = s /\ mine = was
                \/ s.client = None /\ "effort" \in mine
                \/ s.client # None /\ new.reopen
<1>1. s.client \in Client \cup {None} /\ s.sid \in Client \cup {None} /\ s.model \in Values
      /\ s.effort \in Values /\ s.reopen \in BOOLEAN
      /\ s = [model |-> s.model, effort |-> s.effort, reopen |-> s.reopen, client |-> s.client,
              sid |-> s.sid]
  BY DEF Supervisor
<1>2. CASE effort \in {Keep, s.effort}
  BY <1>2 DEF ChangeEffort, Missing
<1>3. CASE effort \notin {Keep, s.effort}
  <2>1. effort \in Values
    BY <1>3 DEF Setting
  <2>2. ChangeEffort(s, effort) = [model |-> s.model, effort |-> effort,
                                  reopen |-> s.client # None, client |-> s.client, sid |-> s.sid]
    BY <1>1, <1>3 DEF ChangeEffort, Supervisor
  <2>3. Missing(s, effort, "effort", was) =
          IF s.client = None THEN was \cup {"effort"} ELSE was \ {"effort"}
    BY <1>3 DEF Missing
  <2>4. ChangeEffort(s, effort) \in Supervisor
    BY <1>1, <2>1, <2>2 DEF Supervisor
  <2>5. /\ ChangeEffort(s, effort).client = s.client /\ ChangeEffort(s, effort).sid = s.sid
        /\ ChangeEffort(s, effort).model = s.model
        /\ ChangeEffort(s, effort).reopen = (s.client # None)
    BY <2>2
  <2>6. /\ Missing(s, effort, "effort", was) \in SUBSET {"model", "effort"}
        /\ "model" \in was <=> "model" \in Missing(s, effort, "effort", was)
        /\ s.client = None => "effort" \in Missing(s, effort, "effort", was)
    <3>1. CASE s.client = None
      <4>1. Missing(s, effort, "effort", was) = was \cup {"effort"}
        BY <2>3, <3>1
      <4> QED BY <4>1
    <3>2. CASE s.client # None
      <4>1. Missing(s, effort, "effort", was) = was \ {"effort"}
        BY <2>3, <3>2
      <4> QED BY <3>2, <4>1
    <3> QED BY <3>1, <3>2
  <2> QED BY <2>4, <2>5, <2>6
<1> QED BY <1>2, <1>3

\* What a change of the model leaves.
LEMMA ModelChanged ==
  ASSUME NEW s \in Supervisor, NEW model \in Setting, NEW was \in SUBSET {"model", "effort"}
  PROVE  LET other == model \notin {Keep, s.model}
             new  == IF other THEN [s EXCEPT !.model = model] ELSE s
             mine == Missing(s, model, "model", was)
         IN  /\ new \in Supervisor /\ mine \in SUBSET {"model", "effort"}
             /\ new.client = s.client /\ new.sid = s.sid /\ new.effort = s.effort
             /\ new.reopen = s.reopen
             /\ "effort" \in was <=> "effort" \in mine
             /\ ~ other => new = s /\ mine = was
             /\ other /\ s.client = None => "model" \in mine
<1>1. s.client \in Client \cup {None} /\ s.sid \in Client \cup {None} /\ s.model \in Values
      /\ s.effort \in Values /\ s.reopen \in BOOLEAN
      /\ s = [model |-> s.model, effort |-> s.effort, reopen |-> s.reopen, client |-> s.client,
              sid |-> s.sid]
  BY DEF Supervisor
<1>2. CASE model \in {Keep, s.model}
  BY <1>2 DEF Missing
<1>3. CASE model \notin {Keep, s.model}
  <2>1. model \in Values
    BY <1>3 DEF Setting
  <2>2. [s EXCEPT !.model = model] = [model |-> model, effort |-> s.effort,
                                      reopen |-> s.reopen, client |-> s.client, sid |-> s.sid]
    BY <1>1 DEF Supervisor
  <2>3. [s EXCEPT !.model = model] \in Supervisor
    BY <1>1, <2>1, <2>2 DEF Supervisor
  <2>4. Missing(s, model, "model", was) =
          IF s.client = None THEN was \cup {"model"} ELSE was \ {"model"}
    BY <1>3 DEF Missing
  <2> QED BY <1>3, <2>2, <2>3, <2>4
<1> QED BY <1>2, <1>3

LEMMA ModelSetKeeps == ASSUME Inv, ModelSet PROVE Inv'
<1> DEFINE h == reader.of
           c == reader.with
           new == ChangeEffort(sup[h], reader.effort)
           mine == Missing(sup[h], reader.effort, "effort", missed[h])
<1>1. h \in Host /\ c \in Client /\ client[c].of = h /\ client[c].state = "open"
      /\ reader.at = "setting" /\ reader' = Reading /\ reader.effort \in Setting
  BY Fields DEF ModelSet, Inv, Readers
<1>2. UNCHANGED <<relayVars, orders, hosted, job, known>>
  BY DEF ModelSet
<1>3. /\ client' \in [Client -> SDKClient]
      /\ \A d \in Client : client'[d] = IF d = c THEN [client[c] EXCEPT !.model = sup[h].model] ELSE client[d]
  BY <1>1, Fields, ClientStep DEF ModelSet, Inv, SDKClient
<1>4. sup[h] \in Supervisor /\ missed[h] \in SUBSET {"model", "effort"}
  BY <1>1, Fields DEF Inv, SessionTypeOK
<1>5. sup' = [sup EXCEPT ![h] = new] /\ missed' = [missed EXCEPT ![h] = mine]
  BY <1>1 DEF ModelSet, Inv, SessionTypeOK
<1>6. /\ new \in Supervisor /\ mine \in SUBSET {"model", "effort"}
      /\ new.client = sup[h].client /\ new.sid = sup[h].sid /\ new.model = sup[h].model
      /\ "model" \in missed[h] <=> "model" \in mine
      /\ \/ new = sup[h] /\ mine = missed[h]
         \/ sup[h].client = None /\ "effort" \in mine
         \/ sup[h].client # None /\ new.reopen
  BY <1>1, <1>4, EffortChanged
<1> HIDE DEF new, mine
<1>7. /\ sup' \in [Host -> Supervisor] /\ sup'[h] = new
      /\ \A i \in Host : i # h => sup'[i] = sup[i]
  BY <1>1, <1>5, <1>6, SupStep DEF Inv
<1>8. /\ missed' \in [Host -> SUBSET {"model", "effort"}] /\ missed'[h] = mine
      /\ \A i \in Host : i # h => missed'[i] = missed[i]
  BY <1>1, <1>5, <1>6 DEF Inv, SessionTypeOK
<1>9. /\ client'[c].model = sup[h].model
      /\ \A d \in Client : /\ client'[d].of = client[d].of /\ client'[d].conv = client[d].conv
                           /\ client'[d].state = client[d].state
                           /\ client'[d].effort = client[d].effort
                           /\ d # c => client'[d] = client[d]
  BY <1>1, <1>3, Fields DEF Inv, SDKClient
<1> HIDE DEF h, c
<1>10. SessionTypeOK'
  BY <1>1, <1>2, <1>3, <1>7, <1>8, ReadingReader DEF Inv, SessionTypeOK, relayVars
<1>11. Orders'
  BY <1>2, OrdersKept DEF Inv, SessionTypeOK, relayVars
<1>12. Settings'
  <2>1. \A d \in Client : Live(d)' => Live(d) /\ client[d].of \in Host
    BY <1>9, Owned DEF Live
  <2>2. ASSUME NEW d \in Client, Live(d), client[d].of = h
        PROVE  /\ client'[d].model = new.model \/ "model" \in mine
               /\ client'[d].effort = new.effort \/ "effort" \in mine \/ new.reopen
    <3>1. client[d].model = sup[h].model \/ "model" \in missed[h] \/ d = c
      BY <2>2 DEF Inv, Settings, c
    <3>2. client[d].effort = sup[h].effort \/ "effort" \in missed[h] \/ sup[h].reopen
      BY <2>2 DEF Inv, Settings
    <3> QED BY <1>6, <1>9, <3>1, <3>2
  <2>3. ASSUME NEW d \in Client, Live(d), client[d].of # h
        PROVE  /\ client'[d].model = sup[client[d].of].model \/ "model" \in missed[client[d].of]
               /\ client'[d].effort = sup[client[d].of].effort \/ "effort" \in missed[client[d].of] \/ sup[client[d].of].reopen
    BY <1>1, <1>9, <2>3 DEF Inv, Settings, h
  <2> QED BY <1>1, <1>7, <1>8, <1>9, <2>1, <2>2, <2>3 DEF Settings
<1>13. \A i \in Host : sup'[i].client = sup[i].client /\ sup'[i].sid = sup[i].sid
  BY <1>6, <1>7
<1> QED BY <1>1, <1>2, <1>9, <1>10, <1>11, <1>12, <1>13, SettingsKeep, ReadingKept

\* The session refuses the model: whether it has it or not, the model is missed.
LEMMA ModelRefusedKeeps == ASSUME Inv, ModelRefused PROVE Inv'
<1> DEFINE h == reader.of
           c == reader.with
<1>1. h \in Host /\ c \in Client /\ client[c].of = h /\ client[c].state = "open"
      /\ reader.at = "setting" /\ reader' = Reading /\ Disconnected
  BY Fields DEF ModelRefused, ReaderRaises, Inv, Readers
<1>2. UNCHANGED <<hosted, sup, job, known>>
  BY DEF ModelRefused
<1>3. /\ client' \in [Client -> SDKClient]
      /\ \A d \in Client : /\ client'[d].of = client[d].of /\ client'[d].conv = client[d].conv
                           /\ client'[d].state = client[d].state
                           /\ client'[d].effort = client[d].effort
                           /\ d # c => client'[d] = client[d]
  <2>1. CASE UNCHANGED client
    BY <2>1 DEF Inv, SessionTypeOK
  <2>2. CASE client' = [client EXCEPT ![c].model = sup[h].model]
    <3>1. /\ client' \in [Client -> SDKClient]
          /\ \A d \in Client : client'[d] = IF d = c THEN [client[c] EXCEPT !.model = sup[h].model]
                                         ELSE client[d]
      BY <1>1, <2>2, Fields, ClientStep DEF Inv, SDKClient
    <3> QED BY <1>1, <3>1, Fields DEF Inv, SDKClient
  <2> QED BY <2>1, <2>2 DEF ModelRefused
<1>4. /\ missed' \in [Host -> SUBSET {"model", "effort"}] /\ missed'[h] = missed[h] \cup {"model"}
      /\ \A i \in Host : i # h => missed'[i] = missed[i]
  <2>1. missed' = [missed EXCEPT ![h] = missed[h] \cup {"model"}]
    BY <1>1 DEF ModelRefused, Inv, SessionTypeOK
  <2> QED BY <1>1, <2>1 DEF Inv, SessionTypeOK
<1> HIDE DEF h, c
<1>5. orders' = <<>> /\ orders' \in Seq(OrderFrame) /\ sent' = sent
  BY <1>1, DisconnectedTypes DEF Inv
<1>6. SessionTypeOK'
  BY <1>1, <1>2, <1>3, <1>4, DisconnectedTypes, ReadingReader DEF Inv, SessionTypeOK
<1>7. Orders'
  BY <1>2, <1>5, OrdersKept DEF Inv
<1>8. Settings'
  <2>1. \A d \in Client : Live(d)' => Live(d) /\ client[d].of \in Host
    BY <1>3, Owned DEF Live
  <2>2. ASSUME NEW d \in Client, Live(d), client[d].of # h
        PROVE  /\ client'[d].model = sup[client[d].of].model \/ "model" \in missed[client[d].of]
               /\ client'[d].effort = sup[client[d].of].effort
                    \/ "effort" \in missed[client[d].of] \/ sup[client[d].of].reopen
    BY <1>1, <1>3, <2>2 DEF Inv, Settings, h
  <2>3. ASSUME NEW d \in Client, Live(d), client[d].of = h
        PROVE  client'[d].effort = sup[h].effort \/ "effort" \in missed[h] \/ sup[h].reopen
    BY <1>3, <2>3 DEF Inv, Settings
  <2> QED BY <1>1, <1>2, <1>3, <1>4, <2>1, <2>2, <2>3 DEF Settings
<1> QED BY <1>1, <1>2, <1>3, <1>6, <1>7, <1>8, SettingsKeep, ReadingKept

LEMMA ReadConfigureKeeps == ASSUME Inv, ReadConfigure PROVE Inv'
<1> DEFINE h == hosted
           order == Head(orders)
           other == order.model \notin {Keep, sup[h].model}
           told == IF other THEN [sup[h] EXCEPT !.model = order.model] ELSE sup[h]
           mine == Missing(sup[h], order.model, "model", missed[h])
           both == Missing(told, order.effort, "effort", mine)
<1>1. /\ UNCHANGED <<relayVars, hosted, job, client, known>> /\ reader = Reading
      /\ orders' \in Seq(OrderFrame)
      /\ order.model \in Setting /\ order.effort \in Setting
  BY TakesTypes DEF ReadConfigure, Inv, OrderFrame
<1>2. Orders'
  BY <1>1, OrdersKept DEF ReadConfigure, relayVars
<1>3. CASE h = None
  <2>1. UNCHANGED <<reader, sup, missed>>
    BY <1>3 DEF ReadConfigure
  <2>2. SessionTypeOK'
    BY <1>1, <2>1 DEF Inv, SessionTypeOK, relayVars
  <2> QED BY <1>1, <1>2, <2>1, <2>2, QuietKeeps, ReadingKept
<1>4. CASE h # None
  <2>1. h \in Host /\ sup[h] \in Supervisor /\ missed[h] \in SUBSET {"model", "effort"}
    BY <1>4, Fields DEF Inv, SessionTypeOK
  <2>2. /\ told \in Supervisor /\ mine \in SUBSET {"model", "effort"}
        /\ told.client = sup[h].client /\ told.sid = sup[h].sid /\ told.effort = sup[h].effort
        /\ told.reopen = sup[h].reopen
        /\ "effort" \in missed[h] <=> "effort" \in mine
        /\ ~ other => told = sup[h] /\ mine = missed[h]
        /\ other /\ sup[h].client = None => "model" \in mine
    BY <1>1, <2>1, ModelChanged
  <2> HIDE DEF told, mine, other, order, h
  <2>3. /\ ChangeEffort(told, order.effort) \in Supervisor /\ both \in SUBSET {"model", "effort"}
        /\ ChangeEffort(told, order.effort).client = told.client
        /\ ChangeEffort(told, order.effort).sid = told.sid
        /\ ChangeEffort(told, order.effort).model = told.model
        /\ "model" \in mine <=> "model" \in both
        /\ \/ ChangeEffort(told, order.effort) = told /\ both = mine
           \/ told.client = None /\ "effort" \in both
           \/ told.client # None /\ ChangeEffort(told, order.effort).reopen
    <3>1. order.effort \in Setting
      BY <1>1
    <3> QED BY <2>2, <3>1, EffortChanged
  <2>4. \/ /\ other /\ sup[h].client # None
           /\ sup' = [sup EXCEPT ![h] = told] /\ missed' = [missed EXCEPT ![h] = mine]
           /\ reader' = [at |-> "setting", of |-> h, with |-> sup[h].client, effort |-> order.effort]
        \/ /\ ~ other \/ sup[h].client = None
           /\ sup' = [sup EXCEPT ![h] = ChangeEffort(told, order.effort)]
           /\ missed' = [missed EXCEPT ![h] = both]
           /\ UNCHANGED reader
    BY <1>4 DEF ReadConfigure, told, mine, other, order, h
  <2> HIDE DEF both
  <2>5. PICK new \in Supervisor, left \in SUBSET {"model", "effort"} :
             /\ sup' = [sup EXCEPT ![h] = new] /\ missed' = [missed EXCEPT ![h] = left]
             /\ new.client = sup[h].client /\ new.sid = sup[h].sid
             /\ \/ new.model = sup[h].model /\ ("model" \in missed[h] => "model" \in left)
                \/ sup[h].client = None /\ "model" \in left
                \/ /\ sup[h].client # None
                   /\ reader'.at = "setting" /\ reader'.of = h /\ reader'.with = sup[h].client
             /\ \/ new.effort = sup[h].effort /\ ("effort" \in missed[h] => "effort" \in left)
                   /\ (sup[h].reopen => new.reopen)
                \/ sup[h].client = None /\ "effort" \in left
                \/ new.reopen
    <3>1. CASE reader' = reader
      BY <2>2, <2>3, <2>4, <3>1
    <3>2. CASE reader' # reader
      <4>1. /\ sup' = [sup EXCEPT ![h] = told] /\ missed' = [missed EXCEPT ![h] = mine]
            /\ sup[h].client # None
            /\ reader'.at = "setting" /\ reader'.of = h /\ reader'.with = sup[h].client
        BY <2>4, <3>2
      <4> QED BY <2>2, <4>1
    <3> QED BY <3>1, <3>2
  <2>6. /\ sup' \in [Host -> Supervisor] /\ sup'[h] = new
        /\ \A i \in Host : i # h => sup'[i] = sup[i]
    BY <2>1, <2>5, SupStep DEF Inv
  <2>7. /\ missed' \in [Host -> SUBSET {"model", "effort"}] /\ missed'[h] = left
        /\ \A i \in Host : i # h => missed'[i] = missed[i]
    BY <2>1, <2>5 DEF Inv, SessionTypeOK
  <2>8. \/ reader' = Reading
        \/ /\ reader' = [at |-> "setting", of |-> h, with |-> sup[h].client, effort |-> order.effort]
           /\ sup[h].client # None
    <3>1. reader = Reading
      BY <1>1
    <3>2. \/ reader' = reader
          \/ /\ reader' = [at |-> "setting", of |-> h, with |-> sup[h].client, effort |-> order.effort]
             /\ sup[h].client # None
      BY <2>4
    <3> QED BY <3>1, <3>2
  <2>9. reader' \in Reader
    BY <1>1, <2>1, <2>8, Fields, ReadingReader DEF Inv, Reader, Reading, order
  <2>10. Readers'
    <3>1. CASE reader' = Reading
      BY <3>1, ReadingKept
    <3>2. CASE reader' = [at |-> "setting", of |-> h, with |-> sup[h].client, effort |-> order.effort]
               /\ sup[h].client # None
      <4>1. reader'.at = "setting" /\ reader'.of = h /\ reader'.with = sup[h].client
        BY <3>2
      <4> QED BY <1>1, <2>1, <3>2, <4>1, Numbers DEF Inv, Supervisors, Readers
    <3> QED BY <2>8, <3>1, <3>2
  <2>11. SessionTypeOK'
    BY <1>1, <2>6, <2>7, <2>9 DEF Inv, SessionTypeOK, relayVars
  <2>12. Settings'
    <3>1. \A d \in Client : Live(d) => client[d].of \in Host
      BY Owned DEF Live
    <3>2. ASSUME NEW d \in Client, Live(d), client[d].of = h
          PROVE  /\ \/ client[d].model = new.model \/ "model" \in left
                    \/ reader'.at = "setting" /\ reader'.of = h /\ reader'.with = d
                 /\ client[d].effort = new.effort \/ "effort" \in left \/ new.reopen
      <4>1. client[d].model = sup[h].model \/ "model" \in missed[h]
        BY <1>1, <3>2 DEF Inv, Settings, Reading
      <4>2. client[d].effort = sup[h].effort \/ "effort" \in missed[h] \/ sup[h].reopen
        BY <3>2 DEF Inv, Settings
      <4>3. sup[h].client \in {None, d}
        BY <3>2 DEF Inv, Clients, Live
      <4> QED BY <2>5, <4>1, <4>2, <4>3
    <3>3. ASSUME NEW d \in Client, Live(d), client[d].of # h
          PROVE  /\ client[d].model = sup[client[d].of].model \/ "model" \in missed[client[d].of]
                 /\ client[d].effort = sup[client[d].of].effort \/ "effort" \in missed[client[d].of]
                    \/ sup[client[d].of].reopen
      BY <1>1, <3>3 DEF Inv, Settings, Reading
    <3>4. ASSUME NEW d \in Client, Live(d)
          PROVE  LET i == client'[d].of
                 IN /\ \/ client'[d].model = sup'[i].model
                       \/ "model" \in missed'[i]
                       \/ reader'.at = "setting" /\ reader'.of = i /\ reader'.with = d
                    /\ client'[d].effort = sup'[i].effort \/ "effort" \in missed'[i] \/ sup'[i].reopen
      <4>1. CASE client[d].of = h
        BY <1>1, <2>6, <2>7, <3>2, <3>4, <4>1
      <4>2. CASE client[d].of # h
        <5>1. client[d].of \in Host /\ sup'[client[d].of] = sup[client[d].of]
              /\ missed'[client[d].of] = missed[client[d].of]
          BY <2>6, <2>7, <3>1, <3>4, <4>2
        <5> QED BY <1>1, <3>3, <3>4, <4>2, <5>1
      <4> QED BY <4>1, <4>2
    <3> QED BY <1>1, <3>4 DEF Settings, Live
  <2>13. \A i \in Host : sup'[i].client = sup[i].client /\ sup'[i].sid = sup[i].sid
    BY <2>5, <2>6
  <2>14. reader.at # "opening" /\ \A d \in Client : client'[d] = client[d]
    BY <1>1 DEF Reading
  <2> QED BY <1>1, <1>2, <2>10, <2>11, <2>12, <2>13, <2>14, SettingsKeep
<1> QED BY <1>3, <1>4

\* A turn that was being prepared is over, or is put to the session as it is.
-----------------------------------------------------------------------------
(* Turns. *)

\* A turn that begins, or asks its question.
LEMMA PreparedKeeps ==
  ASSUME Inv, NEW t \in Turn, UNCHANGED <<orders, hosted, reader, sup, client, known, missed, sent>>,
         job[t].at = "preparing", job'[t].of = job[t].of,
         \A u \in Turn : u # t => job'[u] = job[u],
         \/ job'[t].at = "over"
         \/ /\ job'[t].at = "playing" /\ job'[t].client = sup[job[t].of].client
            /\ sup[job[t].of].client # None /\ ~ Busy(job[t].of),
         SessionTypeOK'
  PROVE  Inv'
<1>1. \A u \in Turn : job'[u].of = job[u].of
  OBVIOUS
<1>2. Clients'
  <2>1. \A d \in Client : Opener(d) => Opener(d)'
    BY DEF Opener
  <2> QED BY <2>1 DEF Inv, Clients
<1>3. Supervisors'
  BY DEF Inv, Supervisors
<1>4. Jobs'
  <2>1. \A u, v \in Turn : (InHand(u) /\ InHand(v) /\ job[u].of = job[v].of)' => u = v
    <3>1. \A u \in Turn : InHand(u)' => u = t \/ InHand(u)
      BY DEF InHand
    <3>2. \A u \in Turn : InHand(t)' /\ job[u].of = job[t].of => ~ InHand(u)
      BY DEF InHand, Busy
    <3> QED BY <1>1, <3>1, <3>2 DEF Inv, Jobs, InHand
  <2>2. job'[t].at = "playing" => /\ job'[t].client # None
                                  /\ client[job'[t].client].of = job[t].of
                                  /\ client[job'[t].client].state \in {"open", "closed"}
    BY Owned DEF Inv, Supervisors
  <2>3. \A i : Made(i) <=> Made(i)'
    BY DEF Made
  <2>4. job'[t].at \notin {"none", "closing", "opening"} /\ job[t].of # None /\ Made(job[t].of)
    BY DEF Inv, Jobs
  <2> QED BY <1>1, <2>1, <2>2, <2>3, <2>4 DEF Inv, Jobs
<1>5. Readers'
  BY <1>1 DEF Inv, Readers, Reading
<1>6. Orders'
  BY OrdersKept DEF Inv, SessionTypeOK
<1>7. Memory'
  <2>1. \A d \in Client : \A u \in known[d] : job'[u] = job[u]
    BY Owned
  <2> QED BY <2>1 DEF Inv, Memory, Live
<1>8. Settings'
  BY DEF Inv, Settings, Live
<1> QED BY <1>2, <1>3, <1>4, <1>5, <1>6, <1>7, <1>8 DEF Inv

LEMMA OverTypes ==
  ASSUME SessionTypeOK, NEW t \in Turn, Over(t)
  PROVE  /\ job' \in [Turn -> Job] /\ job'[t].at = "over" /\ job'[t].of = job[t].of
         /\ \A u \in Turn : u # t => job'[u] = job[u]
         /\ link' \in {"none", "up", "down"} /\ current' \in Turn \cup {None}
         /\ sent' = sent /\ changes' = changes /\ online' = online
<1> DEFINE done == [at |-> "over", of |-> job[t].of, client |-> None, old |-> None]
<1>1. job' = [job EXCEPT ![t] = done]
  BY DEF Over, SessionTypeOK
<1>2. done \in Job /\ done.at = "over" /\ done.of = job[t].of
  BY Fields DEF Job
<1> HIDE DEF done
<1>3. /\ job' \in [Turn -> Job] /\ job'[t].at = "over" /\ job'[t].of = job[t].of
      /\ \A u \in Turn : u # t => job'[u] = job[u]
  BY <1>1, <1>2, JobStep
<1> QED BY <1>3, TellTypes DEF Over

LEMMA TurnRefusedKeeps == ASSUME Inv, NEW t \in Turn, TurnRefused(t) PROVE Inv'
<1>1. UNCHANGED <<orders, hosted, reader, sup, client, known, missed>> /\ job[t].at = "preparing"
  BY DEF TurnRefused
<1>2. /\ job' \in [Turn -> Job] /\ job'[t].at = "over" /\ job'[t].of = job[t].of
      /\ \A u \in Turn : u # t => job'[u] = job[u]
      /\ link' \in {"none", "up", "down"} /\ current' \in Turn \cup {None}
      /\ sent' = sent /\ changes' = changes /\ online' = online
  BY OverTypes DEF TurnRefused, Inv
<1>3. SessionTypeOK'
  BY <1>1, <1>2 DEF Inv, SessionTypeOK
<1> QED BY <1>1, <1>2, <1>3, PreparedKeeps

LEMMA AskKeeps == ASSUME Inv, NEW t \in Turn, Ask(t) PROVE Inv'
<1> DEFINE new == [job[t] EXCEPT !.at = "playing", !.client = sup[job[t].of].client]
<1>1. UNCHANGED <<relayVars, orders, hosted, reader, sup, client, known, missed>>
      /\ MayStart(t) /\ job[t].at = "preparing" /\ job[t].of \in Host
      /\ sup[job[t].of].client # None /\ ~ Busy(job[t].of)
  BY Owned DEF Ask, MayStart
<1>2. new \in Job
  BY <1>1, Fields DEF Inv, Job
<1>3. job' \in [Turn -> Job] /\ \A u \in Turn : job'[u] = IF u = t THEN new ELSE job[u]
  BY <1>2 DEF Ask, Inv, SessionTypeOK
<1>4. new.at = "playing" /\ new.client = sup[job[t].of].client /\ new.of = job[t].of
  BY Fields DEF Inv, Job
<1> HIDE DEF new
<1>5. SessionTypeOK'
  BY <1>1, <1>3 DEF Inv, SessionTypeOK, relayVars
<1> QED BY <1>1, <1>3, <1>4, <1>5, PreparedKeeps DEF relayVars

LEMMA ReadTurnKeeps == ASSUME Inv, ReadTurn PROVE Inv'
<1> DEFINE t == Head(orders).turn
<1>1. /\ UNCHANGED <<relayVars, hosted, reader, sup, client, known, missed>>
      /\ reader = Reading /\ orders' \in Seq(OrderFrame)
  BY TakesTypes DEF ReadTurn, Inv
<1>2. 1 \in DOMAIN orders /\ Head(orders) = orders[1] /\ orders[1].kind = "turn"
      /\ \A i \in DOMAIN orders' : i \in Nat /\ i + 1 \in DOMAIN orders /\ orders'[i] = orders[i + 1]
  BY TakenOrders, TakesTypes DEF ReadTurn, Inv
<1>3. t \in Turn /\ t <= sent /\ job[t].at = "none"
  BY <1>2, TurnsOrdered DEF Inv, Orders
<1>4. \A i \in DOMAIN orders' : orders'[i].kind = "turn" => orders'[i].turn # t /\ orders'[i].turn \in Turn
  <2>1. \A i \in Nat : i + 1 = 1 => i = 0
    OBVIOUS
  <2>2. 0 \notin DOMAIN orders'
    BY <1>1
  <2>3. \A i \in DOMAIN orders' : i + 1 # 1
    BY <1>2, <2>1, <2>2
  <2> QED BY <1>2, <2>3, TurnsOrdered DEF Inv, Orders
<1> HIDE DEF t
<1>5. CASE hosted = None
  <2>1. job' = job
    BY <1>5 DEF ReadTurn
  <2>2. SessionTypeOK'
    BY <1>1, <2>1 DEF Inv, SessionTypeOK, relayVars
  <2>3. Orders'
    BY <1>1, <2>1, OrdersKept DEF ReadTurn, relayVars
  <2> QED BY <1>1, <2>1, <2>2, <2>3, QuietKeeps, ReadingKept
<1>6. CASE hosted # None
  <2> DEFINE new == [job[t] EXCEPT !.at = "preparing", !.of = hosted]
  <2>1. hosted \in Host /\ Made(hosted)
    BY <1>6 DEF Inv, SessionTypeOK, Jobs
  <2>2. new \in Job /\ new.at = "preparing" /\ new.of = hosted
    BY <1>3, <2>1, Fields DEF Inv, Job
  <2>3. job' \in [Turn -> Job] /\ \A u \in Turn : job'[u] = IF u = t THEN new ELSE job[u]
    BY <1>3, <1>6, <2>2 DEF ReadTurn, Inv, SessionTypeOK, t
  <2> HIDE DEF new
  <2>4. job'[t].at = "preparing" /\ job'[t].of = hosted /\ \A u \in Turn : u # t => job'[u] = job[u]
    BY <1>3, <2>2, <2>3
  <2>5. SessionTypeOK'
    BY <1>1, <2>3 DEF Inv, SessionTypeOK, relayVars
  <2>6. Clients'
    <3>1. \A d \in Client : Opener(d) => Opener(d)'
      BY <1>1, <1>3, <2>4 DEF Opener
    <3> QED BY <1>1, <3>1 DEF Inv, Clients
  <2>7. Supervisors'
    BY <1>1 DEF Inv, Supervisors
  <2>8. Jobs'
    <3>1. \A u \in Turn : InHand(u)' => u # t /\ InHand(u) /\ job'[u] = job[u]
      BY <2>4 DEF InHand
    <3>2. \A i : Made(i) <=> Made(i)'
      BY <1>1 DEF Made
    <3>3. \A u, v \in Turn : (InHand(u) /\ InHand(v) /\ job[u].of = job[v].of)' => u = v
      BY <3>1 DEF Inv, Jobs
    <3> QED BY <1>1, <2>1, <2>4, <3>2, <3>3, Numbers DEF Inv, Jobs
  <2>9. Readers'
    BY <1>1, ReadingKept
  <2>10. Orders'
    <3>1. \A i \in DOMAIN orders' : orders'[i].kind = "turn" =>
            orders'[i].turn # None /\ orders'[i].turn <= sent' /\ job'[orders'[i].turn].at = "none"
      BY <1>1, <1>2, <1>4, <2>4 DEF Inv, Orders, relayVars
    <3>2. \A i, j \in Nat : i + 1 = j + 1 => i = j
      OBVIOUS
    <3>3. \A i, j \in DOMAIN orders' :
            orders'[i].kind = "turn" /\ orders'[j].kind = "turn"
              /\ orders'[j].turn = orders'[i].turn => i = j
      BY <1>2, <3>2 DEF Inv, Orders
    <3>4. \A u \in Turn : job'[u].at # "none" => u <= sent'
      BY <1>1, <1>3, <2>4 DEF Inv, Orders, relayVars
    <3> QED BY <3>1, <3>3, <3>4 DEF Orders
  <2>11. Memory'
    <3>1. \A d \in Client : \A u \in known[d] : job'[u] = job[u]
      BY <1>3, <2>4, Owned
    <3> QED BY <1>1, <3>1 DEF Inv, Memory, Live
  <2>12. Settings'
    BY <1>1 DEF Inv, Settings, Live
  <2> QED BY <2>5, <2>6, <2>7, <2>8, <2>9, <2>10, <2>11, <2>12 DEF Inv
<1> QED BY <1>5, <1>6

LEMMA ReopenKeeps == ASSUME Inv, NEW t \in Turn, Reopen(t) PROVE Inv'
<1> DEFINE h == job[t].of
           c == sup[h].client
           closing == [job[t] EXCEPT !.at = "closing", !.old = c]
           apart == [sup[h] EXCEPT !.reopen = FALSE, !.client = None]
<1>1. /\ h \in Host /\ c \in Client /\ job[t].at = "preparing" /\ ~ Busy(h)
      /\ client[c].of = h /\ client[c].state \in {"open", "closed"}
      /\ UNCHANGED <<relayVars, orders, hosted, reader, known, missed>>
  BY Fields, Owned DEF Reopen, MayStart, Inv, Supervisors
<1>2. /\ client' \in [Client -> SDKClient]
      /\ client'[c].state = "closed" /\ client'[c].of = h
      /\ \A d \in Client : d # c => client'[d] = client[d]
      /\ \A d \in Client : client'[d].of = client[d].of
  BY <1>1, ShutClosed DEF Reopen
<1>3. closing \in Job /\ closing.at = "closing" /\ closing.old = c /\ closing.of = h
  BY <1>1, Fields DEF Inv, Job
<1>4. job' \in [Turn -> Job] /\ \A u \in Turn : job'[u] = IF u = t THEN closing ELSE job[u]
  BY <1>3 DEF Reopen, Inv, SessionTypeOK
<1>5. /\ apart \in Supervisor /\ apart.client = None
      /\ apart.sid = sup[h].sid /\ apart.model = sup[h].model /\ apart.effort = sup[h].effort
  BY <1>1, Fields DEF Inv, Supervisor
<1>6. sup' \in [Host -> Supervisor] /\ \A i \in Host : sup'[i] = IF i = h THEN apart ELSE sup[i]
  BY <1>1, <1>5 DEF Reopen, Inv, SessionTypeOK
<1> HIDE DEF closing, apart
<1>7. /\ job'[t].at = "closing" /\ job'[t].old = c /\ job'[t].of = h
      /\ \A u \in Turn : u # t => job'[u] = job[u]
  BY <1>3, <1>4
<1>8. sup'[h].client = None /\ \A i \in Host : sup'[i].sid = sup[i].sid /\ (i # h => sup'[i] = sup[i])
  BY <1>1, <1>5, <1>6
<1> HIDE DEF h, c
<1>9. SessionTypeOK'
  BY <1>1, <1>2, <1>4, <1>6 DEF Inv, SessionTypeOK, relayVars
<1>10. \A d \in Client : Live(d)' => Live(d) /\ d # c /\ client'[d] = client[d] /\ client[d].of \in Host \ {h}
  <2>1. \A d \in Client : Live(d)' => Live(d) /\ d # c /\ client'[d] = client[d]
    BY <1>2 DEF Live
  <2>2. \A d \in Client : Live(d) /\ client[d].of = h => d = c
    BY <1>1, Numbers DEF Inv, Clients, Live, c
  <2>3. \A d \in Client : Live(d) => client[d].of \in Host
    BY Owned DEF Live
  <2> QED BY <2>1, <2>2, <2>3
<1>11. \A u \in Turn : job[u].of = h /\ InHand(u) => FALSE
  BY <1>1 DEF Busy, InHand
<1>12. Clients'
  <2>1. \A d \in Client : Opener(d) => Opener(d)'
    BY <1>1, <1>7 DEF Opener
  <2>2. \A d \in Client : client'[d].state = "none" <=> client'[d].of = None
    BY <1>1, <1>2, Numbers DEF Inv, Clients
  <2>3. ASSUME NEW d \in Client, client'[d].state = "open" PROVE sup'[client'[d].of].client = d
    <3>1. client[d].state = "open" /\ client'[d] = client[d] /\ client[d].of \in Host \ {h}
      BY <1>10, <2>3 DEF Live
    <3> QED BY <1>8, <3>1 DEF Inv, Clients
  <2>4. ASSUME NEW d \in Client, client'[d].state = "opening"
        PROVE  sup'[client'[d].of].client = None /\ Opener(d)'
    <3>1. client[d].state = "opening" /\ client'[d] = client[d] /\ client[d].of \in Host \ {h}
      BY <1>10, <2>4 DEF Live
    <3> QED BY <1>8, <2>1, <3>1 DEF Inv, Clients
  <2> QED BY <2>2, <2>3, <2>4 DEF Clients
<1>13. Supervisors'
  <2>1. ASSUME NEW i \in Host, sup'[i].client # None
        PROVE  client'[sup'[i].client].of = i /\ client'[sup'[i].client].state \in {"open", "closed"}
    <3>1. i # h /\ sup'[i] = sup[i] /\ sup[i].client \in Client
      BY <1>8, <2>1, Fields DEF Inv
    <3> QED BY <1>2, <2>1, <3>1 DEF Inv, Supervisors
  <2> QED BY <2>1 DEF Supervisors
<1>14. Jobs'
  <2>1. ASSUME NEW u \in Turn, u # t
        PROVE  /\ job[u].at \in {"closing", "opening"} =>
                    sup'[job[u].of].client = None /\ client'[job[u].old] = client[job[u].old]
               /\ job[u].at \in {"opening", "playing"} => client'[job[u].client] = client[job[u].client]
    <3>1. InHand(u) => job[u].of \in Host \ {h}
      BY <1>11, Owned DEF InHand
    <3>2. /\ job[u].at \in {"closing", "opening"} => sup'[job[u].of].client = None
      BY <1>8, <3>1 DEF Inv, Jobs, InHand
    <3>3. job[u].at \in {"closing", "opening"} => client'[job[u].old] = client[job[u].old]
      BY <1>1, <1>2, <3>1, Fields DEF Inv, Jobs, InHand
    <3>4. job[u].at \in {"opening", "playing"} => client'[job[u].client] = client[job[u].client]
      BY <1>1, <1>2, <3>1, Fields DEF Inv, Jobs, InHand
    <3> QED BY <3>2, <3>3, <3>4
  <2>2. \A i : Made(i) <=> Made(i)'
    BY <1>2 DEF Made
  <2>3. \A u, v \in Turn : (InHand(u) /\ InHand(v) /\ job[u].of = job[v].of)' => u = v
    <3>1. \A u \in Turn : InHand(u)' => u = t \/ (InHand(u) /\ job'[u] = job[u])
      BY <1>7 DEF InHand
    <3> QED BY <1>7, <1>11, <3>1 DEF Inv, Jobs
  <2>4. hosted' # None => Made(hosted)'
    BY <1>1, <2>2 DEF Inv, Jobs
  <2>5. \A u \in Turn : (job[u].at = "none" <=> job[u].of = None)' /\ (job'[u].at # "none" => Made(job'[u].of))
    BY <1>1, <1>7, Numbers DEF Inv, Jobs, h
  <2>6. \A u \in Turn : job'[u].at # "none" => Made(job[u].of)'
    BY <2>2, <2>5
  <2>7. \A u \in Turn :
         /\ job'[u].at \in {"closing", "opening"} =>
              /\ sup'[job'[u].of].client = None /\ job'[u].old # None
              /\ client'[job'[u].old].of = job'[u].of /\ client'[job'[u].old].state = "closed"
         /\ job'[u].at = "opening" =>
              /\ job'[u].client # None
              /\ client'[job'[u].client].of = job'[u].of /\ client'[job'[u].client].state = "opening"
         /\ job'[u].at = "playing" =>
              /\ job'[u].client # None
              /\ client'[job'[u].client].of = job'[u].of
              /\ client'[job'[u].client].state \in {"open", "closed"}
    <3>1. ASSUME NEW u \in Turn, u # t
          PROVE /\ job[u].at \in {"closing", "opening"} =>
                     /\ sup'[job[u].of].client = None /\ job[u].old # None
                     /\ client'[job[u].old].of = job[u].of /\ client'[job[u].old].state = "closed"
                /\ job[u].at = "opening" =>
                     /\ job[u].client # None
                     /\ client'[job[u].client].of = job[u].of /\ client'[job[u].client].state = "opening"
                /\ job[u].at = "playing" =>
                     /\ job[u].client # None
                     /\ client'[job[u].client].of = job[u].of
                     /\ client'[job[u].client].state \in {"open", "closed"}
      BY <2>1, <3>1 DEF Inv, Jobs
    <3> QED BY <1>1, <1>2, <1>7, <1>8, <3>1, Numbers
  <2> QED BY <2>3, <2>4, <2>5, <2>6, <2>7 DEF Jobs
<1>15. Readers'
  <2>1. reader.at \in {"opening", "setting"} =>
          /\ client'[reader.with].of = client[reader.with].of
          /\ reader.at = "opening" => client'[reader.with] = client[reader.with]
          /\ client[reader.with].state \in {"open", "closed"}
               => client'[reader.with].state \in {"open", "closed"}
    BY <1>1, <1>2, Fields DEF Inv, Readers
  <2>2. \A u \in Turn : job'[u].of = job[u].of
    BY <1>7 DEF h
  <2> QED BY <1>1, <2>1, <2>2 DEF Inv, Readers, Reading
<1>16. Orders'
  BY <1>1, <1>7, OrdersKept DEF Inv, SessionTypeOK, relayVars
<1>17. Memory'
  <2>1. \A d \in Client : \A u \in known[d] : job'[u] = job[u] /\ sup'[job[u].of].sid = sup[job[u].of].sid
    BY <1>1, <1>7, <1>8, Owned
  <2>2. \A d \in Client : Live(d)' => sup'[client'[d].of].sid \in {None, client'[d].conv}
    BY <1>8, <1>10 DEF Inv, Memory
  <2> QED BY <1>1, <2>1, <2>2 DEF Inv, Memory
<1>18. Settings'
  <2>1. \A d \in Client : Live(d)' => Live(d) /\ client'[d] = client[d]
                                      /\ sup'[client[d].of] = sup[client[d].of]
    BY <1>8, <1>10
  <2> QED BY <1>1, <2>1 DEF Inv, Settings
<1> QED BY <1>9, <1>12, <1>13, <1>14, <1>15, <1>16, <1>17, <1>18 DEF Inv

\* A reopening ends: the turn asks the new session, or the former one if the new
\* one was refused.
\* A reopening ends with one session shown: the new one, or the former one, dead.
LEMMA ReopeningEnds ==
  ASSUME Inv, NEW t \in Turn, job[t].at = "opening",
         NEW x \in Client, SessionTypeOK',
         UNCHANGED <<orders, hosted, reader, known, missed, sent>>,
         job'[t].at = "playing", job'[t].of = job[t].of, job'[t].client = x,
         \A u \in Turn : u # t => job'[u] = job[u],
         sup'[job[t].of].client = x,
         \A i \in Host : /\ sup'[i].sid = sup[i].sid /\ sup'[i].model = sup[i].model
                         /\ sup'[i].effort = sup[i].effort /\ sup'[i].reopen = sup[i].reopen
                         /\ i # job[t].of => sup'[i] = sup[i],
         \A d \in Client : client'[d].of = client[d].of /\ (d # job[t].client => client'[d] = client[d]),
         \/ /\ x = job[t].client /\ client'[x].state = "open"
            /\ client'[x].conv = client[x].conv /\ client'[x].model = client[x].model
            /\ client'[x].effort = client[x].effort
         \/ x = job[t].old /\ client'[job[t].client].state = "closed"
  PROVE  Inv'
<1> DEFINE h == job[t].of
           c == job[t].client
<1>1. /\ h \in Host /\ c \in Client /\ sup[h].client = None
      /\ client[c].of = h /\ client[c].state = "opening"
      /\ job[t].old \in Client /\ client[job[t].old].of = h /\ client[job[t].old].state = "closed"
  BY Fields, Owned DEF Inv, Jobs
<1>2. /\ client'[x].of = h /\ client'[x].state \in {"open", "closed"}
      /\ client'[c].state \in {"open", "closed"} /\ (client'[c].state = "open" => x = c)
  BY <1>1
<1>3. \A d \in Client : client[d].of = h /\ Live(d) => d = c
  <2>1. ASSUME NEW d \in Client, client[d].of = h, Live(d) PROVE d = c
    <3>1. client[d].state = "opening" /\ Opener(d)
      BY <1>1, <2>1, Numbers DEF Inv, Clients, Live
    <3>2. ~ (reader.at = "opening" /\ reader.with = d)
      BY <2>1 DEF Inv, Readers
    <3>3. \A u \in Turn : job[u].at = "opening" /\ job[u].client = d => u = t
      BY <2>1 DEF Inv, Jobs, InHand
    <3> QED BY <3>1, <3>2, <3>3 DEF Opener
  <2> QED BY <2>1
<1>4. \A d \in Client : Live(d)' => /\ Live(d) /\ client'[d].of = client[d].of
                                    /\ client'[d].conv = client[d].conv /\ client'[d].model = client[d].model
                                    /\ client'[d].effort = client[d].effort /\ client[d].of \in Host
  <2>1. \A d \in Client : Live(d) => client[d].of \in Host
    BY Owned DEF Live
  <2>2. ASSUME NEW d \in Client, Live(d)', d # c PROVE Live(d) /\ client'[d] = client[d]
    BY <2>2 DEF Live
  <2>3. client'[c].state \in {"opening", "open"} => x = c
    BY <1>2
  <2>4. Live(c)
    BY <1>1 DEF Live
  <2>5. x = c => /\ client'[c].conv = client[c].conv /\ client'[c].model = client[c].model
                 /\ client'[c].effort = client[c].effort
    BY <1>1
  <2> QED BY <1>1, <2>1, <2>2, <2>3, <2>4, <2>5 DEF Live
<1>5. Clients'
  <2>1. \A d \in Client : client'[d].state = "none" <=> client'[d].of = None
    BY <1>1, <1>2, Numbers DEF Inv, Clients
  <2>2. ASSUME NEW d \in Client, client'[d].state = "open" PROVE sup'[client'[d].of].client = d
    <3>1. CASE d = c
      BY <1>1, <1>2, <2>2, <3>1
    <3>2. CASE d # c
      <4>1. client'[d] = client[d] /\ client[d].state = "open" /\ client[d].of \in Host \ {h}
        BY <1>3, <2>2, <3>2, Owned DEF Live
      <4> QED BY <4>1 DEF Inv, Clients
    <3> QED BY <3>1, <3>2
  <2>3. ASSUME NEW d \in Client, client'[d].state = "opening"
        PROVE  sup'[client'[d].of].client = None /\ Opener(d)'
    <3>1. d # c
      BY <1>2, <2>3
    <3>2. client'[d] = client[d] /\ client[d].state = "opening" /\ client[d].of \in Host \ {h}
      BY <1>3, <2>3, <3>1, Owned DEF Live
    <3>3. Opener(d)'
      BY <3>1, <3>2 DEF Inv, Clients, Opener
    <3> QED BY <3>2, <3>3 DEF Inv, Clients
  <2> QED BY <2>1, <2>2, <2>3 DEF Clients
<1>6. Supervisors'
  <2>1. ASSUME NEW i \in Host, sup'[i].client # None
        PROVE  client'[sup'[i].client].of = i /\ client'[sup'[i].client].state \in {"open", "closed"}
    <3>1. CASE i = h
      BY <1>2, <3>1
    <3>2. CASE i # h
      <4>1. sup'[i] = sup[i] /\ sup[i].client \in Client /\ client[sup[i].client].of = i
        BY <2>1, <3>2, Fields DEF Inv, Supervisors
      <4>2. sup[i].client # c
        BY <1>1, <3>2, <4>1
      <4> QED BY <2>1, <4>1, <4>2 DEF Inv, Supervisors
    <3> QED BY <3>1, <3>2
  <2> QED BY <2>1 DEF Supervisors
<1>7. Jobs'
  <2>1. \A u \in Turn : u # t /\ InHand(u) => job[u].of \in Host \ {h}
    BY Owned DEF Inv, Jobs, InHand
  <2>2. ASSUME NEW u \in Turn, u # t
        PROVE  /\ job[u].at \in {"closing", "opening"} =>
                    sup'[job[u].of].client = None /\ client'[job[u].old] = client[job[u].old]
               /\ job[u].at \in {"opening", "playing"} => client'[job[u].client] = client[job[u].client]
    <3>1. job[u].at \in {"closing", "opening"} => sup'[job[u].of].client = None
      BY <2>1, <2>2 DEF Inv, Jobs, InHand
    <3>2. job[u].at \in {"closing", "opening"} => client'[job[u].old] = client[job[u].old]
      BY <1>1, <2>1, <2>2, Fields DEF Inv, Jobs, InHand
    <3>3. job[u].at \in {"opening", "playing"} => client'[job[u].client] = client[job[u].client]
      BY <1>1, <2>1, <2>2, Fields DEF Inv, Jobs, InHand
    <3> QED BY <3>1, <3>2, <3>3
  <2>3. \A i : Made(i) <=> Made(i)'
    BY DEF Made
  <2>4. \A u, v \in Turn : (InHand(u) /\ InHand(v) /\ job[u].of = job[v].of)' => u = v
    <3>1. \A u \in Turn : job'[u].of = job[u].of /\ (InHand(u)' => InHand(u))
      BY DEF InHand
    <3> QED BY <3>1 DEF Inv, Jobs
  <2>5. \A u \in Turn : /\ job'[u].at = "none" <=> job'[u].of = None
                        /\ job'[u].at # "none" => Made(job[u].of)'
    <3>1. \A u \in Turn : job'[u].of = job[u].of /\ (job'[u].at = "none" <=> job[u].at = "none")
      OBVIOUS
    <3>2. \A u \in Turn : /\ job[u].at = "none" <=> job[u].of = None
                          /\ job[u].at # "none" => Made(job[u].of)
      BY DEF Inv, Jobs
    <3> QED BY <3>1, <3>2 DEF Made
  <2>6. hosted' # None => Made(hosted)'
    BY <2>3 DEF Inv, Jobs
  <2>7. \A u \in Turn :
         /\ job'[u].at \in {"closing", "opening"} =>
              /\ sup'[job'[u].of].client = None /\ job'[u].old # None
              /\ client'[job'[u].old].of = job'[u].of /\ client'[job'[u].old].state = "closed"
         /\ job'[u].at = "opening" =>
              /\ job'[u].client # None
              /\ client'[job'[u].client].of = job'[u].of /\ client'[job'[u].client].state = "opening"
         /\ job'[u].at = "playing" =>
              /\ job'[u].client # None
              /\ client'[job'[u].client].of = job'[u].of
              /\ client'[job'[u].client].state \in {"open", "closed"}
    <3>1. ASSUME NEW u \in Turn, u # t
          PROVE /\ job[u].at \in {"closing", "opening"} =>
                     /\ sup'[job[u].of].client = None /\ job[u].old # None
                     /\ client'[job[u].old].of = job[u].of /\ client'[job[u].old].state = "closed"
                /\ job[u].at = "opening" =>
                     /\ job[u].client # None
                     /\ client'[job[u].client].of = job[u].of /\ client'[job[u].client].state = "opening"
                /\ job[u].at = "playing" =>
                     /\ job[u].client # None
                     /\ client'[job[u].client].of = job[u].of
                     /\ client'[job[u].client].state \in {"open", "closed"}
      BY <2>2, <3>1 DEF Inv, Jobs
    <3> QED BY <1>2, <3>1, Numbers
  <2> QED BY <2>4, <2>5, <2>6, <2>7 DEF Jobs
<1>8. Readers'
  <2>1. reader.at \in {"opening", "setting"} =>
          /\ client'[reader.with].of = client[reader.with].of
          /\ client[reader.with].state \in {"open", "closed"}
               => client'[reader.with].state \in {"open", "closed"}
    BY <1>1, <1>2, Fields DEF Inv, Readers
  <2>2. reader.at = "opening" => client'[reader.with] = client[reader.with]
    BY <1>1, Fields DEF Inv, Readers
  <2>3. \A u \in Turn : job'[u].of = job[u].of
    OBVIOUS
  <2> QED BY <2>1, <2>2, <2>3 DEF Inv, Readers, Reading
<1>9. Orders'
  BY OrdersKept DEF Inv, SessionTypeOK
<1>10. Memory'
  <2>1. \A d \in Client : \A u \in known[d] : job'[u] = job[u] /\ sup'[job[u].of].sid = sup[job[u].of].sid
    BY Owned
  <2> QED BY <1>4, <2>1 DEF Inv, Memory
<1>11. Settings'
  BY <1>4 DEF Inv, Settings
<1> QED BY <1>5, <1>6, <1>7, <1>8, <1>9, <1>10, <1>11 DEF Inv

LEMMA ReopenedKeeps == ASSUME Inv, NEW t \in Turn, Reopened(t) PROVE Inv'
<1> DEFINE h == job[t].of
           c == job[t].client
           plays == [job[t] EXCEPT !.at = "playing"]
           open == [client[c] EXCEPT !.state = "open"]
           has == [sup[h] EXCEPT !.client = c]
<1>1. /\ UNCHANGED <<relayVars, orders, hosted, reader, known, missed>> /\ job[t].at = "opening"
      /\ h \in Host /\ c \in Client
  BY Fields, Owned DEF Reopened, Inv, Jobs
<1>2. plays \in Job /\ plays.at = "playing" /\ plays.of = h /\ plays.client = c
  BY Fields DEF Inv, Job
<1>3. open \in SDKClient /\ open.state = "open" /\ open.of = client[c].of /\ open.conv = client[c].conv
      /\ open.model = client[c].model /\ open.effort = client[c].effort
  BY <1>1, Fields DEF Inv, SDKClient
<1>4. has \in Supervisor /\ has.client = c /\ has.sid = sup[h].sid /\ has.model = sup[h].model
      /\ has.effort = sup[h].effort /\ has.reopen = sup[h].reopen
  BY <1>1, Fields DEF Inv, Supervisor
<1>5. job' = [job EXCEPT ![t] = plays] /\ client' = [client EXCEPT ![c] = open]
      /\ sup' = [sup EXCEPT ![h] = has]
  BY <1>1 DEF Reopened, Inv, SessionTypeOK
<1> HIDE DEF plays, open, has
<1>6. /\ job' \in [Turn -> Job] /\ \A u \in Turn : job'[u] = IF u = t THEN plays ELSE job[u]
      /\ client' \in [Client -> SDKClient] /\ \A d \in Client : client'[d] = IF d = c THEN open ELSE client[d]
      /\ sup' \in [Host -> Supervisor] /\ \A i \in Host : sup'[i] = IF i = h THEN has ELSE sup[i]
  BY <1>1, <1>2, <1>3, <1>4, <1>5, JobStep, ClientStep, SupStep DEF Inv
<1>7. SessionTypeOK'
  BY <1>1, <1>6 DEF Inv, SessionTypeOK, relayVars
<1>8. /\ \A u \in Turn : u # t => job'[u] = job[u]
      /\ job'[t].at = "playing" /\ job'[t].of = h /\ job'[t].client = c
  BY <1>2, <1>6
<1>9. /\ sup'[h].client = c
      /\ \A i \in Host : /\ sup'[i].sid = sup[i].sid /\ sup'[i].model = sup[i].model
                         /\ sup'[i].effort = sup[i].effort /\ sup'[i].reopen = sup[i].reopen
                         /\ i # h => sup'[i] = sup[i]
  BY <1>1, <1>4, <1>6
<1>10. /\ \A d \in Client : client'[d].of = client[d].of /\ (d # c => client'[d] = client[d])
       /\ client'[c].state = "open" /\ client'[c].conv = client[c].conv
       /\ client'[c].model = client[c].model /\ client'[c].effort = client[c].effort
  BY <1>1, <1>3, <1>6
<1>11. sent' = sent
  BY <1>1 DEF relayVars
<1> QED BY <1>1, <1>7, <1>8, <1>9, <1>10, <1>11, ReopeningEnds

LEMMA ReopenFailsKeeps == ASSUME Inv, NEW t \in Turn, ReopenFails(t) PROVE Inv'
<1> DEFINE h == job[t].of
           c == job[t].client
           x == job[t].old
           plays == [job[t] EXCEPT !.at = "playing", !.client = x]
           has == [sup[h] EXCEPT !.client = x]
<1>1. /\ UNCHANGED <<relayVars, orders, hosted, reader, known, missed>> /\ job[t].at = "opening"
      /\ h \in Host /\ c \in Client /\ x \in Client
  BY Fields, Owned DEF ReopenFails, Inv, Jobs
<1>2. plays \in Job /\ plays.at = "playing" /\ plays.of = h /\ plays.client = x
  BY <1>1, Fields DEF Inv, Job
<1>3. has \in Supervisor /\ has.client = x /\ has.sid = sup[h].sid /\ has.model = sup[h].model
      /\ has.effort = sup[h].effort /\ has.reopen = sup[h].reopen
  BY <1>1, Fields DEF Inv, Supervisor
<1>4. job' = [job EXCEPT ![t] = plays] /\ sup' = [sup EXCEPT ![h] = has]
  BY <1>1 DEF ReopenFails, Inv, SessionTypeOK
<1>5. /\ client' \in [Client -> SDKClient] /\ client'[c].state = "closed"
      /\ \A d \in Client : client'[d].of = client[d].of /\ (d # c => client'[d] = client[d])
  BY <1>1, ShutClosed DEF ReopenFails
<1> HIDE DEF plays, has
<1>6. /\ job' \in [Turn -> Job] /\ \A u \in Turn : job'[u] = IF u = t THEN plays ELSE job[u]
      /\ sup' \in [Host -> Supervisor] /\ \A i \in Host : sup'[i] = IF i = h THEN has ELSE sup[i]
  BY <1>1, <1>2, <1>3, <1>4, JobStep, SupStep DEF Inv
<1>7. SessionTypeOK'
  BY <1>1, <1>5, <1>6 DEF Inv, SessionTypeOK, relayVars
<1>8. /\ \A u \in Turn : u # t => job'[u] = job[u]
      /\ job'[t].at = "playing" /\ job'[t].of = h /\ job'[t].client = x
  BY <1>2, <1>6
<1>9. /\ sup'[h].client = x
      /\ \A i \in Host : /\ sup'[i].sid = sup[i].sid /\ sup'[i].model = sup[i].model
                         /\ sup'[i].effort = sup[i].effort /\ sup'[i].reopen = sup[i].reopen
                         /\ i # h => sup'[i] = sup[i]
  BY <1>1, <1>3, <1>6
<1>10. sent' = sent
  BY <1>1 DEF relayVars
<1> QED BY <1>1, <1>5, <1>7, <1>8, <1>9, <1>10, ReopeningEnds

\* A conversation is named: the one its Hosted resumes already, if there is one.
LEMMA ReadyKeeps == ASSUME Inv, NEW t \in Turn, Ready(t) PROVE Inv'
<1> DEFINE h == job[t].of
           c == job[t].client
           s == client[c].conv
           new == [sup[h] EXCEPT !.sid = s]
<1>1. /\ UNCHANGED <<orders, hosted, reader, job, client, known, missed>>
      /\ UNCHANGED relayVars /\ job[t].at = "playing"
      /\ h \in Host /\ c \in Client /\ s \in Client
      /\ client[c].of = h /\ client[c].state = "open"
  BY Fields, Owned DEF Ready, Inv, Jobs
<1>2. /\ new \in Supervisor /\ new.sid = s /\ new.client = sup[h].client
      /\ new.model = sup[h].model /\ new.effort = sup[h].effort /\ new.reopen = sup[h].reopen
  BY <1>1, Fields DEF Inv, Supervisor
<1>3. /\ sup' \in [Host -> Supervisor]
      /\ \A i \in Host : sup'[i] = IF i = h THEN new ELSE sup[i]
  BY <1>1, <1>2, SupStep DEF Ready, Inv
<1> HIDE DEF new, s, c, h
<1>4. /\ sup'[h].sid = s
      /\ \A i \in Host : /\ sup'[i].client = sup[i].client /\ sup'[i].model = sup[i].model
                         /\ sup'[i].effort = sup[i].effort /\ sup'[i].reopen = sup[i].reopen
                         /\ i # h => sup'[i].sid = sup[i].sid
  BY <1>1, <1>2, <1>3
<1>5. SessionTypeOK'
  BY <1>1, <1>3 DEF Inv, SessionTypeOK, relayVars
<1>6. Clients' /\ Supervisors'
  <2>1. \A d \in Client : Opener(d) <=> Opener(d)'
    BY <1>1 DEF Opener
  <2> QED BY <1>1, <1>4, <2>1, Fields, Owned, Numbers DEF Inv, Clients, Supervisors
<1>7. Jobs'
  <2>1. \A u \in Turn : job[u].at \in {"closing", "opening"} => sup'[job[u].of].client = None
    BY <1>4, Owned DEF Inv, Jobs
  <2> QED BY <1>1, <2>1 DEF Inv, Jobs, InHand, Made
<1>8. Readers' /\ Orders'
  BY <1>1 DEF Inv, Readers, Reading, Orders, relayVars
<1>9. Memory'
  <2>1. sup[h].sid \in {None, s}
    BY <1>1 DEF Inv, Memory, Live, s
  <2>2. ASSUME NEW d \in Client, NEW u \in known[d]
        PROVE  /\ job[u].at = "over"
               /\ sup'[job[u].of].sid # None /\ u \in known[sup'[job[u].of].sid]
    <3>1. /\ job[u].at = "over" /\ job[u].of \in Host
          /\ sup[job[u].of].sid # None /\ u \in known[sup[job[u].of].sid]
      BY <2>2, Owned DEF Inv, Memory
    <3>2. sup'[job[u].of].sid = sup[job[u].of].sid
      BY <1>4, <2>1, <3>1
    <3> QED BY <3>1, <3>2
  <2>3. ASSUME NEW d \in Client, Live(d)
        PROVE  sup'[client[d].of].sid \in {None, client[d].conv}
    <3>1. client[d].of \in Host /\ sup[client[d].of].sid \in {None, client[d].conv}
      BY <2>3, Owned DEF Inv, Memory, Live
    <3>2. CASE client[d].of = h
      <4>1. sup[h].client = c
        BY <1>1 DEF Inv, Clients
      <4>2. d = c
        BY <1>1, <2>3, <3>2, <4>1, Numbers DEF Inv, Clients, Live
      <4> QED BY <1>4, <3>2, <4>2 DEF s
    <3>3. CASE client[d].of # h
      BY <1>4, <3>1, <3>3
    <3> QED BY <3>2, <3>3
  <2> QED BY <1>1, <2>2, <2>3 DEF Memory, Live
<1>10. Settings'
  BY <1>1, <1>4, Owned DEF Inv, Settings, Live
<1> QED BY <1>1, <1>5, <1>6, <1>7, <1>8, <1>9, <1>10 DEF Inv

LEMMA EndTurnKeeps == ASSUME Inv, NEW t \in Turn, EndTurn(t) PROVE Inv'
<1> DEFINE h == job[t].of
           c == job[t].client
           s == client[c].conv
<1>1. /\ UNCHANGED <<orders, hosted, reader, client, missed>> /\ job[t].at = "playing"
      /\ h \in Host /\ c \in Client /\ s \in Client
      /\ client[c].of = h /\ client[c].state \in {"open", "closed"}
  BY Fields, Owned DEF EndTurn, Inv, Jobs
<1>2. /\ job' \in [Turn -> Job] /\ job'[t].at = "over" /\ job'[t].of = h
      /\ \A u \in Turn : u # t => job'[u] = job[u]
      /\ link' \in {"none", "up", "down"} /\ current' \in Turn \cup {None}
      /\ sent' = sent /\ changes' = changes /\ online' = online
  BY OverTypes DEF EndTurn, Inv
<1>3. \/ /\ client[c].state = "open"
         /\ known' = [known EXCEPT ![s] = @ \cup {t}]
         /\ sup' = [sup EXCEPT ![h].sid = s]
      \/ UNCHANGED <<known, sup>>
  BY DEF EndTurn
<1>4. /\ known' \in [Client -> SUBSET Turn]
      /\ sup' \in [Host -> Supervisor]
      /\ \A i \in Host : /\ sup'[i].client = sup[i].client /\ sup'[i].model = sup[i].model
                         /\ sup'[i].effort = sup[i].effort /\ sup'[i].reopen = sup[i].reopen
                         /\ i # h => sup'[i].sid = sup[i].sid
      /\ \A d \in Client : known[d] \subseteq known'[d]
      /\ \A d \in Client : \A u \in known'[d] : u = t \/ u \in known[d]
      /\ \/ sup'[h].sid = sup[h].sid /\ known' = known
         \/ client[c].state = "open" /\ sup'[h].sid = s /\ t \in known'[s]
  <2>1. CASE UNCHANGED <<known, sup>>
    BY <1>1, <2>1, Fields DEF Inv, SessionTypeOK
  <2>2. CASE /\ client[c].state = "open"
             /\ known' = [known EXCEPT ![s] = @ \cup {t}]
             /\ sup' = [sup EXCEPT ![h].sid = s]
    <3> DEFINE new == [sup[h] EXCEPT !.sid = s]
    <3>1. /\ new \in Supervisor /\ new.sid = s /\ new.client = sup[h].client
          /\ new.model = sup[h].model /\ new.effort = sup[h].effort /\ new.reopen = sup[h].reopen
      BY <1>1, Fields DEF Inv, Supervisor
    <3>2. /\ sup' \in [Host -> Supervisor] /\ \A i \in Host : sup'[i] = IF i = h THEN new ELSE sup[i]
      BY <1>1, <2>2, <3>1 DEF Inv, SessionTypeOK
    <3>3. /\ known' \in [Client -> SUBSET Turn]
          /\ \A d \in Client : known'[d] = IF d = s THEN known[s] \cup {t} ELSE known[d]
      BY <1>1, <2>2 DEF Inv, SessionTypeOK
    <3> HIDE DEF new, s, c, h
    <3>4. /\ \A i \in Host : /\ sup'[i].client = sup[i].client /\ sup'[i].model = sup[i].model
                             /\ sup'[i].effort = sup[i].effort /\ sup'[i].reopen = sup[i].reopen
                             /\ i # h => sup'[i].sid = sup[i].sid
          /\ sup'[h].sid = s
      BY <1>1, <3>1, <3>2
    <3>5. /\ \A d \in Client : known[d] \subseteq known'[d]
          /\ \A d \in Client : \A u \in known'[d] : u = t \/ u \in known[d]
          /\ t \in known'[s]
      BY <1>1, <3>3
    <3> QED BY <2>2, <3>2, <3>3, <3>4, <3>5
  <2> QED BY <1>3, <2>1, <2>2
<1> HIDE DEF h, c, s
<1>5. SessionTypeOK'
  BY <1>1, <1>2, <1>4 DEF Inv, SessionTypeOK
<1>6. Clients'
  <2>1. \A d \in Client : Opener(d) => Opener(d)'
    BY <1>1, <1>2 DEF Opener
  <2> QED BY <1>1, <1>4, <2>1, Owned, Numbers DEF Inv, Clients
<1>7. Supervisors'
  BY <1>1, <1>4, Fields DEF Inv, Supervisors
<1>8. Jobs'
  <2>1. \A u \in Turn : InHand(u)' => u # t /\ InHand(u) /\ job'[u] = job[u]
    BY <1>2 DEF InHand
  <2>2. \A i : Made(i) <=> Made(i)'
    BY <1>1 DEF Made
  <2>3. \A u, v \in Turn : (InHand(u) /\ InHand(v) /\ job[u].of = job[v].of)' => u = v
    BY <2>1 DEF Inv, Jobs
  <2>4. \A u \in Turn : job[u].at \in {"closing", "opening"} => sup'[job[u].of].client = None
    BY <1>4, Owned DEF Inv, Jobs
  <2>5. job'[t].of # None /\ Made(h)
    BY <1>1, <1>2, Numbers DEF Inv, Jobs, h
  <2> QED BY <1>1, <1>2, <2>2, <2>3, <2>4, <2>5 DEF Inv, Jobs
<1>9. Readers'
  BY <1>1, <1>2 DEF Inv, Readers, Reading, h
<1>10. Orders'
  BY <1>1, <1>2, OrdersKept DEF Inv, SessionTypeOK
<1>11. Memory'
  <2>1. Live(c) /\ client[c].of = h => sup[h].sid \in {None, s}
    BY <1>1 DEF Inv, Memory, s
  <2>2. ASSUME NEW d \in Client, NEW u \in known'[d]
        PROVE  /\ job'[u].at = "over"
               /\ sup'[job'[u].of].sid # None /\ u \in known'[sup'[job'[u].of].sid]
    <3>1. CASE u = t /\ u \notin known[d]
      BY <1>1, <1>2, <1>4, <2>2, <3>1, Numbers
    <3>2. CASE u \in known[d]
      <4>1. /\ u \in Turn /\ job[u].at = "over" /\ job[u].of \in Host /\ u # t
            /\ sup[job[u].of].sid \in Client /\ u \in known[sup[job[u].of].sid]
        BY <1>1, <3>2, Owned DEF Inv, Memory
      <4>2. job'[u] = job[u]
        BY <1>2, <4>1
      <4>3. CASE job[u].of = h /\ client[c].state = "open"
        <5>1. sup[h].sid = s /\ sup'[h].sid = s
          BY <1>1, <1>4, <2>1, <4>1, <4>3, Numbers DEF Live
        <5> QED BY <1>1, <1>4, <4>1, <4>2, <4>3, <5>1, Numbers
      <4>4. CASE ~ (job[u].of = h /\ client[c].state = "open")
        <5>1. sup'[job[u].of].sid = sup[job[u].of].sid
          BY <1>4, <4>1, <4>4
        <5> QED BY <1>4, <4>1, <4>2, <5>1, Numbers
      <4> QED BY <4>3, <4>4
    <3> QED BY <1>4, <2>2, <3>1, <3>2
  <2>3. ASSUME NEW d \in Client, Live(d)
        PROVE  sup'[client[d].of].sid \in {None, client[d].conv}
    <3>1. client[d].of \in Host /\ sup[client[d].of].sid \in {None, client[d].conv}
      BY <2>3, Owned DEF Inv, Memory, Live
    <3>2. CASE client[d].of = h /\ client[c].state = "open"
      <4>1. sup[h].client = c
        BY <1>1, <3>2 DEF Inv, Clients
      <4>2. d = c
        BY <1>1, <2>3, <3>2, <4>1, Numbers DEF Inv, Clients, Live
      <4> QED BY <1>4, <3>1, <3>2, <4>2 DEF s
    <3>3. CASE ~ (client[d].of = h /\ client[c].state = "open")
      BY <1>4, <3>1, <3>3
    <3> QED BY <3>2, <3>3
  <2> QED BY <1>1, <2>2, <2>3 DEF Memory, Live
<1>12. Settings'
  BY <1>1, <1>4, Owned DEF Inv, Settings, Live
<1> QED BY <1>5, <1>6, <1>7, <1>8, <1>9, <1>10, <1>11, <1>12 DEF Inv

-----------------------------------------------------------------------------
(* The theorems. *)

LEMMA InitHolds == SessionInit => Inv
<1> SUFFICES ASSUME SessionInit PROVE Inv
  OBVIOUS
<1> USE DEF SessionInit
<1>1. SessionTypeOK
  <2>1. [model |-> Default, effort |-> Default, reopen |-> FALSE, client |-> None, sid |-> None]
          \in Supervisor
    BY SessionAssumption DEF Supervisor
  <2>2. [at |-> "none", of |-> None, client |-> None, old |-> None] \in Job
    BY DEF Job
  <2>3. \A c \in Client : [state |-> "none", of |-> None, model |-> Default, effort |-> Default,
                           conv |-> c] \in SDKClient
    BY SessionAssumption DEF SDKClient
  <2>4. sup \in [Host -> Supervisor] /\ job \in [Turn -> Job] /\ client \in [Client -> SDKClient]
    BY <2>1, <2>2, <2>3
  <2>5. orders \in Seq(OrderFrame) /\ sent \in 0..MaxTurns /\ changes \in 0..MaxChanges
    BY SessionAssumption
  <2> QED BY <2>4, <2>5, ReadingReader DEF SessionTypeOK
<1>2. Clients /\ Supervisors /\ Memory /\ Settings
  BY DEF Clients, Supervisors, Memory, Settings, Live
<1>3. Jobs
  BY DEF Jobs, InHand
<1>4. Readers /\ Orders
  BY DEF Readers, Reading, Orders
<1> QED BY <1>1, <1>2, <1>3, <1>4 DEF Inv

LEMMA StutterKeeps == ASSUME Inv, UNCHANGED sessionVars PROVE Inv'
<1> USE DEF sessionVars, relayVars, machineVars
<1>1. SessionTypeOK' /\ Orders'
  BY DEF Inv, SessionTypeOK, Orders
<1> QED BY <1>1, RelayKeeps

LEMMA StepKeeps == ASSUME Inv, [SessionNext]_sessionVars PROVE Inv'
<1>1. CASE UNCHANGED sessionVars
  BY <1>1, StutterKeeps
<1>2. CASE AskHost \/ AskUnhost \/ (\E model, effort \in Setting : Configure(model, effort))
  BY <1>2, OwnersOrdersKeep
<1>3. CASE ConnectionLost \/ Reconnect
  BY <1>3, ConnectionKeeps
<1>4. CASE ReadHost \/ ReadUnhost \/ ReadConfigure \/ ReadTurn
  BY <1>4, ReadHostKeeps, ReadUnhostKeeps, ReadConfigureKeeps, ReadTurnKeeps
<1>5. CASE HostOpens \/ HostRefused \/ LetGo \/ LetGoRaises
        \/ ModelSet \/ ModelSetRaises \/ ModelRefused
  BY <1>5, HostOpensKeeps, HostRefusedKeeps, LetGoKeeps, RaisesKeep, ModelSetKeeps,
     ModelRefusedKeeps
<1>6. ASSUME NEW c \in Client, SessionLost(c) PROVE Inv'
  BY <1>6, SessionLostKeeps
<1>7. ASSUME NEW t \in Turn, \/ SendTurn(t) \/ TurnRefused(t) \/ Ask(t) \/ Ready(t) \/ EndTurn(t)
      PROVE  Inv'
  BY <1>7, SendTurnKeeps, TurnRefusedKeeps, AskKeeps, ReadyKeeps, EndTurnKeeps
<1>8. ASSUME NEW t \in Turn, \/ Reopen(t) \/ Closed(t) \/ Reopened(t) \/ ReopenFails(t)
      PROVE  Inv'
  BY <1>8, ReopenKeeps, ClosedKeeps, ReopenedKeeps, ReopenFailsKeeps
<1> QED BY <1>1, <1>2, <1>3, <1>4, <1>5, <1>6, <1>7, <1>8 DEF SessionNext

\* The invariant holds in every reachable state, whatever the order in which the
\* reader and the turns run.
THEOREM SessionIsTracked == SessionSpec => []Inv
<1>1. SessionInit => Inv
  BY InitHolds
<1>2. Inv /\ [SessionNext]_sessionVars => Inv'
  BY StepKeeps
<1> QED BY <1>1, <1>2, PTL DEF SessionSpec

\* Every variable keeps its type.
THEOREM SessionTypeCorrect == SessionSpec => []SessionTypeOK
<1>1. Inv => SessionTypeOK
  BY DEF Inv
<1> QED BY <1>1, SessionIsTracked, PTL

\* Who answers remembers every turn its Hosted has answered, however often the session
\* was reopened and whichever reopenings failed (agent/supervisor.py:176-177, 266-286).
THEOREM MemoryIsKept == SessionSpec => []OneMemory
<1>1. Inv => OneMemory
  <2> SUFFICES ASSUME Inv, NEW c \in Client, NEW t \in Turn, Answers(c, t),
                      NEW u \in Turn, job[u].of = job[t].of, NEW d \in Client, u \in known[d]
               PROVE  u \in known[client[c].conv]
    BY DEF OneMemory
  <2>1. client[c].state = "open" /\ client[c].of = job[t].of
    BY DEF Answers, Inv, Jobs
  <2>2. sup[job[u].of].sid # None /\ u \in known[sup[job[u].of].sid]
    BY DEF Inv, Memory
  <2>3. sup[client[c].of].sid \in {None, client[c].conv}
    BY <2>1 DEF Inv, Memory, Live
  <2> QED BY <2>1, <2>2, <2>3
<1> QED BY <1>1, SessionIsTracked, PTL

\* An open session has the settings its supervisor shows, or will have them, unless
\* they were changed while it was being reopened (agent/supervisor.py:240-263).
THEOREM SettingsReachTheSession == SessionSpec => []SettingsTake
<1>1. Inv => SettingsTake
  <2> SUFFICES ASSUME Inv, NEW h \in Host, sup[h].client # None,
                      client[sup[h].client].state = "open"
               PROVE  /\ \/ client[sup[h].client].model = sup[h].model \/ "model" \in missed[h]
                         \/ (reader.at = "setting" /\ reader.of = h)
                      /\ client[sup[h].client].effort = sup[h].effort
                           \/ "effort" \in missed[h] \/ sup[h].reopen
    BY DEF SettingsTake
  <2>1. sup[h].client \in Client /\ client[sup[h].client].of = h /\ Live(sup[h].client)
    BY Fields DEF Inv, Supervisors, Live
  <2> QED BY <2>1 DEF Inv, Settings
<1> QED BY <1>1, SessionIsTracked, PTL

\* A session that answers is closed only to let the room go: a reopening belongs to a
\* turn that holds the lock (agent/supervisor.py:319-328).
THEOREM AnswersAreNotCut == SessionSpec => NobodysAnswerIsCut
<1> DEFINE Cut == \A c \in Client, t \in Turn :
                    Answers(c, t) /\ client[c].state' = "closed" => LetGo \/ SessionLost(c)
<1>1. Inv /\ [SessionNext]_sessionVars => [Cut]_sessionVars
  <2> SUFFICES ASSUME Inv, SessionNext, NEW c \in Client, NEW t \in Turn,
                      Answers(c, t), client'[c].state = "closed", ~ LetGo, ~ SessionLost(c)
               PROVE  FALSE
    OBVIOUS
  <2>1. client[c].state = "open" /\ job[t].at = "playing" /\ client[c].of = job[t].of
        /\ client[c].of \in Host
    BY Owned DEF Answers, Inv, Jobs
  <2>2. client' # client
    BY <2>1
  <2>3. CASE ReadHost
    <3>1. PICK h \in Host, d \in Client : Fresh(d) /\ client' = [client EXCEPT ![d] = Options(h, d)]
      BY <2>2, <2>3 DEF ReadHost
    <3> QED BY <2>1, <3>1, OptionsOpen DEF Fresh
  <2>4. CASE HostOpens
    BY <2>1, <2>4, Fields DEF HostOpens, Inv, SessionTypeOK, SDKClient
  <2>5. CASE HostRefused
    <3>1. reader.with \in Client /\ client[reader.with].state = "opening"
      BY <2>5, Fields DEF HostRefused, Inv, Readers
    <3> QED BY <2>1, <2>5, <3>1, ShutClosed DEF HostRefused
  <2>6. CASE ModelSet
    BY <2>1, <2>6, Fields DEF ModelSet, Inv, SessionTypeOK, SDKClient
  <2>7. ASSUME NEW d \in Client, SessionLost(d) PROVE FALSE
    BY <2>1, <2>7, ShutClosed DEF SessionLost
  <2>8. ASSUME NEW u \in Turn, Reopen(u) PROVE FALSE
    <3>1. /\ job[u].of \in Host /\ sup[job[u].of].client \in Client
          /\ client[sup[job[u].of].client].of = job[u].of /\ ~ Busy(job[u].of)
      BY <2>8, Fields, Owned DEF Reopen, MayStart, Inv, Supervisors
    <3>2. job[u].of # job[t].of
      BY <2>1, <3>1 DEF Busy
    <3>3. sup[job[u].of].client # c
      BY <2>1, <3>1, <3>2
    <3> QED BY <2>1, <2>8, <3>1, <3>3, ShutClosed DEF Reopen
  <2>9. ASSUME NEW u \in Turn, Closed(u) PROVE FALSE
    <3>1. job[u].of \in Host
      BY <2>9, Owned DEF Closed
    <3>2. PICK d \in Client : Fresh(d) /\ client' = [client EXCEPT ![d] = Options(job[u].of, d)]
      BY <2>9 DEF Closed
    <3> QED BY <2>1, <3>1, <3>2, OptionsOpen DEF Fresh
  <2>10. ASSUME NEW u \in Turn, Reopened(u) PROVE FALSE
    BY <2>1, <2>10, Fields DEF Reopened, Inv, SessionTypeOK, SDKClient
  <2>11. ASSUME NEW u \in Turn, ReopenFails(u) PROVE FALSE
    <3>1. job[u].client \in Client /\ client[job[u].client].state = "opening"
      BY <2>11, Fields DEF ReopenFails, Inv, Jobs
    <3> QED BY <2>1, <2>11, <3>1, ShutClosed DEF ReopenFails
  <2>12. CASE ModelRefused
    <3>1. CASE client' = [client EXCEPT ![reader.with].model = sup[reader.of].model]
      BY <2>1, <3>1, Fields DEF Inv, SessionTypeOK, SDKClient
    <3> QED BY <2>2, <2>12, <3>1 DEF ModelRefused
  <2>13. \/ ReadHost \/ HostOpens \/ HostRefused \/ ModelSet \/ ModelRefused
         \/ \E d \in Client : SessionLost(d)
         \/ \E u \in Turn : Reopen(u) \/ Closed(u) \/ Reopened(u) \/ ReopenFails(u)
    <3> USE <2>2 DEF machineVars
    <3>1. ~ AskHost /\ ~ AskUnhost /\ ~ (\E model, effort \in Setting : Configure(model, effort))
          /\ ~ ConnectionLost /\ ~ Reconnect
      BY DEF AskHost, AskUnhost, Configure, Order, ConnectionLost, Reconnect
    <3>2. ~ ReadUnhost /\ ~ ReadConfigure /\ ~ ReadTurn /\ ~ LetGoRaises /\ ~ ModelSetRaises
      BY DEF ReadUnhost, ReadConfigure, ReadTurn, LetGoRaises, ModelSetRaises
    <3>3. \A u \in Turn : ~ SendTurn(u) /\ ~ TurnRefused(u) /\ ~ Ask(u) /\ ~ Ready(u) /\ ~ EndTurn(u)
      BY DEF SendTurn, Order, TurnRefused, Ask, Ready, EndTurn
    <3> QED BY <3>1, <3>2, <3>3 DEF SessionNext
  <2> QED BY <2>3, <2>4, <2>5, <2>6, <2>7, <2>8, <2>9, <2>10, <2>11, <2>12, <2>13
<1> QED BY <1>1, SessionIsTracked, PTL DEF SessionSpec, NobodysAnswerIsCut

===============================================================================
