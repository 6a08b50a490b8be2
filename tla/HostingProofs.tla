---------------------------- MODULE HostingProofs ----------------------------
(***************************************************************************)
(* What the relay guarantees about who runs a room: the daemons that are    *)
(* connected to it (Hosting), for any number of people, connections,        *)
(* requests and faults, and the agents it runs itself (Managed), for any    *)
(* number of calls.                                                        *)
(***************************************************************************)
EXTENDS Hosting, Managed, SequenceTheorems, TLAPS

LEMMA CutReports ==
  ASSUME NEW s \in Seq(Report), NEW n \in 0..Len(s)
  PROVE  SubSeq(s, 1, n) \in Seq(Report)
BY SubSeqProperties

LEMMA HelloTyped == <<"hello">> \in Seq(Report) /\ <<"hello", "hosted">> \in Seq(Report)
BY DEF Report

LEMMA SentTyped ==
  ASSUME orders \in [Conn -> Seq(Order)], NEW c \in Conn, NEW order \in Order
  PROVE  Sent(c, order) \in [Conn -> Seq(Order)]
BY DEF Sent

LEMMA OrderedTyped ==
  ASSUME HostingTypeOK, NEW p \in Owners, NEW order \in Order
  PROVE  Ordered(p, order) \in [Conn -> Seq(Order)]
BY SentTyped DEF Ordered, HostingTypeOK

LEMMA ReadTyped ==
  ASSUME HostingTypeOK, NEW c \in Conn, NEW report, Read(c, report)
  PROVE  reports' \in [Conn -> Seq(Report)]
<1>1. Tail(reports[c]) \in Seq(Report)
  BY DEF Read, HostingTypeOK
<1>2. QED
  BY <1>1 DEF Read, HostingTypeOK

LEMMA ObeyTyped ==
  ASSUME HostingTypeOK, NEW c \in Conn, NEW order, Obey(c, order)
  PROVE  orders' \in [Conn -> Seq(Order)]
<1>1. Tail(orders[c]) \in Seq(Order)
  BY DEF Obey, HostingTypeOK
<1>2. QED
  BY <1>1 DEF Obey, HostingTypeOK

LEMMA ReportedTyped ==
  ASSUME HostingTypeOK, NEW c \in Conn, NEW report \in Report, Reported(c, report)
  PROVE  reports' \in [Conn -> Seq(Report)]
<1>1. Append(reports[c], report) \in Seq(Report)
  BY DEF HostingTypeOK
<1>2. QED
  BY <1>1 DEF Reported, HostingTypeOK

LEMMA HostTyped ==
  ASSUME HostingTypeOK, NEW c \in Conn, Host(c) \/ Release(c)
  PROVE  /\ link' \in [Conn -> {"none", "up", "dropped"}]
         /\ agent' \in Conn \cup {Nobody}
<1>1. CASE Release(c)
  BY <1>1 DEF Release, HostingTypeOK
<1>2. CASE Host(c)
  <2> DEFINE made == [link EXCEPT ![c] = IF @ = "none" THEN "up" ELSE @]
  <2>1. made \in [Conn -> {"none", "up", "dropped"}]
    BY DEF HostingTypeOK
  <2>2. link' \in {made, [made EXCEPT ![agent] = "dropped"]}
    BY <1>2 DEF Host
  <2>3. QED
    BY <1>2, <2>1, <2>2 DEF Host
<1>3. QED
  BY <1>1, <1>2

-----------------------------------------------------------------------------
\* A connection that was opened is somebody's.
Owned == \A c \in Conn : socket[c] # "unused" => owner[c] \in Owners

LEMMA StepOwned ==
  ASSUME HostingTypeOK, Owned, [HostingNext]_hostingVars
  PROVE  Owned'
<1>1. ASSUME NEW p \in Owners, Connect(p)
      PROVE  Owned'
  BY <1>1 DEF Connect, Owned, HostingTypeOK
<1>2. ASSUME UNCHANGED owner,
             \A c \in Conn : socket'[c] # "unused" => socket[c] # "unused"
      PROVE  Owned'
  BY <1>2 DEF Owned
<1>3. ASSUME NEW p \in Owners,
             HostCall(p) \/ UnhostCall(p) \/ Archive(p) \/ ChangeRole(p) \/ MachineStops(p)
      PROVE  Owned'
  BY <1>2, <1>3 DEF HostCall, UnhostCall, Archive, ChangeRole, MachineStops, Current,
                    socketVars, HostingTypeOK
<1>4. ASSUME NEW c \in Conn, Cut(c) \/ Notice(c)
      PROVE  Owned'
  BY <1>2, <1>4 DEF Cut, Notice, HostingTypeOK
<1>5. ASSUME NEW c \in Conn, \/ ReadHello(c) \/ ReadHosted(c) \/ ReadReleased(c)
                             \/ ObeyHost(c) \/ RefuseHost(c) \/ ObeyUnhost(c)
      PROVE  Owned'
  BY <1>2, <1>5 DEF ReadHello, ReadHosted, ReadReleased, ObeyHost, RefuseHost, ObeyUnhost
<1>6. CASE RelayRestart \/ UNCHANGED hostingVars
  BY <1>2, <1>6 DEF RelayRestart, hostingVars, socketVars, HostingTypeOK
<1>7. QED
  BY <1>1, <1>3, <1>4, <1>5, <1>6 DEF HostingNext

LEMMA StepTyped ==
  ASSUME HostingTypeOK, Owned, [HostingNext]_hostingVars
  PROVE  HostingTypeOK'
<1> USE HostingAssumption
<1>0. "host" \in Order /\ "unhost" \in Order
  BY DEF Order
<1>1. ASSUME NEW p \in Owners, HostCall(p) \/ UnhostCall(p) \/ Archive(p)
      PROVE  HostingTypeOK'
  <2>1. orders' \in [Conn -> Seq(Order)]
    BY <1>0, <1>1, OrderedTyped DEF HostCall, UnhostCall, Archive
  <2>2. calls' \in 0..MaxCalls
    BY <1>1 DEF HostCall, UnhostCall, Archive, Call, HostingTypeOK
  <2>3. QED
    BY <1>1, <2>1, <2>2
    DEF HostCall, UnhostCall, Archive, HostingTypeOK, relayVars
<1>2. ASSUME NEW p \in Owners, ChangeRole(p)
      PROVE  HostingTypeOK'
  <2>1. calls' \in 0..MaxCalls
    BY <1>2 DEF ChangeRole, Call, HostingTypeOK
  <2>2. QED
    BY <1>2, <2>1 DEF ChangeRole, HostingTypeOK, relayVars, socketVars
<1>3. ASSUME NEW p \in Owners, Connect(p)
      PROVE  HostingTypeOK'
  <2>1. opened' \in Conn /\ opened' \in 0..MaxConns
    BY <1>3 DEF Connect, HostingTypeOK, Conn
  <2>2. reports' \in [Conn -> Seq(Report)]
    BY <1>3, HelloTyped DEF Connect, HostingTypeOK
  <2>3. /\ link' \in [Conn -> {"none", "up", "dropped"}]
        /\ agent' \in Conn \cup {Nobody}
    BY <1>3 DEF Connect, HostingTypeOK
  <2>4. QED
    BY <1>3, <2>1, <2>2, <2>3 DEF Connect, HostingTypeOK, dbVars, boundVars
<1>4. ASSUME NEW p \in Owners, MachineStops(p)
      PROVE  HostingTypeOK'
  <2>1. faults' \in 0..MaxFaults
    BY <1>4 DEF MachineStops, Fault, HostingTypeOK
  <2>2. <<>> \in Seq(Order)
    OBVIOUS
  <2>3. QED
    BY <1>4, <2>1, <2>2 DEF MachineStops, HostingTypeOK, dbVars, relayVars
<1>5. ASSUME NEW c \in Conn, Cut(c)
      PROVE  HostingTypeOK'
  <2>1. reports' \in [Conn -> Seq(Report)]
    BY <1>5, CutReports DEF Cut, HostingTypeOK
  <2>2. orders' \in [Conn -> Seq(Order)] /\ faults' \in 0..MaxFaults
    BY <1>5 DEF Cut, Fault, HostingTypeOK
  <2>3. QED
    BY <1>5, <2>1, <2>2 DEF Cut, HostingTypeOK, dbVars, relayVars
<1>6. ASSUME NEW c \in Conn, Notice(c)
      PROVE  HostingTypeOK'
  <2>1. <<>> \in Seq(Report)
    OBVIOUS
  <2>2. /\ link' \in [Conn -> {"none", "up", "dropped"}]
        /\ agent' \in Conn \cup {Nobody}
        /\ holds' \in [Conn -> BOOLEAN]
    BY <1>6, HostTyped DEF Notice, Release, HostingTypeOK
  <2>3. QED
    BY <1>6, <2>1, <2>2 DEF Notice, HostingTypeOK, dbVars, boundVars
<1>7. ASSUME NEW c \in Conn, ReadHello(c)
      PROVE  HostingTypeOK'
  <2>1. orders' \in [Conn -> Seq(Order)]
    BY <1>0, <1>7, SentTyped DEF ReadHello, HostingTypeOK
  <2>2. reports' \in [Conn -> Seq(Report)]
    BY <1>7, ReadTyped DEF ReadHello
  <2>3. QED
    BY <1>7, <2>1, <2>2 DEF ReadHello, HostingTypeOK, dbVars, relayVars, boundVars
<1>8. ASSUME NEW c \in Conn, ReadHosted(c) \/ ReadReleased(c)
      PROVE  HostingTypeOK'
  <2>1. reports' \in [Conn -> Seq(Report)]
    BY <1>8, ReadTyped DEF ReadHosted, ReadReleased
  <2>2. /\ link' \in [Conn -> {"none", "up", "dropped"}]
        /\ agent' \in Conn \cup {Nobody}
    BY <1>8, HostTyped DEF ReadHosted, ReadReleased
  <2>3. holds' \in [Conn -> BOOLEAN]
    BY <1>8 DEF ReadHosted, ReadReleased, Release, HostingTypeOK
  <2>4. QED
    BY <1>8, <2>1, <2>2, <2>3
    DEF ReadHosted, ReadReleased, HostingTypeOK, dbVars, boundVars
<1>9. ASSUME NEW c \in Conn, ObeyHost(c) \/ RefuseHost(c) \/ ObeyUnhost(c)
      PROVE  HostingTypeOK'
  <2>1. orders' \in [Conn -> Seq(Order)]
    BY <1>9, ObeyTyped DEF ObeyHost, RefuseHost, ObeyUnhost
  <2>2. reports' \in [Conn -> Seq(Report)]
    <3>1. "hosted" \in Report /\ "released" \in Report
      BY DEF Report
    <3>2. reports \in [Conn -> Seq(Report)]
      BY DEF HostingTypeOK
    <3>3. QED
      BY <1>9, <3>1, <3>2, ReportedTyped DEF ObeyHost, RefuseHost, ObeyUnhost
  <2>3. runs' \subseteq Owners
    BY <1>9 DEF ObeyHost, RefuseHost, ObeyUnhost, Obey, Owned, HostingTypeOK
  <2>4. QED
    BY <1>9, <2>1, <2>2, <2>3
    DEF ObeyHost, RefuseHost, ObeyUnhost, HostingTypeOK, dbVars, relayVars, boundVars
<1>10. CASE RelayRestart
  <2>1. <<>> \in Seq(Order) /\ <<>> \in Seq(Report)
    OBVIOUS
  <2>2. faults' \in 0..MaxFaults
    BY <1>10 DEF RelayRestart, Fault, HostingTypeOK
  <2>3. QED
    BY <1>10, <2>1, <2>2 DEF RelayRestart, HostingTypeOK, dbVars
<1>11. CASE UNCHANGED hostingVars
  BY <1>11 DEF HostingTypeOK, hostingVars, dbVars, relayVars, socketVars, boundVars
<1>12. QED
  BY <1>1, <1>2, <1>3, <1>4, <1>5, <1>6, <1>7, <1>8, <1>9, <1>10, <1>11
  DEF HostingNext

\* Every variable of the hosting keeps its type, for any number of people,
\* connections, requests and faults.
THEOREM HostingTypeCorrect == HostingSpec => []HostingTypeOK
<1>1. HostingInit => HostingTypeOK
  <2>1. <<>> \in Seq(Order) /\ <<>> \in Seq(Report)
    OBVIOUS
  <2>2. 0 \in 0..MaxConns /\ 0 \in 0..MaxCalls /\ 0 \in 0..MaxFaults
    BY HostingAssumption
  <2>3. QED
    BY <2>1, <2>2 DEF HostingInit, HostingTypeOK
<1>2. HostingInit => Owned
  BY DEF HostingInit, Owned
<1>3. QED
  BY <1>1, <1>2, StepTyped, StepOwned, PTL DEF HostingSpec

-----------------------------------------------------------------------------
\* A link that is not dropped is the room's, and the session of its socket, which
\* the relay has not closed, will release it.  Either half alone is not preserved:
\* closing a socket releases the room only because its session holds it.
Linked == \A c \in Conn : link[c] = "up" => /\ agent = c
                                          /\ socket[c] \in {"open", "lost"}
                                          /\ holds[c]

LEMMA ReleaseLinks ==
  ASSUME HostingTypeOK, Linked, NEW c \in Conn, Release(c)
  PROVE  \A d \in Conn : link'[d] = "up" => /\ d # c /\ link[d] = "up"
                                           /\ agent' = agent /\ holds'[d] = holds[d]
BY DEF Release, Linked, HostingTypeOK

LEMMA HostLinks ==
  ASSUME HostingTypeOK, Linked, NEW c \in Conn, Host(c)
  PROVE  agent' = c /\ \A d \in Conn : link'[d] = "up" => d = c
<1> DEFINE made == [link EXCEPT ![c] = IF @ = "none" THEN "up" ELSE @]
<1>1. link' = IF agent # Nobody /\ made[agent] = "up"
                THEN [made EXCEPT ![agent] = "dropped"] ELSE made
  BY DEF Host
<1>2. ASSUME NEW d \in Conn, d # c, link'[d] = "up"
      PROVE  FALSE
  <2>1. made[d] = link[d]
    BY <1>2 DEF HostingTypeOK
  <2>2. link[d] = "up"
    BY <1>1, <1>2, <2>1 DEF HostingTypeOK
  <2>3. agent = d /\ agent # Nobody /\ made[agent] = "up"
    BY <2>1, <2>2 DEF Linked, Conn, Nobody
  <2>4. QED
    BY <1>1, <1>2, <2>3 DEF HostingTypeOK
<1>3. QED
  BY <1>2 DEF Host

LEMMA StepLinked ==
  ASSUME HostingTypeOK, Linked, [HostingNext]_hostingVars
  PROVE  Linked'
<1>1. ASSUME NEW p \in Owners,
             HostCall(p) \/ UnhostCall(p) \/ Archive(p) \/ ChangeRole(p)
      PROVE  Linked'
  BY <1>1 DEF HostCall, UnhostCall, Archive, ChangeRole, relayVars, socketVars, Linked
<1>2. ASSUME NEW p \in Owners, Connect(p)
      PROVE  Linked'
  <2>1. opened' \in Conn
    BY <1>2, HostingAssumption DEF Connect, HostingTypeOK, Conn
  <2>2. \A c \in Conn : socket[c] \in {"open", "lost"} => socket'[c] \in {"open", "lost"}
    BY <1>2, <2>1 DEF Connect, HostingTypeOK
  <2>3. \A c \in Conn : link'[c] = "up" => link[c] = "up" /\ agent' = agent
    BY <1>2 DEF Connect, HostingTypeOK, Linked
  <2>4. QED
    BY <1>2, <2>2, <2>3 DEF Connect, Linked
<1>3. ASSUME NEW p \in Owners, MachineStops(p)
      PROVE  Linked'
  BY <1>3 DEF MachineStops, relayVars, Linked, HostingTypeOK
<1>4. ASSUME NEW c \in Conn, Cut(c)
      PROVE  Linked'
  BY <1>4 DEF Cut, relayVars, Linked, HostingTypeOK
<1>5. ASSUME NEW c \in Conn, Notice(c)
      PROVE  Linked'
  <2>1. \A d \in Conn : d # c => socket'[d] = socket[d]
    BY <1>5 DEF Notice, HostingTypeOK
  <2>2. CASE holds[c]
    BY <1>5, <2>1, <2>2, ReleaseLinks DEF Notice, Linked
  <2>3. CASE ~ holds[c]
    BY <1>5, <2>1, <2>3 DEF Notice, Linked
  <2>4. QED
    BY <2>2, <2>3
<1>6. ASSUME NEW c \in Conn, ReadHosted(c) \/ ReadReleased(c)
      PROVE  Linked'
  <2>1. UNCHANGED socket /\ socket[c] \in {"open", "lost"}
    BY <1>6 DEF ReadHosted, ReadReleased, Read
  <2>2. CASE Release(c)
    BY <2>1, <2>2, ReleaseLinks DEF Linked
  <2>3. CASE Host(c) /\ holds' = [holds EXCEPT ![c] = TRUE]
    BY <2>1, <2>3, HostLinks DEF Linked, HostingTypeOK
  <2>4. QED
    BY <1>6, <2>2, <2>3 DEF ReadHosted, ReadReleased
<1>7. ASSUME NEW c \in Conn, ReadHello(c) \/ ObeyHost(c) \/ RefuseHost(c) \/ ObeyUnhost(c)
      PROVE  Linked'
  BY <1>7 DEF ReadHello, ObeyHost, RefuseHost, ObeyUnhost, relayVars, Linked
<1>8. CASE RelayRestart
  BY <1>8 DEF RelayRestart, Linked
<1>9. CASE UNCHANGED hostingVars
  BY <1>9 DEF hostingVars, relayVars, socketVars, Linked
<1>10. QED
  BY <1>1, <1>2, <1>3, <1>4, <1>5, <1>6, <1>7, <1>8, <1>9 DEF HostingNext

LEMMA AlwaysLinked == HostingSpec => []Linked
<1>1. HostingInit => Linked
  BY DEF HostingInit, Linked
<1>2. QED
  BY <1>1, StepLinked, HostingTypeCorrect, PTL DEF HostingSpec

\* Every link that is not dropped is the room's: whoever replaces or releases the
\* host frees the turn that waits on it.
THEOREM NoForgottenLink == HostingSpec => []OnlyTheHostIsConnected
<1>1. Linked => OnlyTheHostIsConnected
  BY DEF Linked, OnlyTheHostIsConnected
<1>2. QED
  BY <1>1, AlwaysLinked, PTL

\* A room that counts as hosted has a socket the relay has not closed, and whose
\* session will release it.
THEOREM HostedIsServed == HostingSpec => []HostIsServed
<1>1. HostingTypeOK /\ Linked => HostIsServed
  BY DEF Linked, HostIsServed, Hosted, HostingTypeOK
<1>2. QED
  BY <1>1, AlwaysLinked, HostingTypeCorrect, PTL

-----------------------------------------------------------------------------
LEMMA StepKnown ==
  ASSUME HostingTypeOK, Owned, DaemonIsKnown, [HostingNext]_hostingVars
  PROVE  DaemonIsKnown'
<1>1. ASSUME UNCHANGED <<registry, owner>>,
             \A c \in Conn : socket'[c] = "open" => socket[c] = "open"
      PROVE  DaemonIsKnown'
  BY <1>1 DEF DaemonIsKnown, Current
<1>2. ASSUME NEW p \in Owners,
             HostCall(p) \/ UnhostCall(p) \/ Archive(p) \/ ChangeRole(p)
      PROVE  DaemonIsKnown'
  BY <1>1, <1>2 DEF HostCall, UnhostCall, Archive, ChangeRole, relayVars, socketVars
<1>3. ASSUME NEW p \in Owners, Connect(p)
      PROVE  DaemonIsKnown'
  <2> SUFFICES ASSUME NEW q \in Owners, NEW c \in Current(q)'
               PROVE  registry'[q] = c
    BY DEF DaemonIsKnown
  <2>1. c \in Conn /\ owner'[c] = q /\ socket'[c] = "open"
    BY DEF Current
  <2>2. CASE c = opened'
    BY <1>3, <2>1, <2>2 DEF Connect, HostingTypeOK
  <2>3. CASE c # opened'
    <3>1. c \in Current(q)
      BY <1>3, <2>1, <2>3 DEF Connect, Current, HostingTypeOK
    <3>2. q # p
      BY <1>3, <3>1 DEF Connect
    <3>3. QED
      BY <1>3, <3>1, <3>2 DEF Connect, DaemonIsKnown, HostingTypeOK
  <2>4. QED
    BY <2>2, <2>3
<1>4. ASSUME NEW p \in Owners, MachineStops(p)
      PROVE  DaemonIsKnown'
  BY <1>1, <1>4 DEF MachineStops, relayVars, HostingTypeOK
<1>5. ASSUME NEW c \in Conn, Cut(c)
      PROVE  DaemonIsKnown'
  BY <1>1, <1>5 DEF Cut, relayVars, HostingTypeOK
<1>6. ASSUME NEW c \in Conn, Notice(c)
      PROVE  DaemonIsKnown'
  <2> SUFFICES ASSUME NEW q \in Owners, NEW d \in Current(q)'
               PROVE  registry'[q] = d
    BY DEF DaemonIsKnown
  <2>1. d \in Current(q) /\ d # c
    BY <1>6 DEF Notice, Current, HostingTypeOK
  <2>2. QED
    BY <1>6, <2>1 DEF Notice, DaemonIsKnown
<1>7. ASSUME NEW c \in Conn, \/ ReadHello(c) \/ ReadHosted(c) \/ ReadReleased(c)
                             \/ ObeyHost(c) \/ RefuseHost(c) \/ ObeyUnhost(c)
      PROVE  DaemonIsKnown'
  BY <1>1, <1>7 DEF ReadHello, ReadHosted, ReadReleased, ObeyHost, RefuseHost,
                    ObeyUnhost, relayVars
<1>8. CASE RelayRestart
  BY <1>8 DEF RelayRestart, DaemonIsKnown, Current
<1>9. CASE UNCHANGED hostingVars
  BY <1>1, <1>9 DEF hostingVars, relayVars, socketVars
<1>10. QED
  BY <1>2, <1>3, <1>4, <1>5, <1>6, <1>7, <1>8, <1>9 DEF HostingNext

\* Orders for a person's daemon go to its last connection, whatever the order in
\* which the relay hears of the old ones.
THEOREM DaemonAlwaysKnown == HostingSpec => []DaemonIsKnown
<1>1. HostingInit => DaemonIsKnown /\ Owned
  BY DEF HostingInit, DaemonIsKnown, Current, Owned
<1>2. QED
  BY <1>1, StepKnown, StepOwned, HostingTypeCorrect, PTL DEF HostingSpec

\* Only a person with the right to host becomes the host of a room, at that moment
\* and never of an archived room, whatever was ordered before.
THEOREM OnlyByRight == HostingSpec => HostsByRight
<1>1. ASSUME HostingTypeOK, [HostingNext]_hostingVars, agent' \notin {agent, Nobody}
      PROVE  owner[agent'] \in mayHost /\ ~ archived
  <2>1. ASSUME NEW p \in Owners,
               HostCall(p) \/ UnhostCall(p) \/ Archive(p) \/ ChangeRole(p) \/ MachineStops(p)
        PROVE  FALSE
    BY <1>1, <2>1 DEF HostCall, UnhostCall, Archive, ChangeRole, MachineStops, relayVars
  <2>2. ASSUME NEW p \in Owners, Connect(p)
        PROVE  FALSE
    BY <1>1, <2>2 DEF Connect
  <2>3. ASSUME NEW c \in Conn, \/ Cut(c) \/ Notice(c) \/ ReadHello(c) \/ ReadReleased(c)
                               \/ ObeyHost(c) \/ RefuseHost(c) \/ ObeyUnhost(c)
        PROVE  FALSE
    BY <1>1, <2>3 DEF Cut, Notice, ReadHello, ReadReleased, ObeyHost, RefuseHost,
                      ObeyUnhost, Release, relayVars
  <2>4. ASSUME NEW c \in Conn, ReadHosted(c)
        PROVE  owner[agent'] \in mayHost /\ ~ archived
    BY <1>1, <2>4 DEF ReadHosted, Host, Release, MayHost
  <2>5. CASE RelayRestart \/ UNCHANGED hostingVars
    BY <1>1, <2>5 DEF RelayRestart, hostingVars, relayVars
  <2>6. QED
    BY <1>1, <2>1, <2>2, <2>3, <2>4, <2>5 DEF HostingNext
<1>2. QED
  BY <1>1, HostingTypeCorrect, PTL DEF HostingSpec, HostsByRight

-----------------------------------------------------------------------------
(* The agents the relay runs: types, the secret the agent runs with, the tokens and
   the processes, for any number of calls of a profile. *)

TokenState == {"none", "active", "revoked"}

\* What a call leaves typed, whatever part of it runs.
PartTypeOK ==
  /\ registered \in Calls \cup {Nothing}
  /\ token \in [Calls -> TokenState]
  /\ secret \in [Calls -> Calls \cup {FirstSecret, Nothing}]
  /\ process \in [Calls -> {"none", "starting", "running", "ended", "failed"}]
  /\ signal \in [Calls -> {"none", "term", "kill"}]
  /\ pump \in [Calls -> {"none", "fresh", "reading", "waiting", "done"}]
  /\ error \in [Calls -> BOOLEAN]
  /\ at \in [Calls -> {"ready", "create", "pump", "term", "kill", "returned"}]
  /\ target \in [Calls -> Calls \cup {Nothing}]
  /\ next \in [Calls -> {"return", "close", "lancer", "issue"}]
  /\ astray \subseteq Calls

\* A token that is revoked, or that of nobody, leaves tokens.
LEMMA WithoutType ==
  ASSUME NEW tokens \in [Calls -> TokenState], NEW a \in Calls \cup {Nothing}
  PROVE  Without(tokens, a) \in [Calls -> TokenState]
BY DEF Without, TokenState

LEMMA IssueTypes ==
  ASSUME ManagedTypeOK, NEW c \in Calls, NEW reg \in Calls \cup {Nothing},
         NEW tokens \in [Calls -> TokenState], Issue(c, reg, tokens)
  PROVE  PartTypeOK'
<1>1. CASE credential = Nothing
  BY <1>1 DEF Issue, ManagedTypeOK, PartTypeOK, TokenState, Return, agentVars
<1>2. CASE credential # Nothing
  <2>1. token' \in [Calls -> TokenState] /\ astray' \subseteq Calls
    BY <1>2 DEF Issue, ManagedTypeOK, TokenState
  <2>2. /\ registered' \in Calls \cup {Nothing} /\ credential \in Calls \cup {FirstSecret, Nothing}
        /\ secret' = secret \/ secret' = [secret EXCEPT ![c] = credential]
        /\ process' = process \/ process' = [process EXCEPT ![c] = "starting"]
        /\ UNCHANGED <<signal, pump, error>>
        /\ Return(c) \/ Suspend(c, "create", Nothing, "return")
    BY <1>2 DEF Issue, ManagedTypeOK, agentVars
  <2>3. /\ at' \in [Calls -> {"ready", "create", "pump", "term", "kill", "returned"}]
        /\ target' \in [Calls -> Calls \cup {Nothing}]
        /\ next' \in [Calls -> {"return", "close", "lancer", "issue"}]
    BY <2>2 DEF Return, Suspend, ManagedTypeOK
  <2> QED BY <2>1, <2>2, <2>3 DEF PartTypeOK, ManagedTypeOK, TokenState
<1> QED BY <1>1, <1>2

LEMMA TerminateTypes ==
  ASSUME ManagedTypeOK, NEW c \in Calls, NEW a \in Calls,
         NEW then \in {"return", "close", "lancer", "issue"}, Terminate(c, a, then)
  PROVE  /\ secret' = secret /\ process' = process /\ signal' = signal /\ error' = error
         /\ pump' \in [Calls -> {"none", "fresh", "reading", "waiting", "done"}]
         /\ at' \in [Calls -> {"ready", "create", "pump", "term", "kill", "returned"}]
         /\ target' \in [Calls -> Calls \cup {Nothing}]
         /\ next' \in [Calls -> {"return", "close", "lancer", "issue"}]
<1>1. Cancelled(pump[a]) \in {"none", "fresh", "reading", "waiting", "done"}
  BY DEF Cancelled, ManagedTypeOK
<1> QED BY <1>1 DEF Terminate, Suspend, ManagedTypeOK

LEMMA ForgetsType ==
  ASSUME ManagedTypeOK, NEW a \in Calls \cup {Nothing}, Forgets(a)
  PROVE  dropped' \subseteq Calls
BY DEF Forgets, ManagedTypeOK

LEMMA LancerTypes ==
  ASSUME ManagedTypeOK, NEW c \in Calls, Lancer(c)
  PROVE  PartTypeOK' /\ dropped' \subseteq Calls
<1>0. registered \in Calls \cup {Nothing} /\ token \in [Calls -> TokenState]
  BY DEF ManagedTypeOK, TokenState
<1>1. CASE ~Dead
  BY <1>0, <1>1, IssueTypes DEF Lancer, ManagedTypeOK
<1>2. CASE Dead
  <2>1. registered \in Calls /\ Without(token, registered) \in [Calls -> TokenState]
    BY <1>0, <1>2, WithoutType DEF Dead
  <2>2. dropped' \subseteq Calls BY <1>2, <2>1, ForgetsType DEF Lancer
  <2>3. CASE Gone(registered)
    BY <1>2, <2>1, <2>2, <2>3, IssueTypes DEF Lancer
  <2>4. CASE ~Gone(registered)
    BY <1>2, <2>1, <2>2, <2>4, TerminateTypes DEF Lancer, PartTypeOK, ManagedTypeOK
  <2> QED BY <2>3, <2>4
<1> QED BY <1>1, <1>2

LEMMA ArreterTypes ==
  ASSUME ManagedTypeOK, NEW c \in Calls,
         NEW then \in {"return", "close", "lancer", "issue"}, Arreter(c, then)
  PROVE  PartTypeOK' /\ dropped' \subseteq Calls
<1>0. registered \in Calls \cup {Nothing} /\ token' \in [Calls -> TokenState]
  BY WithoutType DEF Arreter, ManagedTypeOK, TokenState
<1>1. dropped' \subseteq Calls BY <1>0, ForgetsType DEF Arreter
<1>2. CASE Gone(registered)
  <2>1. at' = [at EXCEPT ![c] = "returned"] /\ UNCHANGED <<target, next, agentVars>>
    BY <1>2 DEF Arreter, Return
  <2>2. at' \in [Calls -> {"ready", "create", "pump", "term", "kill", "returned"}]
    BY <2>1 DEF ManagedTypeOK
  <2>3. registered' = Nothing
    BY DEF Arreter
  <2>4. UNCHANGED <<secret, process, signal, pump, error, target, next, astray>>
    BY <2>1 DEF agentVars, Arreter
  <2> QED BY <1>0, <1>1, <2>2, <2>3, <2>4 DEF PartTypeOK, ManagedTypeOK
<1>3. CASE ~Gone(registered)
  <2>1. registered \in Calls BY <1>0, <1>3 DEF Gone
  <2> QED BY <1>0, <1>1, <1>3, <2>1, TerminateTypes DEF Arreter, PartTypeOK, ManagedTypeOK
<1> QED BY <1>2, <1>3

LEMMA GoesOnTypes ==
  ASSUME ManagedTypeOK, NEW c \in Calls, GoesOn(c)
  PROVE  ManagedTypeOK'
<1>0. registered \in Calls \cup {Nothing} /\ token \in [Calls -> TokenState]
  BY DEF ManagedTypeOK, TokenState
<1>1. CASE next[c] = "lancer"
  BY <1>1, LancerTypes DEF GoesOn, ManagedTypeOK, PartTypeOK, TokenState
<1>2. CASE next[c] = "issue"
  BY <1>0, <1>2, IssueTypes DEF GoesOn, ManagedTypeOK, PartTypeOK, TokenState
<1>3. CASE next[c] \notin {"lancer", "issue"}
  BY <1>3 DEF GoesOn, ManagedTypeOK, Return, agentVars
<1> QED BY <1>1, <1>2, <1>3

LEMMA ManagedTypesKept == ManagedTypeOK /\ [ManagedNext]_managedVars => ManagedTypeOK'
<1> SUFFICES ASSUME ManagedTypeOK, [ManagedNext]_managedVars PROVE ManagedTypeOK'
  OBVIOUS
<1>1. CASE UNCHANGED managedVars
  BY <1>1 DEF managedVars, agentVars, callVars, ManagedTypeOK
<1>2. ASSUME NEW c \in Calls, Start(c) PROVE ManagedTypeOK'
  BY <1>2, LancerTypes DEF Start, ManagedTypeOK, PartTypeOK, TokenState
<1>3. ASSUME NEW c \in Calls, Stop(c) PROVE ManagedTypeOK'
  BY <1>3, ArreterTypes DEF Stop, ManagedTypeOK, PartTypeOK, TokenState
<1>4. ASSUME NEW c \in Calls, Store(c) PROVE ManagedTypeOK'
  <2> DEFINE then == IF Running(registered) THEN "lancer" ELSE "return"
  <2>1. Arreter(c, then) /\ then \in {"return", "close", "lancer", "issue"}
    BY <1>4 DEF Store, Renew
  <2> HIDE DEF then
  <2> QED BY <1>4, <2>1, ArreterTypes DEF Store, ManagedTypeOK, PartTypeOK, TokenState
<1>5. ASSUME NEW c \in Calls, Forget(c) PROVE ManagedTypeOK'
  BY <1>5, ArreterTypes DEF Forget, ManagedTypeOK, PartTypeOK, TokenState
<1>6. ASSUME NEW c \in Calls, Close(c) PROVE ManagedTypeOK'
  <2>1. dropped' \subseteq Calls BY <1>6, ForgetsType DEF Close, ManagedTypeOK
  <2>2. CASE Gone(registered)
    BY <1>6, <2>1, <2>2 DEF Close, ManagedTypeOK, agentVars
  <2>3. CASE ~Gone(registered)
    <3>1. registered \in Calls BY <2>3 DEF Gone, ManagedTypeOK
    <3> QED BY <1>6, <2>1, <2>3, <3>1, TerminateTypes DEF Close, ManagedTypeOK
  <2> QED BY <2>2, <2>3
<1>7. ASSUME NEW c \in Calls, Created(c) PROVE ManagedTypeOK'
  BY <1>7 DEF Created, Return, ManagedTypeOK
<1>8. ASSUME NEW c \in Calls, CreateFails(c) PROVE ManagedTypeOK'
  BY <1>8 DEF CreateFails, Return, Without, ManagedTypeOK
<1>9. ASSUME NEW c \in Calls, PumpAwaited(c) PROVE ManagedTypeOK'
  BY <1>9, GoesOnTypes DEF PumpAwaited, Signal, ManagedTypeOK
<1>10. ASSUME NEW c \in Calls, ProcessAwaited(c) PROVE ManagedTypeOK'
  BY <1>10, GoesOnTypes DEF ProcessAwaited
<1>11. ASSUME NEW c \in Calls, TermTimeout(c) PROVE ManagedTypeOK'
  BY <1>11 DEF TermTimeout, Signal, ManagedTypeOK
<1>12. ASSUME NEW c \in Calls, Drain(c) \/ OutputEnds(c) PROVE ManagedTypeOK'
  <2>1. ASSUME Concludes(c)
        PROVE  /\ pump' \in [Calls -> {"none", "fresh", "reading", "waiting", "done"}]
               /\ error' \in [Calls -> BOOLEAN]
    <3>1. (error[c] \/ process[c] = "failed") \in BOOLEAN OBVIOUS
    <3> QED BY <2>1, <3>1 DEF Concludes, ManagedTypeOK
  <2>2. pump' \in [Calls -> {"none", "fresh", "reading", "waiting", "done"}]
        /\ error' \in [Calls -> BOOLEAN]
    BY <1>12, <2>1 DEF Drain, PumpStarts, PumpEnds, OutputEnds, AfterOutput, ManagedTypeOK
  <2>3. OnlyPump(c) BY <1>12 DEF Drain, PumpStarts, PumpEnds, OutputEnds
  <2> QED BY <2>2, <2>3 DEF OnlyPump, callVars, ManagedTypeOK
<1>13. ASSUME NEW c \in Calls, Exits(c) PROVE ManagedTypeOK'
  BY <1>13 DEF Exits, callVars, ManagedTypeOK
<1> QED
  BY <1>1, <1>2, <1>3, <1>4, <1>5, <1>6, <1>7, <1>8, <1>9, <1>10, <1>11, <1>12, <1>13
     DEF ManagedNext, ByTheUser, Advance

\* Every variable keeps its type, through any overlap of calls.
THEOREM ManagedTypeCorrect == ManagedSpec => []ManagedTypeOK
<1>1. ManagedInit => ManagedTypeOK
  BY DEF ManagedInit, ManagedTypeOK
<1> QED BY <1>1, ManagedTypesKept, PTL DEF ManagedSpec

-----------------------------------------------------------------------------
(* The inductive invariant.  reg, tokens and gone stand for registered, token and *)
(* dropped: a call that stops an agent has already changed them when it launches *)
(* the next one. *)

OwnTokens(reg, tokens) ==
  /\ \A d \in Calls : tokens[d] = "active" => d = reg \/ d \in astray
  /\ reg # Nothing /\ process[reg] \in {"starting", "running"} => tokens[reg] = "active"

Attended(reg, gone) ==
  /\ \A a \in Calls : process[a] = "starting" => a = reg \/ a \in gone \cup astray
  /\ \A a \in Calls :
       Running(a) => \/ a = reg
                     \/ \E d \in Calls : InProgress(d) /\ target[d] = a
                     \/ a \in gone \cup astray

\* A call that creates a process stops no agent meanwhile.
Creates == \A d \in Calls : at[d] = "create" => process[d] = "starting" /\ target[d] = Nothing

Deposited(reg) == reg # Nothing => secret[reg] = credential

ManagedIInv ==
  OwnTokens(registered, token) /\ Attended(registered, dropped) /\ Creates /\ Deposited(registered)

\* Nothing that runs is left to this call.
Free(c) == ~(InProgress(c) /\ Running(target[c]))

LEMMA IssueKeeps ==
  ASSUME ManagedTypeOK, NEW c \in Calls, NEW reg \in Calls \cup {Nothing},
         NEW tokens \in [Calls -> TokenState], Issue(c, reg, tokens), credential' = credential,
         Free(c), reg = Nothing \/ Running(reg) \/ next[c] = "issue",
         OwnTokens(reg, tokens), Attended(reg, dropped'), Creates, Deposited(reg)
  PROVE  ManagedIInv'
<1> USE ManagedAssumption
<1> DEFINE nobodys == /\ token' = [tokens EXCEPT ![c] = "active"]
                      /\ astray' = astray \cup {c}
           launches == /\ process' = [process EXCEPT ![c] = "starting"]
                       /\ Suspend(c, "create", Nothing, "return")
<1>1. CASE /\ registered' = reg /\ UNCHANGED agentVars /\ Return(c)
           /\ (token' = tokens /\ astray' = astray) \/ nobodys
  <2>1. /\ registered' = reg /\ secret' = secret /\ process' = process
        /\ Return(c) /\ astray \subseteq astray'
    BY <1>1 DEF agentVars
  <2>2. OwnTokens(registered, token)'
    BY <1>1, <2>1 DEF OwnTokens, TokenState
  <2>3. Attended(registered, dropped)'
    <3>1. \A a \in Calls : \A d \in Calls :
            Running(a) /\ InProgress(d) /\ target[d] = a => InProgress(d)' /\ target'[d] = a
      BY <2>1 DEF Return, InProgress, Free, ManagedTypeOK
    <3>2. \A a \in Calls : Running(a)' <=> Running(a) BY <2>1 DEF Running
    <3> QED BY <2>1, <3>1, <3>2 DEF Attended
  <2>4. Creates' BY <2>1 DEF Creates, Return, ManagedTypeOK
  <2>5. Deposited(registered)' BY <2>1 DEF Deposited
  <2> QED BY <2>2, <2>3, <2>4, <2>5 DEF ManagedIInv
<1>2. CASE /\ registered' = c
           /\ token' = [tokens EXCEPT ![c] = "active"]
           /\ secret' = [secret EXCEPT ![c] = credential]
           /\ astray \subseteq astray' /\ (reg # Nothing => reg \in astray')
           /\ launches \/ (process' = process /\ Return(c))
  <2>1. /\ registered' = c
        /\ token' = [tokens EXCEPT ![c] = "active"]
        /\ secret' = [secret EXCEPT ![c] = credential]
        /\ process' = process \/ process' = [process EXCEPT ![c] = "starting"]
        /\ astray \subseteq astray' /\ (reg # Nothing => reg \in astray')
    BY <1>2
  <2>2. OwnTokens(registered, token)' BY <2>1 DEF OwnTokens, TokenState
  <2>3. Attended(registered, dropped)'
    <3>1. \A a \in Calls : \A d \in Calls :
            Running(a) /\ InProgress(d) /\ target[d] = a => InProgress(d)' /\ target'[d] = a
      BY <1>2 DEF Return, Suspend, InProgress, Free, ManagedTypeOK
    <3>2. \A a \in Calls : Running(a)' => Running(a) BY <2>1 DEF Running, ManagedTypeOK
    <3>3. \A a \in Calls : process'[a] = "starting" => a = c \/ process[a] = "starting"
      BY <2>1 DEF ManagedTypeOK
    <3> QED BY <2>1, <3>1, <3>2, <3>3 DEF Attended
  <2>4. Creates'
    <3>1. CASE launches
      BY <3>1 DEF Creates, Suspend, ManagedTypeOK
    <3>2. CASE process' = process /\ Return(c)
      BY <3>2 DEF Creates, Return, ManagedTypeOK
    <3> QED BY <1>2, <3>1, <3>2
  <2>5. Deposited(registered)' BY <2>1 DEF Deposited, ManagedTypeOK
  <2> QED BY <2>2, <2>3, <2>4, <2>5 DEF ManagedIInv
<1>3. QED
  <2>1. CASE credential = Nothing
    BY <1>1, <2>1 DEF Issue
  <2>2. CASE credential # Nothing
    BY <1>1, <1>2, <2>2 DEF Issue, IsServedBy
  <2> QED BY <2>1, <2>2

\* An agent leaves the registry: what the invariant says without it.
LEMMA ForgottenIsTold ==
  ASSUME ManagedTypeOK, ManagedIInv, Forgets(registered)
  PROVE  /\ OwnTokens(Nothing, Without(token, registered))
         /\ dropped \subseteq dropped'
         /\ \A a \in Calls : process[a] = "starting" => a \in dropped' \cup astray
         /\ ~Running(registered) => Attended(Nothing, dropped')
         /\ Deposited(Nothing)
<1> USE ManagedAssumption
<1>1. OwnTokens(Nothing, Without(token, registered))
  BY DEF ManagedIInv, OwnTokens, Without, ManagedTypeOK
<1>2. dropped \subseteq dropped' BY DEF Forgets
<1>3. \A a \in Calls : process[a] = "starting" => a \in dropped' \cup astray
  BY DEF Forgets, ManagedIInv, Attended, ManagedTypeOK
<1>4. ~Running(registered) => Attended(Nothing, dropped')
  BY <1>2, <1>3 DEF ManagedIInv, Attended
<1> QED BY <1>1, <1>2, <1>3, <1>4 DEF Deposited

\* The stop of an agent that has a task attends it.
LEMMA TerminateKeeps ==
  ASSUME ManagedTypeOK, ManagedIInv, NEW c \in Calls, Free(c), Forgets(registered),
         NEW then \in {"return", "close", "lancer", "issue"}, registered # Nothing,
         Terminate(c, registered, then), registered' = Nothing, astray \subseteq astray',
         OwnTokens(Nothing, token)'
  PROVE  ManagedIInv'
<1> USE ManagedAssumption
<1>1. process' = process /\ secret' = secret /\ Suspend(c, "pump", registered, then)
  BY DEF Terminate
<1>2. \A a \in Calls : Running(a)' <=> Running(a) BY <1>1 DEF Running
<1>3. Attended(Nothing, dropped)'
  <2>1. \A a \in Calls : process'[a] = "starting" => a \in dropped' \cup astray'
    BY <1>1, ForgottenIsTold
  <2>2. \A a \in Calls : \A d \in Calls :
          Running(a) /\ InProgress(d) /\ target[d] = a => InProgress(d)' /\ target'[d] = a
    BY <1>1 DEF Suspend, InProgress, Free, ManagedTypeOK
  <2>3. InProgress(c)' /\ target'[c] = registered
    BY <1>1 DEF Suspend, InProgress, ManagedTypeOK
  <2>4. \A a \in Calls : Running(a) => \/ \E d \in Calls : InProgress(d)' /\ target'[d] = a
                                      \/ a \in dropped' \cup astray'
    BY <2>2, <2>3, ForgottenIsTold DEF ManagedIInv, Attended
  <2> QED BY <1>2, <2>1, <2>4 DEF Attended
<1>4. Creates' BY <1>1 DEF ManagedIInv, Creates, Suspend, ManagedTypeOK
<1> QED BY <1>3, <1>4 DEF ManagedIInv, Deposited, OwnTokens

LEMMA LancerKeeps ==
  ASSUME ManagedTypeOK, ManagedIInv, NEW c \in Calls, Free(c), Lancer(c), credential' = credential
  PROVE  ManagedIInv'
<1>0. registered \in Calls \cup {Nothing} /\ token \in [Calls -> TokenState]
  BY DEF ManagedTypeOK, TokenState
<1>1. CASE ~Dead
  <2>1. Issue(c, registered, token) /\ dropped' = dropped BY <1>1 DEF Lancer
  <2>2. registered = Nothing \/ Running(registered) BY <1>1 DEF Dead
  <2> QED BY <1>0, <2>1, <2>2, IssueKeeps DEF ManagedIInv, Attended
<1>2. CASE Dead
  <2>1. registered \in Calls /\ Without(token, registered) \in [Calls -> TokenState]
    BY <1>0, <1>2, WithoutType DEF Dead
  <2>2. Forgets(registered) /\ ~Running(registered) BY <1>2 DEF Lancer, Dead
  <2>3. CASE Gone(registered)
    <3>1. Issue(c, Nothing, Without(token, registered)) BY <1>2, <2>3 DEF Lancer
    <3>2. /\ OwnTokens(Nothing, Without(token, registered)) /\ Attended(Nothing, dropped')
          /\ Deposited(Nothing)
      BY <2>2, ForgottenIsTold
    <3> QED BY <2>1, <3>1, <3>2, IssueKeeps DEF ManagedIInv
  <2>4. CASE ~Gone(registered)
    <3>1. /\ token' = Without(token, registered) /\ registered' = Nothing
          /\ Terminate(c, registered, "issue") /\ astray' = astray
      BY <1>2, <2>4 DEF Lancer
    <3>2. OwnTokens(Nothing, token)'
      BY <2>2, <3>1, ForgottenIsTold DEF OwnTokens
    <3> QED BY <1>2, <2>2, <3>1, <3>2, TerminateKeeps DEF Dead
  <2> QED BY <2>3, <2>4
<1> QED BY <1>1, <1>2

\* A stop that awaits nothing, the call going no further.
LEMMA ForgottenKeeps ==
  ASSUME ManagedTypeOK, ManagedIInv, NEW c \in Calls, Free(c), Gone(registered),
         Forgets(registered), registered' = Nothing, UNCHANGED agentVars,
         astray \subseteq astray', OwnTokens(Nothing, token)',
         at' = [at EXCEPT ![c] = "returned"], target' = target
  PROVE  ManagedIInv'
<1> USE ManagedAssumption
<1>1. process' = process BY DEF agentVars
<1>2. \A a \in Calls : Running(a)' <=> Running(a) BY <1>1 DEF Running
<1>3. ~Running(registered) BY DEF Gone, Running
<1>4. \A a \in Calls : \A d \in Calls :
        Running(a) /\ InProgress(d) /\ target[d] = a => InProgress(d)' /\ target'[d] = a
  BY DEF InProgress, Free, ManagedTypeOK
<1>5. Attended(Nothing, dropped) ' BY <1>1, <1>2, <1>3, <1>4, ForgottenIsTold DEF Attended
<1>6. Creates' BY <1>1 DEF ManagedIInv, Creates, ManagedTypeOK
<1> QED BY <1>5, <1>6 DEF ManagedIInv, Deposited, OwnTokens

LEMMA ArreterKeeps ==
  ASSUME ManagedTypeOK, ManagedIInv, NEW c \in Calls, Free(c),
         NEW then \in {"return", "close", "lancer", "issue"}, Arreter(c, then)
  PROVE  ManagedIInv'
<1>1. /\ token' = Without(token, registered) /\ registered' = Nothing
      /\ Forgets(registered) /\ astray' = astray
  BY DEF Arreter
<1>2. OwnTokens(Nothing, token)' 
  <2>1. OwnTokens(Nothing, Without(token, registered)) BY <1>1, ForgottenIsTold
  <2> QED BY <1>1, <2>1 DEF OwnTokens
<1>3. CASE Gone(registered)
  BY <1>1, <1>2, <1>3, ForgottenKeeps DEF Arreter, Return
<1>4. CASE ~Gone(registered)
  BY <1>1, <1>2, <1>4, TerminateKeeps DEF Arreter, Gone
<1> QED BY <1>3, <1>4

LEMMA GoesOnKeeps ==
  ASSUME ManagedTypeOK, ManagedIInv, NEW c \in Calls, ~Running(target[c]), at[c] # "create",
         GoesOn(c)
  PROVE  ManagedIInv'
<1>0. Free(c) /\ credential' = credential BY DEF Free, GoesOn
<1>1. CASE next[c] = "lancer"
  BY <1>0, <1>1, LancerKeeps DEF GoesOn
<1>2. CASE next[c] = "issue"
  <2>1. Issue(c, registered, token) /\ dropped' = dropped BY <1>2 DEF GoesOn
  <2>2. registered \in Calls \cup {Nothing} /\ token \in [Calls -> TokenState]
    BY DEF ManagedTypeOK, TokenState
  <2> QED BY <1>0, <1>2, <2>1, <2>2, IssueKeeps DEF ManagedIInv, Attended
<1>3. CASE next[c] \notin {"lancer", "issue"}
  <2>1. Return(c) /\ UNCHANGED <<registered, token, agentVars, astray, dropped, credential>>
    BY <1>3 DEF GoesOn
  <2>2. \A a \in Calls : Running(a)' <=> Running(a) BY <2>1 DEF Running, agentVars
  <2>3. \A a \in Calls : \A d \in Calls :
          Running(a) /\ InProgress(d) /\ target[d] = a => InProgress(d)' /\ target'[d] = a
    BY <1>0, <2>1 DEF InProgress, Free, Return, ManagedTypeOK
  <2>4. Attended(registered, dropped)'
    BY <2>1, <2>2, <2>3 DEF ManagedIInv, Attended, agentVars
  <2>5. Creates' BY <2>1 DEF ManagedIInv, Creates, Return, ManagedTypeOK, agentVars
  <2> QED BY <2>1, <2>4, <2>5 DEF ManagedIInv, OwnTokens, Deposited, agentVars
<1> QED BY <1>1, <1>2, <1>3

\* A step that leaves the registry and the tokens alone, starts no process, and
\* loses no call that stops one.
LEMMA QuietStepKeeps ==
  ASSUME ManagedTypeOK, ManagedIInv, UNCHANGED <<credential, registered, token, secret, astray, dropped>>,
         \A a \in Calls : process'[a] = "starting" <=> process[a] = "starting",
         \A a \in Calls : Running(a)' => Running(a),
         \A a, d \in Calls : Running(a)' /\ InProgress(d) /\ target[d] = a
                            => InProgress(d)' /\ target'[d] = a,
         \A d \in Calls : at'[d] = "create" => at[d] = "create" /\ target'[d] = target[d]
  PROVE  ManagedIInv'
<1> USE ManagedAssumption
<1>1. OwnTokens(registered, token)'
  BY DEF ManagedIInv, OwnTokens, Running, ManagedTypeOK
<1>2. Attended(registered, dropped)' BY DEF ManagedIInv, Attended
<1>3. Creates' BY DEF ManagedIInv, Creates
<1> QED BY <1>1, <1>2, <1>3 DEF ManagedIInv, Deposited

LEMMA ManagedStepKeeps ==
  ManagedTypeOK /\ ManagedIInv /\ [ManagedNext]_managedVars => ManagedIInv'
<1> SUFFICES ASSUME ManagedTypeOK, ManagedIInv, [ManagedNext]_managedVars PROVE ManagedIInv'
  OBVIOUS
<1> USE ManagedAssumption
<1>1. CASE UNCHANGED managedVars
  BY <1>1, QuietStepKeeps DEF managedVars, agentVars, callVars, Running, InProgress
<1>2. ASSUME NEW c \in Calls, Begins(c) PROVE Free(c)
  BY <1>2 DEF Begins, Free, InProgress
<1>3. ASSUME NEW c \in Calls, ByTheUser(c) PROVE ManagedIInv'
  <2>1. CASE Start(c) BY <1>2, <2>1, LancerKeeps DEF Start
  <2>2. CASE Stop(c) BY <1>2, <2>2, ArreterKeeps DEF Stop
  <2>3. CASE Store(c)
    <3> DEFINE then == IF Running(registered) THEN "lancer" ELSE "return"
    <3>1. Arreter(c, then) /\ then \in {"return", "close", "lancer", "issue"}
      BY <2>3 DEF Store, Renew
    <3> HIDE DEF then
    <3> QED BY <1>2, <2>3, <3>1, ArreterKeeps DEF Store
  <2>4. CASE Forget(c) BY <1>2, <2>4, ArreterKeeps DEF Forget
  <2>5. CASE Close(c)
    <3>1. /\ registered' = Nothing /\ Forgets(registered) /\ token' = token
          /\ astray' = astray \cup ({registered} \ {Nothing}) /\ Free(c)
      BY <1>2, <2>5 DEF Close
    <3>2. OwnTokens(Nothing, token)'
      BY <3>1 DEF ManagedIInv, OwnTokens, ManagedTypeOK
    <3>3. CASE Gone(registered)
      BY <2>5, <3>1, <3>2, <3>3, ForgottenKeeps DEF Close
    <3>4. CASE ~Gone(registered)
      BY <2>5, <3>1, <3>2, <3>4, TerminateKeeps DEF Close, Gone
    <3> QED BY <3>3, <3>4
  <2> QED BY <1>3, <2>1, <2>2, <2>3, <2>4, <2>5 DEF ByTheUser
<1>4. ASSUME NEW c \in Calls, Created(c) PROVE ManagedIInv'
  <2>0. process[c] = "starting" /\ target[c] = Nothing
    BY <1>4 DEF Created, ManagedIInv, Creates
  <2>1. OwnTokens(registered, token)'
    BY <1>4, <2>0 DEF Created, ManagedIInv, OwnTokens, ManagedTypeOK
  <2>2. \A a, d \in Calls : InProgress(d) /\ target[d] = a => InProgress(d)' /\ target'[d] = a
    BY <1>4, <2>0 DEF Created, Return, InProgress, ManagedTypeOK
  <2>3. \A a \in Calls : Running(a)' => a = c \/ Running(a)
    BY <1>4 DEF Created, Running, ManagedTypeOK
  <2>4. \A a \in Calls : process'[a] = "starting" => process[a] = "starting"
    BY <1>4 DEF Created, ManagedTypeOK
  <2>5. Attended(registered, dropped)'
    BY <1>4, <2>0, <2>2, <2>3, <2>4 DEF Created, ManagedIInv, Attended
  <2>6. Creates' BY <1>4 DEF Created, Return, ManagedIInv, Creates, ManagedTypeOK
  <2>7. Deposited(registered)' BY <1>4 DEF Created, ManagedIInv, Deposited
  <2> QED BY <2>1, <2>5, <2>6, <2>7 DEF ManagedIInv
<1>5. ASSUME NEW c \in Calls, CreateFails(c) PROVE ManagedIInv'
  <2>0. process[c] = "starting" /\ target[c] = Nothing
    BY <1>5 DEF CreateFails, ManagedIInv, Creates
  <2>1. OwnTokens(registered, token)'
    BY <1>5, <2>0 DEF CreateFails, Without, ManagedIInv, OwnTokens, ManagedTypeOK
  <2>2. \A a, d \in Calls : InProgress(d) /\ target[d] = a => InProgress(d)' /\ target'[d] = a
    BY <1>5, <2>0 DEF CreateFails, Return, InProgress, ManagedTypeOK
  <2>3. \A a \in Calls : Running(a)' => a # c /\ Running(a)
    BY <1>5 DEF CreateFails, Running, ManagedTypeOK
  <2>4. \A a \in Calls : process'[a] = "starting" => a # c /\ process[a] = "starting"
    BY <1>5 DEF CreateFails, ManagedTypeOK
  <2>5. Attended(registered, dropped)'
    BY <1>5, <2>2, <2>3, <2>4 DEF CreateFails, ManagedIInv, Attended
  <2>6. Creates' BY <1>5 DEF CreateFails, Return, ManagedIInv, Creates, ManagedTypeOK
  <2>7. Deposited(registered)' BY <1>5 DEF CreateFails, ManagedIInv, Deposited
  <2> QED BY <2>1, <2>5, <2>6, <2>7 DEF ManagedIInv
<1>6. ASSUME NEW c \in Calls, NEW name, NEW where, at[c] # "create", InProgress(c),
             where \in {"term", "kill"}, Signal(c, name, where)
      PROVE  ManagedIInv'
  BY <1>6, QuietStepKeeps DEF Signal, Running, InProgress, ManagedTypeOK
<1>7. ASSUME NEW c \in Calls, PumpAwaited(c) PROVE ManagedIInv'
  <2>1. CASE Running(target[c])
    <3>1. Signal(c, "term", "term") /\ at[c] # "create" /\ InProgress(c)
      BY <1>7, <2>1 DEF PumpAwaited, InProgress
    <3> QED BY <1>6, <3>1
  <2>2. CASE ~Running(target[c])
    BY <1>7, <2>2, GoesOnKeeps DEF PumpAwaited
  <2> QED BY <2>1, <2>2
<1>8. ASSUME NEW c \in Calls, ProcessAwaited(c) PROVE ManagedIInv'
  BY <1>8, GoesOnKeeps DEF ProcessAwaited
<1>9. ASSUME NEW c \in Calls, TermTimeout(c) PROVE ManagedIInv'
  <2>1. Signal(c, "kill", "kill") /\ at[c] # "create" /\ InProgress(c)
    BY <1>9 DEF TermTimeout, InProgress
  <2> QED BY <1>6, <2>1
<1>10. ASSUME NEW c \in Calls, Drain(c) \/ OutputEnds(c) PROVE ManagedIInv'
  <2>1. OnlyPump(c) BY <1>10 DEF Drain, PumpStarts, PumpEnds, OutputEnds
  <2> QED BY <2>1, QuietStepKeeps DEF OnlyPump, callVars, Running, InProgress
<1>11. ASSUME NEW c \in Calls, Exits(c) PROVE ManagedIInv'
  <2>1. \A a \in Calls : process'[a] = "starting" <=> process[a] = "starting"
    BY <1>11 DEF Exits, Running, ManagedTypeOK
  <2>2. \A a \in Calls : Running(a)' => Running(a)
    BY <1>11 DEF Exits, Running, ManagedTypeOK
  <2>3. UNCHANGED <<credential, registered, token, secret, astray, dropped, at, target>>
    BY <1>11 DEF Exits, callVars
  <2>4. \A a, d \in Calls : Running(a)' /\ InProgress(d) /\ target[d] = a
                            => InProgress(d)' /\ target'[d] = a
    BY <2>3 DEF InProgress
  <2>5. \A d \in Calls : at'[d] = "create" => at[d] = "create" /\ target'[d] = target[d]
    BY <2>3
  <2> QED BY <2>1, <2>2, <2>3, <2>4, <2>5, QuietStepKeeps
<1> QED
  BY <1>1, <1>3, <1>4, <1>5, <1>7, <1>8, <1>9, <1>10, <1>11 DEF ManagedNext, Advance

LEMMA ManagedInvariant == ManagedSpec => [](ManagedTypeOK /\ ManagedIInv)
<1>1. ManagedInit => ManagedTypeOK /\ ManagedIInv
  BY ManagedAssumption DEF ManagedInit, ManagedTypeOK, ManagedIInv, OwnTokens, Attended, Creates,
                          Deposited, Running
<1> QED BY <1>1, ManagedTypesKept, ManagedStepKeeps, PTL DEF ManagedSpec

\* The agent that is registered has the secret that is deposited, whatever calls
\* overlap (credentials.py:78-80, 122-123).
THEOREM SecretsAreTheDeposit == ManagedSpec => []RunsWithTheDeposit
<1>1. ManagedIInv => RunsWithTheDeposit BY DEF ManagedIInv, Deposited, RunsWithTheDeposit
<1> QED BY <1>1, ManagedInvariant, PTL

\* A token that opens the relay is the registered agent's or is counted astray, and
\* the agent that runs has one (credentials.py:134-136, 195-197).
THEOREM TokensFollowTheAgent == ManagedSpec => []TokensDieWithTheirAgent
<1>1. ManagedIInv => TokensDieWithTheirAgent
  BY DEF ManagedIInv, OwnTokens, TokensDieWithTheirAgent, Running
<1> QED BY <1>1, ManagedInvariant, PTL

\* A process that runs is registered, being stopped, or one of those forgotten or
\* replaced before they were created (managed.py:92).
THEOREM ProcessesAreAttended == ManagedSpec => []NoProcessUnattended
<1>1. ManagedIInv => NoProcessUnattended
  BY DEF ManagedIInv, Attended, NoProcessUnattended
<1> QED BY <1>1, ManagedInvariant, PTL

=============================================================================
