----------------------------- MODULE TurnsProofs -----------------------------
(***************************************************************************)
(* What the relay guarantees about turns, for any number of people, turns  *)
(* and connections.                                                        *)
(***************************************************************************)
EXTENDS Turns, FloorProofs

-----------------------------------------------------------------------------
\* The room plays by the rules of the token: in the composed system the token
\* behaves as Floor says, so what is proved of Floor holds of every room
\* (room.py:440-464 decides nothing by itself).
LEMMA StepKeepsToken == [TurnsNext]_vars => [Next]_floorVars
<1> SUFFICES ASSUME [TurnsNext]_vars
             PROVE  [Next]_floorVars
  OBVIOUS
<1> USE TurnsAssumption
<1>1. CASE Decide
  BY <1>1 DEF Decide, Next
<1>2. ASSUME NEW who \in Preemptors, PreemptFloor(who)
      PROVE  Next
  BY <1>2 DEF PreemptFloor, Next
<1>3. ASSUME NEW who \in People, NEW t \in Turn, Submit(who, t)
      PROVE  Next
  BY <1>3 DEF Submit, Next
<1>4. ASSUME EndTurnCall
      PROVE  [Next]_floorVars
  BY <1>4 DEF EndTurnCall, Next
<1>5. ASSUME NEW t \in Turn,
             StartRefused(t) \/ StartRaises(t) \/ Wake(t) \/ Watchdog(t)
      PROVE  [Next]_floorVars
  BY <1>4, <1>5 DEF StartRefused, StartRaises, Wake, Watchdog, Finish
<1>6. ASSUME NEW t \in Turn, \/ SubmitGoesOn(t) \/ SubmitRaises(t) \/ StartSends(t)
                             \/ StartJob(t) \/ RejectJob(t) \/ EndJob(t)
      PROVE  UNCHANGED floorVars
  BY <1>6 DEF StartSends, StartJob, RejectJob, EndJob, SubmitGoesOn, SubmitRaises
<1>7. ASSUME NEW l \in Link, \/ CutSent(l) \/ CutRaises(l) \/ SocketDies(l)
                             \/ NoticeDrop(l) \/ DoneReceived(l) \/ ReadOrder(l)
      PROVE  UNCHANGED floorVars
  BY <1>7 DEF CutSent, CutRaises, SocketDies, NoticeDrop, DoneReceived, ReadOrder
<1>8. CASE Stop \/ HostRoom \/ DrainEnds \/ UNCHANGED vars
  BY <1>8 DEF Stop, HostRoom, DrainEnds, vars
<1>9. QED
  BY <1>1, <1>2, <1>3, <1>5, <1>6, <1>7, <1>8 DEF TurnsNext

THEOREM RoomKeepsToken == TurnsSpec => Spec
<1>1. TurnsInit => Init
  BY DEF TurnsInit
<1>2. QED
  BY <1>1, StepKeepsToken, PTL DEF TurnsSpec, Spec

-----------------------------------------------------------------------------
\* The types of what the room, the links and the machine keep.
TaskType == task \in [Turn -> {"none", "begun", "lost", "spawned", "waiting", "over"}]

LinksType == /\ agent \in Link \cup {None}
             /\ via \in [Turn -> Link \cup {None}]
             /\ cuts \in [Link -> Nat]
             /\ opened \in 0..MaxLinks
             /\ connected \in [Link -> BOOLEAN]
             /\ alive \in [Link -> BOOLEAN]
             /\ current \in [Link -> Turn \cup {None}]
             /\ done \in [Link -> BOOLEAN]

ChannelsType == /\ orders \in [Link -> Seq(Order)]
                /\ reports \in [Link -> Seq(Turn)]

WorkType == /\ job \in [Turn -> {"none", "preparing", "running", "over"}]
            /\ draining \in Turn \cup {None}

HistoryType == /\ skipped \in BOOLEAN
               /\ disturbed \subseteq Turn
               /\ givenUp \subseteq Turn

MachineType == TaskType /\ LinksType /\ ChannelsType /\ WorkType /\ HistoryType

\* Every variable of the composed system keeps its type, for any number of
\* people, turns and connections.
THEOREM TurnsTypeCorrect == TurnsSpec => []TurnsTypeOK
<1>1. TurnsInit => MachineType
  <2>1. <<>> \in Seq(Order) /\ <<>> \in Seq(Turn)
    OBVIOUS
  <2>2. TurnsInit => HistoryType
    BY DEF TurnsInit, HistoryType
  <2>3. TurnsInit => TaskType /\ LinksType /\ ChannelsType /\ WorkType
    BY <2>1, TurnsAssumption DEF TurnsInit, TaskType, LinksType, ChannelsType, WorkType
  <2>4. QED
    BY <2>2, <2>3 DEF MachineType
<1>2. MachineType /\ [TurnsNext]_vars => MachineType'
  <2> SUFFICES ASSUME MachineType, [TurnsNext]_vars
               PROVE  MachineType'
    OBVIOUS
  <2> USE TurnsAssumption DEF MachineType, TaskType, LinksType, ChannelsType, WorkType,
                              HistoryType
  <2>0. ASSUME Announce
        PROVE  skipped' \in BOOLEAN
    BY <2>0 DEF Announce
  <2>1. ASSUME SendInterrupt, Interruptible
        PROVE  orders' \in [Link -> Seq(Order)]
    <3>1. agent \in Link /\ current[agent] \in Turn
      BY <2>1 DEF Interruptible, Hosted, Link, None
    <3>2. [kind |-> "interrupt", turn |-> current[agent]] \in Order
      BY <3>1 DEF Order
    <3>3. QED
      BY <2>1, <3>1, <3>2 DEF SendInterrupt
  <2>2. CASE Decide
    BY <2>0, <2>2 DEF Decide, linkVars, workVars
  <2>3. ASSUME NEW who \in Preemptors, PreemptFloor(who)
        PROVE  MachineType'
    <3>1. orders' \in [Link -> Seq(Order)]
      BY <2>1, <2>3 DEF PreemptFloor
    <3>2. cuts' \in [Link -> Nat]
      <4>1. CASE UNCHANGED cuts
        BY <4>1
      <4>2. CASE Interruptible /\ cuts' = [cuts EXCEPT ![agent] = @ + 1]
        <5>1. agent \in Link
          BY <4>2 DEF Interruptible, Hosted
        <5>2. cuts[agent] + 1 \in Nat
          BY <5>1
        <5>3. QED
          BY <4>2, <5>1, <5>2
      <4>3. QED
        BY <2>3, <4>1, <4>2 DEF PreemptFloor
    <3>3. skipped' \in BOOLEAN
      BY <2>0, <2>3 DEF PreemptFloor
    <3>4. disturbed' \subseteq Turn
      BY <2>3 DEF PreemptFloor, Live
    <3>5. QED
      BY <2>3, <3>1, <3>2, <3>3, <3>4 DEF PreemptFloor, workVars
  <2>4. CASE Stop
    BY <2>1, <2>4 DEF Stop, roomVars, workVars
  <2>5. ASSUME NEW l \in Link, CutSent(l) \/ CutRaises(l)
        PROVE  MachineType'
    <3>1. cuts[l] - 1 \in Nat
      BY <2>5 DEF CutSent, CutRaises
    <3>2. cuts' = [cuts EXCEPT ![l] = cuts[l] - 1]
      BY <2>5 DEF CutSent, CutRaises
    <3>3. cuts' \in [Link -> Nat]
      BY <3>1, <3>2
    <3>4. skipped' \in BOOLEAN
      BY <2>0, <2>5 DEF CutSent, CutRaises
    <3>5. QED
      BY <2>5, <3>3, <3>4 DEF CutSent, CutRaises, linkVars, workVars
  <2>6. ASSUME NEW who \in People, NEW t \in Turn, Submit(who, t)
        PROVE  MachineType'
    BY <2>6 DEF Submit, linkVars, workVars
  <2>61. ASSUME NEW t \in Turn, SubmitGoesOn(t) \/ SubmitRaises(t)
         PROVE  MachineType'
    BY <2>61 DEF SubmitGoesOn, SubmitRaises, linkVars, workVars
  <2>62. ASSUME EndTurnCall
         PROVE  skipped' \in BOOLEAN
    BY <2>0, <2>62 DEF EndTurnCall
  <2>7. ASSUME NEW t \in Turn, StartSends(t)
        PROVE  MachineType'
    <3>1. agent \in Link
      BY <2>7 DEF StartSends, Hosted
    <3>2. [kind |-> "run", turn |-> t] \in Order
      BY DEF Order
    <3>3. orders' \in [Link -> Seq(Order)]
      BY <2>7, <3>1, <3>2 DEF StartSends
    <3>4. QED
      BY <2>7, <3>1, <3>3 DEF StartSends, workVars
  <2>8. ASSUME NEW t \in Turn, StartRefused(t) \/ StartRaises(t)
        PROVE  MachineType'
    <3>1. CASE StartRefused(t)
      BY <2>62, <3>1 DEF StartRefused, linkVars, workVars
    <3>2. CASE StartRaises(t)
      BY <2>62, <3>2 DEF StartRaises, Hosted, workVars
    <3>3. QED
      BY <2>8, <3>1, <3>2
  <2>9. ASSUME NEW t \in Turn, Wake(t) \/ Watchdog(t)
        PROVE  MachineType'
    BY <2>9, <2>62 DEF Wake, Watchdog, Finish, workVars
  <2>10. CASE HostRoom
    <3>1. opened' \in 0..MaxLinks /\ agent' \in Link
      BY <2>10, TurnsAssumption DEF HostRoom, Link
    <3>2. QED
      BY <2>10, <3>1 DEF HostRoom, workVars
  <2>11. ASSUME NEW l \in Link, SocketDies(l)
         PROVE  MachineType'
    <3>1. PICK n \in 0..Len(reports[l]) :
            reports' = [reports EXCEPT ![l] = SubSeq(@, 1, n)]
      BY <2>11 DEF SocketDies
    <3>2. SubSeq(reports[l], 1, n) \in Seq(Turn)
      OBVIOUS
    <3>3. <<>> \in Seq(Order)
      OBVIOUS
    <3>4. QED
      BY <2>11, <3>1, <3>2, <3>3 DEF SocketDies, roomVars, workVars
  <2>12. ASSUME NEW l \in Link, NoticeDrop(l)
         PROVE  MachineType'
    <3>1. <<>> \in Seq(Turn)
      OBVIOUS
    <3>2. QED
      BY <2>12, <3>1 DEF NoticeDrop, Dropped, workVars
  <2>13. ASSUME NEW l \in Link, DoneReceived(l)
         PROVE  MachineType'
    <3>1. Tail(reports[l]) \in Seq(Turn)
      BY <2>13 DEF DoneReceived
    <3>2. QED
      BY <2>13, <3>1 DEF DoneReceived, roomVars, workVars
  <2>14. ASSUME NEW l \in Link, ReadOrder(l)
         PROVE  MachineType'
    <3>1. Tail(orders[l]) \in Seq(Order) /\ Head(orders[l]) \in Order
      BY <2>14 DEF ReadOrder
    <3>2. Running \subseteq Turn
      BY DEF Running
    <3>3. job' \in [Turn -> {"none", "preparing", "running", "over"}]
      BY <2>14, <3>1 DEF ReadOrder, Order
    <3>4. draining' \in Turn \cup {None}
      BY <2>14, <3>2 DEF ReadOrder
    <3>5. QED
      BY <2>14, <3>1, <3>3, <3>4 DEF ReadOrder, roomVars
  <2>15. ASSUME NEW t \in Turn, RejectJob(t) \/ EndJob(t)
         PROVE  MachineType'
    <3>1. \A l \in Link : Append(reports[l], t) \in Seq(Turn)
      OBVIOUS
    <3>2. Report(t)
      BY <2>15 DEF RejectJob, EndJob
    <3>3. reports' \in [Link -> Seq(Turn)]
      BY <3>1, <3>2 DEF Report
    <3>4. QED
      BY <2>15, <3>3 DEF RejectJob, EndJob, roomVars
  <2>16. ASSUME NEW t \in Turn, StartJob(t)
         PROVE  MachineType'
    BY <2>16 DEF StartJob, roomVars, linkVars
  <2>17. CASE DrainEnds
    BY <2>17 DEF DrainEnds, roomVars, linkVars
  <2>18. CASE UNCHANGED vars
    BY <2>18 DEF vars, roomVars, linkVars, workVars
  <2>19. QED
    BY <2>2, <2>3, <2>4, <2>5, <2>6, <2>61, <2>7, <2>8, <2>9, <2>10, <2>11, <2>12,
       <2>13, <2>14, <2>15, <2>16, <2>17, <2>18 DEF TurnsNext
<1>3. TypeOK /\ MachineType => TurnsTypeOK
  BY DEF MachineType, TaskType, LinksType, ChannelsType, WorkType, HistoryType, TurnsTypeOK
<1>4. QED
  BY <1>1, <1>2, <1>3, RoomKeepsToken, TypeCorrect, PTL DEF TurnsSpec

\* However a turn fails, and whoever preempts it, a room that generates has a turn
\* whose end will free it (room.py:350-358), unless the last one was lost before its
\* task was created (room.py:343).  Turns are numbered in the order of the prompts.
InOrder == \A s, t \in Turn : s < t /\ task[t] # "none" => task[s] # "none"

FreedInv == InOrder /\ NeverStuckGenerating

\* A step that starts no turn, ends none, and begins no generation.
LEMMA FreedKept ==
  ASSUME FreedInv, state' = "generating" => state = "generating",
         \A t \in Turn : /\ task'[t] = "none" <=> task[t] = "none"
                         /\ task[t] = "lost" => task'[t] = "lost"
                         /\ t \in Live => t \in Live' \/ task'[t] = "lost"
  PROVE  FreedInv'
<1>1. InOrder'
  BY DEF FreedInv, InOrder
<1>2. \A t \in Turn : Latest(t) => Latest(t)'
  BY DEF Latest
<1>3. ASSUME state' = "generating"
      PROVE  (Stranded \/ \E t \in Live : Latest(t))'
  <2>1. PICK t \in Turn : Latest(t) /\ (task[t] = "lost" \/ t \in Live)
    BY <1>3 DEF FreedInv, NeverStuckGenerating, Stranded, Live
  <2>2. Latest(t)' /\ (task'[t] = "lost" \/ t \in Live')
    BY <1>2, <2>1
  <2>3. QED
    BY <2>2 DEF Stranded
<1>4. QED
  BY <1>1, <1>3 DEF FreedInv, NeverStuckGenerating

THEOREM FloorIsFreed == TurnsSpec => []NeverStuckGenerating
<1>1. TurnsInit => FreedInv
  BY DEF TurnsInit, Init, FreedInv, InOrder, NeverStuckGenerating
<1>2. TurnsTypeOK /\ FreedInv /\ [TurnsNext]_vars => FreedInv'
  <2> SUFFICES ASSUME TurnsTypeOK, FreedInv, [TurnsNext]_vars
               PROVE  FreedInv'
    OBVIOUS
  <2>0. task \in [Turn -> {"none", "begun", "lost", "spawned", "waiting", "over"}]
    BY DEF TurnsTypeOK
  <2>1. ASSUME UNCHANGED task, state' = "generating" => state = "generating"
        PROVE  FreedInv'
    BY <2>1, FreedKept DEF Live
  <2>2. CASE Decide
    <3>1. state' = "generating" => state = "generating"
      BY <2>2 DEF Decide, Revoke, GrantLater, GrantNow, GiveBack, Depart,
                  Install, Release, HandOver
    <3>2. QED
      BY <2>1, <2>2, <3>1 DEF Decide
  <2>3. ASSUME NEW who \in Preemptors, PreemptFloor(who)
        PROVE  FreedInv'
    BY <2>1, <2>3 DEF PreemptFloor, Preempt, Install
  <2>4. ASSUME NEW who \in People, NEW t \in Turn, Submit(who, t)
        PROVE  FreedInv'
    <3>1. IsNext(t) /\ task' = [task EXCEPT ![t] = "begun"]
      BY <2>4 DEF Submit
    <3>2. \A s \in Turn : s # t => task'[s] = task[s]
      BY <2>0, <3>1
    <3>3. task'[t] = "begun" /\ t \in Live'
      BY <2>0, <3>1 DEF Live
    <3>4. \A s \in Turn : s > t => task[s] = "none"
      BY <3>1 DEF IsNext, FreedInv, InOrder
    <3>5. \A s \in Turn : s \in Nat
      BY DEF Turn
    <3>6. Latest(t)'
      BY <3>2, <3>3, <3>4, <3>5 DEF Latest
    <3>7. InOrder'
      <4> SUFFICES ASSUME NEW r \in Turn, NEW s \in Turn, r < s, task'[s] # "none"
                   PROVE  task'[r] # "none"
        BY DEF InOrder
      <4>1. CASE r = t
        BY <3>3, <4>1
      <4>2. CASE r # t /\ s = t
        BY <3>1, <3>2, <4>2 DEF IsNext
      <4>3. CASE r # t /\ s # t
        BY <3>2, <4>3 DEF FreedInv, InOrder
      <4>4. QED
        BY <4>1, <4>2, <4>3
    <3>8. QED
      BY <3>3, <3>6, <3>7 DEF FreedInv, NeverStuckGenerating
  <2>5. ASSUME EndTurnCall
        PROVE  state' # "generating"
    BY <2>5 DEF EndTurnCall, EndTurn, Install, Release, floorVars
  <2>6. ASSUME NEW t \in Turn, task[t] # "none", NEW next \in {"over", "spawned"},
               task' = [task EXCEPT ![t] = next], state' # "generating"
        PROVE  FreedInv'
    <3>1. \A s \in Turn : task'[s] = "none" <=> task[s] = "none"
      BY <2>0, <2>6
    <3>2. QED
      BY <2>6, <3>1 DEF FreedInv, InOrder, NeverStuckGenerating
  <2>7. ASSUME NEW t \in Turn,
               StartRefused(t) \/ StartRaises(t) \/ Wake(t) \/ Watchdog(t)
        PROVE  FreedInv'
    <3>1. task[t] # "none" /\ task' = [task EXCEPT ![t] = "over"] /\ EndTurnCall
      BY <2>7 DEF StartRefused, StartRaises, Wake, Watchdog, Finish
    <3>2. QED
      BY <2>5, <2>6, <3>1
  <2>8. ASSUME NEW t \in Turn, SubmitGoesOn(t) \/ SubmitRaises(t) \/ StartSends(t)
        PROVE  FreedInv'
    <3>1. PICK next \in {"spawned", "lost", "waiting"} :
            /\ task[t] \in {"begun", "spawned"} /\ task' = [task EXCEPT ![t] = next]
            /\ state' = state
      BY <2>8 DEF SubmitGoesOn, SubmitRaises, StartSends, floorVars
    <3>2. \A s \in Turn : /\ task'[s] = "none" <=> task[s] = "none"
                          /\ task[s] = "lost" => task'[s] = "lost"
      BY <2>0, <3>1
    <3>3. \A s \in Turn : s \in Live => s \in Live' \/ task'[s] = "lost"
      BY <2>0, <3>1 DEF Live
    <3>4. QED
      BY <3>1, <3>2, <3>3, FreedKept
  <2>9. ASSUME NEW t \in Turn, StartJob(t) \/ RejectJob(t) \/ EndJob(t)
        PROVE  FreedInv'
    BY <2>1, <2>9 DEF StartJob, RejectJob, EndJob, roomVars, floorVars
  <2>10. ASSUME NEW l \in Link, \/ CutSent(l) \/ CutRaises(l) \/ SocketDies(l)
                                \/ NoticeDrop(l) \/ DoneReceived(l) \/ ReadOrder(l)
         PROVE  FreedInv'
    BY <2>1, <2>10 DEF CutSent, CutRaises, SocketDies, NoticeDrop, DoneReceived,
                       ReadOrder, roomVars, floorVars
  <2>11. CASE Stop \/ HostRoom \/ DrainEnds \/ UNCHANGED vars
    BY <2>1, <2>11 DEF Stop, HostRoom, DrainEnds, vars, roomVars, floorVars
  <2>12. QED
    BY <2>2, <2>3, <2>4, <2>7, <2>8, <2>9, <2>10, <2>11 DEF TurnsNext
<1>3. FreedInv => NeverStuckGenerating
  BY DEF FreedInv
<1>4. QED
  BY <1>1, <1>2, <1>3, TurnsTypeCorrect, PTL DEF TurnsSpec

\* A preemption disturbs every turn under way, and so does a prompt accepted beside
\* one that was: either all of them are disturbed, or none is.
DisturbedInv == /\ Live \cap disturbed = {} \/ Live \subseteq disturbed
                /\ FloorMatchesTurn

LEMMA DisturbedHolds == TurnsSpec => []DisturbedInv
<1>1. TurnsInit => DisturbedInv
  BY DEF TurnsInit, Init, DisturbedInv, FloorMatchesTurn, Live
<1>2. TurnsTypeOK /\ DisturbedInv /\ [TurnsNext]_vars => DisturbedInv'
  <2> SUFFICES ASSUME TurnsTypeOK, DisturbedInv, [TurnsNext]_vars
               PROVE  DisturbedInv'
    OBVIOUS
  <2>0. task \in [Turn -> {"none", "begun", "lost", "spawned", "waiting", "over"}]
    BY DEF TurnsTypeOK
  <2>1. ASSUME Live' = Live, disturbed' = disturbed, state' = "generating" <=> state = "generating"
        PROVE  DisturbedInv'
    BY <2>1 DEF DisturbedInv, FloorMatchesTurn
  <2>2. CASE Decide
    <3>1. state' = "generating" <=> state = "generating"
      BY <2>2 DEF Decide, Revoke, GrantLater, GrantNow, GiveBack, Depart,
                  Install, Release, HandOver
    <3>2. QED
      BY <2>1, <2>2, <3>1 DEF Decide, Live
  <2>3. ASSUME NEW who \in Preemptors, PreemptFloor(who)
        PROVE  DisturbedInv'
    <3>1. Live' = Live /\ disturbed' = disturbed \cup Live
      BY <2>3 DEF PreemptFloor, Live
    <3>2. QED
      BY <3>1 DEF DisturbedInv, FloorMatchesTurn
  <2>4. ASSUME NEW who \in People, NEW t \in Turn, Submit(who, t)
        PROVE  DisturbedInv'
    <3>1. /\ state = "held" /\ state' = "generating"
          /\ task' = [task EXCEPT ![t] = "begun"]
          /\ disturbed' = IF Live \cap disturbed = {} THEN disturbed ELSE disturbed \cup {t}
      BY <2>4 DEF Submit, BeginTurn, CanSend
    <3>2. Live' = Live \cup {t}
      BY <2>0, <3>1 DEF Live
    <3>3. CASE Live \cap disturbed = {}
      <4>1. Live' = {t} /\ disturbed' = disturbed
        BY <3>1, <3>2, <3>3 DEF DisturbedInv, FloorMatchesTurn
      <4>2. QED
        BY <3>1, <4>1 DEF DisturbedInv, FloorMatchesTurn
    <3>4. CASE Live \cap disturbed # {}
      <4>1. Live \subseteq disturbed /\ disturbed' = disturbed \cup {t}
        BY <3>1, <3>4 DEF DisturbedInv
      <4>2. QED
        BY <3>2, <4>1 DEF DisturbedInv, FloorMatchesTurn
    <3>5. QED
      BY <3>3, <3>4
  <2>5. ASSUME NEW t \in Live, Live' = Live \ {t}, disturbed' = disturbed
        PROVE  DisturbedInv'
    BY <2>5 DEF DisturbedInv, FloorMatchesTurn
  <2>6. ASSUME NEW t \in Turn, \/ StartRefused(t) \/ StartRaises(t) \/ Wake(t)
                               \/ Watchdog(t) \/ SubmitRaises(t)
        PROVE  DisturbedInv'
    <3>1. PICK next \in {"over", "lost"} : task' = [task EXCEPT ![t] = next]
      BY <2>6 DEF StartRefused, StartRaises, Wake, Watchdog, Finish, SubmitRaises
    <3>2. t \in Live /\ disturbed' = disturbed
      BY <2>6 DEF StartRefused, StartRaises, Wake, Watchdog, Finish, SubmitRaises, Live
    <3>3. Live' = Live \ {t}
      BY <2>0, <3>1 DEF Live
    <3>4. QED
      BY <2>5, <3>2, <3>3
  <2>7. ASSUME NEW t \in Turn, StartSends(t) \/ SubmitGoesOn(t)
        PROVE  DisturbedInv'
    <3>1. PICK next \in {"spawned", "waiting"} :
            task[t] \in {"begun", "spawned"} /\ task' = [task EXCEPT ![t] = next]
      BY <2>7 DEF StartSends, SubmitGoesOn
    <3>2. Live' = Live
      BY <2>0, <3>1 DEF Live
    <3>3. state' = state /\ disturbed' = disturbed
      BY <2>7 DEF StartSends, SubmitGoesOn, floorVars
    <3>4. QED
      BY <2>1, <3>2, <3>3
  <2>8. ASSUME UNCHANGED <<task, disturbed, state>>
        PROVE  DisturbedInv'
    BY <2>1, <2>8 DEF Live
  <2>9. ASSUME NEW t \in Turn, StartJob(t) \/ RejectJob(t) \/ EndJob(t)
        PROVE  DisturbedInv'
    BY <2>8, <2>9 DEF StartJob, RejectJob, EndJob, roomVars, floorVars
  <2>10. ASSUME NEW l \in Link, \/ CutSent(l) \/ CutRaises(l) \/ SocketDies(l)
                                \/ NoticeDrop(l) \/ DoneReceived(l) \/ ReadOrder(l)
         PROVE  DisturbedInv'
    BY <2>8, <2>10 DEF CutSent, CutRaises, SocketDies, NoticeDrop, DoneReceived,
                       ReadOrder, roomVars, floorVars
  <2>11. CASE Stop \/ HostRoom \/ DrainEnds \/ UNCHANGED vars
    BY <2>8, <2>11 DEF Stop, HostRoom, DrainEnds, vars, roomVars, floorVars
  <2>12. QED
    BY <2>2, <2>3, <2>4, <2>6, <2>7, <2>9, <2>10, <2>11 DEF TurnsNext
<1>3. QED
  BY <1>1, <1>2, TurnsTypeCorrect, PTL DEF TurnsSpec

\* As soon as the turns that a preemption disturbed are over, a room has one turn at
\* most, and generates as long as it: whatever fails, for any number of turns.
THEOREM FloorIsTheTurn == TurnsSpec => []FloorMatchesTurn
<1>1. DisturbedInv => FloorMatchesTurn
  BY DEF DisturbedInv
<1>2. QED
  BY <1>1, DisturbedHolds, PTL

-----------------------------------------------------------------------------
(* A turn of a living link is released by its own end.  The invariant that  *)
(* makes it so follows the turn through the channels: a link carries the    *)
(* turn that waits on it, an order to run is for a turn the machine has     *)
(* never seen and is sent once, and what is reported over is over.          *)

RunOrder(l, i) == i \in DOMAIN orders[l] /\ orders[l][i].kind = "run"

Unsent == {"none", "begun", "lost", "spawned"}

NotSentNotSeen == \A t \in Turn : task[t] \in Unsent => job[t] = "none"

OrderedAfresh ==
  \A l \in Link, i \in Nat :
    RunOrder(l, i) => /\ task[orders[l][i].turn] \in {"waiting", "over"}
                      /\ job[orders[l][i].turn] = "none"

OrderedOnce ==
  \A l, m \in Link, i, j \in Nat :
    RunOrder(l, i) /\ RunOrder(m, j) /\ orders[l][i].turn = orders[m][j].turn
      => l = m /\ i = j

ReportedOver ==
  \A l \in Link, i \in Nat : i \in DOMAIN reports[l] => job[reports[l][i]] = "over"

CarriedByItsLink ==
  /\ agent <= opened
  /\ \A t \in Turn : task[t] = "waiting" => /\ via[t] \in 1..opened
                                            /\ current[via[t]] = t

DeliveryInv == /\ NotSentNotSeen
               /\ OrderedAfresh
               /\ OrderedOnce
               /\ ReportedOver
               /\ CarriedByItsLink
               /\ ReleasedByItsOwnEnd

\* A step that leaves tasks, links, channels and machine alone.
LEMMA DeliveryUntouched ==
  ASSUME DeliveryInv,
         UNCHANGED <<task, via, agent, opened, connected, current, done, orders, reports, job>>
  PROVE  DeliveryInv'
BY DEF DeliveryInv, NotSentNotSeen, OrderedAfresh, OrderedOnce, ReportedOver,
       CarriedByItsLink, ReleasedByItsOwnEnd, RunOrder

\* Asking for an interrupt adds no order to run.
LEMMA InterruptAddsNoRun ==
  ASSUME TurnsTypeOK, SendInterrupt, Interruptible
  PROVE  /\ orders' \in [Link -> Seq(Order)]
         /\ \A l \in Link, i \in Nat :
              RunOrder(l, i)' => RunOrder(l, i) /\ orders'[l][i] = orders[l][i]
<1>1. agent \in Link /\ current[agent] \in Turn
  BY DEF TurnsTypeOK, Interruptible, Hosted, Link, None
<1>2. [kind |-> "interrupt", turn |-> current[agent]] \in Order
  BY <1>1 DEF Order
<1>3. orders \in [Link -> Seq(Order)]
  BY DEF TurnsTypeOK
<1>4. CASE alive[agent]
  <2> DEFINE order == [kind |-> "interrupt", turn |-> current[agent]]
  <2>1. orders' = [orders EXCEPT ![agent] = Append(@, order)]
    BY <1>4 DEF SendInterrupt
  <2>2. order \in Order /\ order.kind # "run"
    BY <1>2
  <2> HIDE DEF order
  <2>3. orders' \in [Link -> Seq(Order)]
    BY <1>1, <1>3, <2>1, <2>2
  <2>4. ASSUME NEW l \in Link, NEW i \in Nat, RunOrder(l, i)'
        PROVE  RunOrder(l, i) /\ orders'[l][i] = orders[l][i]
    <3>1. CASE l # agent
      BY <1>3, <2>1, <2>4, <3>1 DEF RunOrder
    <3>2. CASE l = agent
      <4>1. orders'[l] = Append(orders[l], order) /\ orders[l] \in Seq(Order)
        BY <1>1, <1>3, <2>1, <3>2
      <4>2. i \in 1..(Len(orders[l]) + 1) /\ orders'[l][i].kind = "run"
        BY <2>4, <4>1, <2>2 DEF RunOrder
      <4>3. i # Len(orders[l]) + 1
        BY <4>1, <4>2, <2>2
      <4>4. QED
        BY <4>1, <4>2, <4>3, <2>2 DEF RunOrder
    <3>3. QED
      BY <3>1, <3>2
  <2>5. QED
    BY <2>3, <2>4
<1>5. CASE ~ alive[agent]
  BY <1>3, <1>5 DEF SendInterrupt, RunOrder
<1>6. QED
  BY <1>4, <1>5

\* A step that only takes orders away, or adds interrupts.
LEMMA FewerRunOrders ==
  ASSUME DeliveryInv,
         UNCHANGED <<task, via, agent, opened, connected, current, done, reports, job>>,
         \A l \in Link, i \in Nat :
           RunOrder(l, i)' => RunOrder(l, i) /\ orders'[l][i] = orders[l][i]
  PROVE  DeliveryInv'
<1>1. OrderedAfresh' /\ OrderedOnce'
  BY DEF DeliveryInv, OrderedAfresh, OrderedOnce
<1>2. QED
  BY <1>1 DEF DeliveryInv, NotSentNotSeen, ReportedOver, CarriedByItsLink,
              ReleasedByItsOwnEnd

LEMMA DeliveryStep ==
  ASSUME TurnsTypeOK, DeliveryInv, [TurnsNext]_vars
  PROVE  DeliveryInv'
<1> USE DEF RunOrder, None, Unsent
<1> DEFINE Types == /\ task \in [Turn -> {"none", "begun", "lost", "spawned", "waiting", "over"}]
                    /\ via \in [Turn -> Link \cup {None}]
                    /\ agent \in Link \cup {None}
                    /\ opened \in 0..MaxLinks
                    /\ connected \in [Link -> BOOLEAN]
                    /\ current \in [Link -> Turn \cup {None}]
                    /\ done \in [Link -> BOOLEAN]
                    /\ orders \in [Link -> Seq(Order)]
                    /\ reports \in [Link -> Seq(Turn)]
                    /\ job \in [Turn -> {"none", "preparing", "running", "over"}]
<1>0. Types
  BY DEF TurnsTypeOK
<1>1. CASE Decide \/ DrainEnds \/ UNCHANGED vars
  BY <1>1, DeliveryUntouched DEF Decide, DrainEnds, vars, roomVars, linkVars, workVars
<1>2. ASSUME NEW who \in Preemptors, PreemptFloor(who)
      PROVE  DeliveryInv'
  <2>1. CASE UNCHANGED orders
    BY <1>2, <2>1, DeliveryUntouched DEF PreemptFloor, workVars
  <2>2. CASE Interruptible /\ SendInterrupt
    BY <1>2, <2>2, InterruptAddsNoRun, FewerRunOrders DEF PreemptFloor, workVars
  <2>3. QED
    BY <1>2, <2>1, <2>2 DEF PreemptFloor
<1>3. CASE Stop
  BY <1>3, InterruptAddsNoRun, FewerRunOrders DEF Stop, roomVars, workVars
<1>4. ASSUME NEW l \in Link, CutSent(l) \/ CutRaises(l)
      PROVE  DeliveryInv'
  BY <1>4, DeliveryUntouched DEF CutSent, CutRaises, linkVars, workVars
<1>5. ASSUME NEW t \in Turn,
             (\E who \in People : Submit(who, t)) \/ SubmitGoesOn(t) \/ SubmitRaises(t)
      PROVE  DeliveryInv'
  <2>1. PICK next \in {"begun", "spawned", "lost"} :
          /\ task[t] \in {"none", "begun"} /\ task' = [task EXCEPT ![t] = next]
          /\ UNCHANGED <<agent, via, opened, connected, current, done, orders, reports, job>>
    BY <1>5 DEF Submit, IsNext, SubmitGoesOn, SubmitRaises, linkVars, workVars
  <2>2. NotSentNotSeen' /\ ReportedOver' /\ OrderedOnce'
    BY <1>0, <2>1 DEF DeliveryInv, NotSentNotSeen, ReportedOver, OrderedOnce
  <2>3. OrderedAfresh'
    BY <1>0, <2>1 DEF DeliveryInv, OrderedAfresh, Order
  <2>4. CarriedByItsLink' /\ ReleasedByItsOwnEnd'
    BY <1>0, <2>1 DEF DeliveryInv, CarriedByItsLink, ReleasedByItsOwnEnd
  <2>5. QED
    BY <2>2, <2>3, <2>4 DEF DeliveryInv
<1>6. ASSUME NEW t \in Turn, StartSends(t)
      PROVE  DeliveryInv'
  <2> DEFINE order == [kind |-> "run", turn |-> t]
  <2>1. /\ task[t] = "spawned" /\ agent \in Link /\ current[agent] = None
        /\ task' = [task EXCEPT ![t] = "waiting"]
        /\ via' = [via EXCEPT ![t] = agent]
        /\ current' = [current EXCEPT ![agent] = t]
        /\ done' = [done EXCEPT ![agent] = FALSE]
        /\ UNCHANGED <<agent, opened, connected, reports, job>>
    BY <1>0, <1>6 DEF StartSends, Hosted, workVars
  <2>2. job[t] = "none"
    BY <2>1 DEF DeliveryInv, NotSentNotSeen
  <2>3. \A l \in Link, i \in Nat : RunOrder(l, i) => orders[l][i].turn # t
    BY <2>1 DEF DeliveryInv, OrderedAfresh
  <2>4. \A l \in Link, i \in Nat : RunOrder(l, i)' =>
          \/ RunOrder(l, i) /\ orders'[l][i] = orders[l][i]
          \/ l = agent /\ i = Len(orders[agent]) + 1 /\ orders'[l][i].turn = t
    <3>1. CASE orders' = [orders EXCEPT ![agent] = Append(@, order)]
      <4> SUFFICES ASSUME NEW l \in Link, NEW i \in Nat, RunOrder(l, i)'
                   PROVE  \/ RunOrder(l, i) /\ orders'[l][i] = orders[l][i]
                          \/ l = agent /\ i = Len(orders[agent]) + 1 /\ orders'[l][i].turn = t
        OBVIOUS
      <4>1. CASE l # agent
        BY <1>0, <3>1, <4>1
      <4>2. CASE l = agent
        <5>1. orders'[l] = Append(orders[l], order) /\ orders[l] \in Seq(Order) /\ order \in Order
          BY <1>0, <2>1, <3>1, <4>2 DEF Order
        <5>2. i \in 1..(Len(orders[l]) + 1)
          BY <5>1
        <5> HIDE DEF order
        <5>3. CASE i = Len(orders[l]) + 1
          <6>1. orders'[l][i] = order
            BY <5>1, <5>3
          <6>2. QED
            BY <6>1, <5>3, <4>2 DEF order
        <5>4. CASE i \in 1..Len(orders[l])
          BY <5>1, <5>4
        <5>5. QED
          BY <5>1, <5>2, <5>3, <5>4
      <4>3. QED
        BY <4>1, <4>2
    <3>2. CASE orders' = orders
      BY <3>2
    <3>3. QED
      BY <1>6, <3>1, <3>2 DEF StartSends
  <2>5. NotSentNotSeen' /\ ReportedOver'
    BY <1>0, <2>1 DEF DeliveryInv, NotSentNotSeen, ReportedOver
  <2>6. OrderedAfresh'
    BY <1>0, <2>1, <2>2, <2>4 DEF DeliveryInv, OrderedAfresh
  <2>7. OrderedOnce'
    BY <2>3, <2>4 DEF DeliveryInv, OrderedOnce
  <2>8. CarriedByItsLink'
    BY <1>0, <2>1 DEF DeliveryInv, CarriedByItsLink, Turn, Link
  <2>9. ReleasedByItsOwnEnd'
    BY <1>0, <2>1 DEF DeliveryInv, CarriedByItsLink, ReleasedByItsOwnEnd, Turn
  <2>10. QED
    BY <2>5, <2>6, <2>7, <2>8, <2>9 DEF DeliveryInv
<1>7. ASSUME NEW t \in Turn, task[t] \in {"spawned", "waiting"},
             task' = [task EXCEPT ![t] = "over"],
             UNCHANGED <<agent, via, opened, connected, orders, reports, job>>,
             \A s \in Turn : task'[s] = "waiting" =>
               current'[via[s]] = current[via[s]] /\ done'[via[s]] = done[via[s]]
      PROVE  DeliveryInv'
  <2>1. NotSentNotSeen' /\ ReportedOver' /\ OrderedOnce'
    BY <1>0, <1>7 DEF DeliveryInv, NotSentNotSeen, ReportedOver, OrderedOnce
  <2>2. OrderedAfresh'
    BY <1>0, <1>7 DEF DeliveryInv, OrderedAfresh, Order
  <2>3. CarriedByItsLink' /\ ReleasedByItsOwnEnd'
    BY <1>0, <1>7 DEF DeliveryInv, CarriedByItsLink, ReleasedByItsOwnEnd
  <2>4. QED
    BY <2>1, <2>2, <2>3 DEF DeliveryInv
<1>8. ASSUME NEW t \in Turn, StartRefused(t) \/ StartRaises(t)
      PROVE  DeliveryInv'
  <2>1. CASE StartRefused(t)
    BY <1>0, <1>7, <2>1 DEF StartRefused, linkVars, workVars
  <2>2. CASE StartRaises(t)
    <3>1. \A s \in Turn : task'[s] = "waiting" => via[s] # agent /\ via[s] \in Link
      BY <1>0, <2>2 DEF StartRaises, DeliveryInv, CarriedByItsLink, Turn, Link
    <3>2. \A s \in Turn : task'[s] = "waiting" =>
            current'[via[s]] = current[via[s]] /\ done'[via[s]] = done[via[s]]
      BY <1>0, <2>2, <3>1 DEF StartRaises
    <3>3. QED
      BY <1>0, <1>7, <2>2, <3>2 DEF StartRaises, workVars
  <2>3. QED
    BY <1>8, <2>1, <2>2
<1>9. ASSUME NEW t \in Turn, Wake(t) \/ Watchdog(t)
      PROVE  DeliveryInv'
  <2>1. task[t] = "waiting" /\ Finish(t)
    BY <1>9 DEF Wake, Watchdog
  <2>2. \A s \in Turn : task'[s] = "waiting" => via[s] # via[t] /\ via[s] \in Link
    BY <1>0, <2>1 DEF Finish, DeliveryInv, CarriedByItsLink, Link
  <2>3. \A s \in Turn : task'[s] = "waiting" =>
          current'[via[s]] = current[via[s]] /\ done'[via[s]] = done[via[s]]
    BY <1>0, <2>1, <2>2 DEF Finish
  <2>4. QED
    BY <1>0, <1>7, <2>1, <2>3 DEF Finish, workVars
<1>10. CASE HostRoom
  <2>1. /\ opened' = opened + 1 /\ opened' \in Link /\ agent' = opened'
        /\ connected' = [connected EXCEPT ![opened'] = TRUE]
        /\ UNCHANGED <<task, via, current, done, orders, reports, job>>
    BY <1>0, <1>10, TurnsAssumption DEF HostRoom, Link, workVars
  <2>2. NotSentNotSeen' /\ OrderedAfresh' /\ OrderedOnce' /\ ReportedOver'
    BY <2>1 DEF DeliveryInv, NotSentNotSeen, OrderedAfresh, OrderedOnce, ReportedOver
  <2>3. CarriedByItsLink' /\ ReleasedByItsOwnEnd'
    BY <1>0, <2>1 DEF DeliveryInv, CarriedByItsLink, ReleasedByItsOwnEnd, Link
  <2>4. QED
    BY <2>2, <2>3 DEF DeliveryInv
<1>11. ASSUME NEW m \in Link, SocketDies(m)
       PROVE  DeliveryInv'
  <2>1. PICK n \in 0..Len(reports[m]) :
          reports' = [reports EXCEPT ![m] = SubSeq(@, 1, n)]
    BY <1>11 DEF SocketDies
  <2>2. \A l \in Link, i \in Nat : RunOrder(l, i)' =>
          RunOrder(l, i) /\ orders'[l][i] = orders[l][i]
    BY <1>0, <1>11 DEF SocketDies
  <2>3. \A l \in Link, i \in Nat : i \in DOMAIN reports'[l] =>
          i \in DOMAIN reports[l] /\ reports'[l][i] = reports[l][i]
    BY <1>0, <2>1
  <2>4. OrderedAfresh' /\ OrderedOnce' /\ ReportedOver'
    BY <1>11, <2>2, <2>3 DEF DeliveryInv, OrderedAfresh, OrderedOnce, ReportedOver,
                             SocketDies, roomVars, workVars
  <2>5. QED
    BY <1>11, <2>4 DEF DeliveryInv, NotSentNotSeen, CarriedByItsLink,
                       ReleasedByItsOwnEnd, SocketDies, roomVars, workVars
<1>12. ASSUME NEW m \in Link, NoticeDrop(m)
       PROVE  DeliveryInv'
  <2>1. /\ UNCHANGED <<task, via, opened, current, orders, job>>
        /\ connected' = [connected EXCEPT ![m] = FALSE]
        /\ done' = [done EXCEPT ![m] = @ \/ current[m] # None]
        /\ agent' \in {agent, None}
        /\ reports' = [reports EXCEPT ![m] = <<>>]
    BY <1>12 DEF NoticeDrop, Dropped, workVars
  <2>2. ReportedOver'
    BY <1>0, <2>1 DEF DeliveryInv, ReportedOver
  <2>3. ReleasedByItsOwnEnd'
    BY <1>0, <2>1 DEF DeliveryInv, CarriedByItsLink, ReleasedByItsOwnEnd, Link
  <2>4. CarriedByItsLink'
    BY <1>0, <2>1 DEF DeliveryInv, CarriedByItsLink
  <2>5. QED
    BY <2>1, <2>2, <2>3, <2>4 DEF DeliveryInv, NotSentNotSeen, OrderedAfresh, OrderedOnce
<1>13. ASSUME NEW m \in Link, DoneReceived(m)
       PROVE  DeliveryInv'
  <2>1. /\ UNCHANGED <<task, via, agent, opened, connected, current, orders, job>>
        /\ reports[m] # <<>>
        /\ reports' = [reports EXCEPT ![m] = Tail(@)]
        /\ done' = [done EXCEPT ![m] = @ \/ current[m] = Head(reports[m])]
    BY <1>13 DEF DoneReceived, roomVars, workVars
  <2>2. job[Head(reports[m])] = "over"
    <3>1. 1 \in DOMAIN reports[m] /\ Head(reports[m]) = reports[m][1]
      BY <1>0, <2>1
    <3>2. QED
      BY <3>1 DEF DeliveryInv, ReportedOver
  <2>3. ReportedOver'
    <3> SUFFICES ASSUME NEW l \in Link, NEW i \in Nat, i \in DOMAIN reports'[l]
                 PROVE  job[reports'[l][i]] = "over"
      BY <2>1 DEF ReportedOver
    <3>1. CASE l # m
      BY <1>0, <2>1, <3>1 DEF DeliveryInv, ReportedOver
    <3>2. CASE l = m
      <4>1. i + 1 \in DOMAIN reports[l] /\ reports'[l][i] = reports[l][i + 1]
        BY <1>0, <2>1, <3>2
      <4>2. QED
        BY <4>1 DEF DeliveryInv, ReportedOver
    <3>3. QED
      BY <3>1, <3>2
  <2>4. ReleasedByItsOwnEnd'
    BY <1>0, <2>1, <2>2 DEF DeliveryInv, CarriedByItsLink, ReleasedByItsOwnEnd
  <2>5. QED
    BY <2>1, <2>3, <2>4 DEF DeliveryInv, NotSentNotSeen, OrderedAfresh, OrderedOnce,
                            CarriedByItsLink
<1>14. ASSUME NEW m \in Link, ReadOrder(m)
       PROVE  DeliveryInv'
  <2> DEFINE order == Head(orders[m])
  <2>1. /\ UNCHANGED <<task, via, agent, opened, connected, current, done, reports>>
        /\ orders[m] # <<>>
        /\ orders' = [orders EXCEPT ![m] = Tail(@)]
        /\ \/ order.kind = "run" /\ job' = [job EXCEPT ![order.turn] = "preparing"]
           \/ order.kind = "interrupt" /\ UNCHANGED job
    BY <1>14 DEF ReadOrder, roomVars
  <2>2. 1 \in DOMAIN orders[m] /\ order = orders[m][1] /\ order \in Order
    BY <1>0, <2>1
  <2>3. \A l \in Link, i \in Nat : RunOrder(l, i)' =>
          IF l = m THEN RunOrder(l, i + 1) /\ orders'[l][i] = orders[l][i + 1]
                   ELSE RunOrder(l, i) /\ orders'[l][i] = orders[l][i]
    <3> SUFFICES ASSUME NEW l \in Link, NEW i \in Nat, RunOrder(l, i)'
                 PROVE  IF l = m THEN RunOrder(l, i + 1) /\ orders'[l][i] = orders[l][i + 1]
                                 ELSE RunOrder(l, i) /\ orders'[l][i] = orders[l][i]
      OBVIOUS
    <3>1. CASE l # m
      BY <1>0, <2>1, <3>1
    <3>2. CASE l = m
      <4>1. i + 1 \in DOMAIN orders[l] /\ orders'[l][i] = orders[l][i + 1]
        BY <1>0, <2>1, <3>2
      <4>2. QED
        BY <4>1, <3>2
    <3>3. QED
      BY <3>1, <3>2
  <2> HIDE DEF order
  <2>4. order.kind = "run" => /\ task[order.turn] \in {"waiting", "over"}
                              /\ job[order.turn] = "none"
    BY <2>2 DEF DeliveryInv, OrderedAfresh
  <2>5. \A l \in Link, i \in Nat :
          order.kind = "run" /\ RunOrder(l, i)' => orders'[l][i].turn # order.turn
    <3> SUFFICES ASSUME order.kind = "run",
                        NEW l \in Link, NEW i \in Nat, RunOrder(l, i)',
                        orders'[l][i].turn = order.turn
                 PROVE  FALSE
      OBVIOUS
    <3>1. PICK j \in Nat \ {0} : /\ RunOrder(l, j)
                                 /\ orders[l][j].turn = order.turn
                                 /\ l = m => j # 1
      <4>1. i \in Nat \ {0}
        BY <1>0, <2>1
      <4>2. QED
        BY <2>3, <4>1
    <3>2. RunOrder(m, 1) /\ orders[m][1].turn = order.turn
      BY <2>2
    <3>3. l = m /\ j = 1
      BY <3>1, <3>2 DEF DeliveryInv, OrderedOnce
    <3>4. QED
      BY <3>1, <3>3
  <2>6. order.turn \in Turn
    BY <2>2 DEF Order
  <2>7. NotSentNotSeen' /\ ReportedOver' /\ ReleasedByItsOwnEnd' /\ CarriedByItsLink'
    <3>1. \A t \in Turn : task[t] \in Unsent => job'[t] = job[t]
      BY <1>0, <2>1, <2>4, <2>6
    <3>2. \A t \in Turn : job[t] = "over" => job'[t] = "over"
      BY <1>0, <2>1, <2>4, <2>6
    <3>3. \A l \in Link, i \in Nat : i \in DOMAIN reports[l] => reports[l][i] \in Turn
      BY <1>0
    <3>4. QED
      BY <2>1, <3>1, <3>2, <3>3
         DEF DeliveryInv, NotSentNotSeen, ReportedOver, ReleasedByItsOwnEnd, CarriedByItsLink
  <2>8. OrderedAfresh'
    <3> SUFFICES ASSUME NEW l \in Link, NEW i \in Nat, RunOrder(l, i)'
                 PROVE  /\ task[orders'[l][i].turn] \in {"waiting", "over"}
                        /\ job'[orders'[l][i].turn] = "none"
      BY <2>1 DEF OrderedAfresh
    <3>1. /\ task[orders'[l][i].turn] \in {"waiting", "over"}
          /\ job[orders'[l][i].turn] = "none"
      BY <2>3 DEF DeliveryInv, OrderedAfresh
    <3>2. orders'[l][i].turn \in Turn
      <4>1. orders'[l][i] \in Order
        BY <1>0, <2>3
      <4>2. QED
        BY <4>1 DEF Order
    <3>3. QED
      BY <1>0, <2>1, <2>5, <2>6, <3>1, <3>2
  <2>9. OrderedOnce'
    BY <2>3 DEF DeliveryInv, OrderedOnce
  <2>10. QED
    BY <2>7, <2>8, <2>9 DEF DeliveryInv
<1>15. ASSUME NEW t \in Turn, StartJob(t) \/ RejectJob(t) \/ EndJob(t)
       PROVE  DeliveryInv'
  <2>1. PICK after \in {"running", "over"} :
          /\ job[t] \in {"preparing", "running"}
          /\ job' = [job EXCEPT ![t] = after]
          /\ UNCHANGED <<task, via, agent, opened, connected, current, done, orders>>
          /\ \/ UNCHANGED reports
             \/ after = "over" /\ Report(t)
    BY <1>15 DEF StartJob, RejectJob, EndJob, roomVars, linkVars
  <2>2. \A s \in Turn : job[s] = "none" <=> job'[s] = "none"
    BY <1>0, <2>1
  <2>3. \A s \in Turn : job[s] = "over" => job'[s] = "over"
    BY <1>0, <2>1
  <2>4. ReportedOver'
    <3> SUFFICES ASSUME NEW l \in Link, NEW i \in Nat, i \in DOMAIN reports'[l]
                 PROVE  job'[reports'[l][i]] = "over"
      BY DEF ReportedOver
    <3>1. CASE i \in DOMAIN reports[l] /\ reports'[l][i] = reports[l][i]
      <4>1. reports[l][i] \in Turn
        BY <1>0, <3>1
      <4>2. QED
        BY <2>3, <3>1, <4>1 DEF DeliveryInv, ReportedOver
    <3>2. CASE reports'[l] = Append(reports[l], t) /\ after = "over"
      <4>1. reports[l] \in Seq(Turn)
        BY <1>0
      <4>2. i \in 1..(Len(reports[l]) + 1)
        BY <3>2, <4>1
      <4>3. CASE i = Len(reports[l]) + 1
        BY <1>0, <2>1, <3>2, <4>1, <4>3
      <4>4. CASE i \in 1..Len(reports[l])
        BY <3>1, <3>2, <4>1, <4>4
      <4>5. QED
        BY <4>1, <4>2, <4>3, <4>4
    <3>3. QED
      BY <1>0, <2>1, <3>1, <3>2 DEF Report
  <2>5. NotSentNotSeen' /\ ReleasedByItsOwnEnd' /\ CarriedByItsLink'
    BY <2>1, <2>2, <2>3 DEF DeliveryInv, NotSentNotSeen, ReleasedByItsOwnEnd,
                            CarriedByItsLink
  <2>6. \A l \in Link, i \in Nat : RunOrder(l, i) => orders[l][i].turn \in Turn
    <3>1. \A l \in Link, i \in Nat : i \in DOMAIN orders[l] => orders[l][i] \in Order
      BY <1>0
    <3>2. QED
      BY <3>1 DEF Order
  <2>7. OrderedAfresh' /\ OrderedOnce'
    BY <2>1, <2>2, <2>6 DEF DeliveryInv, OrderedAfresh, OrderedOnce
  <2>8. QED
    BY <2>4, <2>5, <2>7 DEF DeliveryInv
<1>16. QED
  BY <1>1, <1>2, <1>3, <1>4, <1>5, <1>6, <1>8, <1>9, <1>10, <1>11, <1>12, <1>13,
     <1>14, <1>15 DEF TurnsNext

LEMMA DeliveryHolds == TurnsSpec => []DeliveryInv
<1>1. TurnsInit => DeliveryInv
  BY DEF TurnsInit, DeliveryInv, NotSentNotSeen, OrderedAfresh, OrderedOnce,
         ReportedOver, CarriedByItsLink, ReleasedByItsOwnEnd, RunOrder, None
<1>2. TurnsTypeOK /\ DeliveryInv /\ [TurnsNext]_vars => DeliveryInv'
  BY DeliveryStep
<1>3. QED
  BY <1>1, <1>2, TurnsTypeCorrect, PTL DEF TurnsSpec

\* A link that is still connected releases its turn only when the machine is
\* through with that very turn, for any number of turns and reconnections.
THEOREM ReleasedWhenOver == TurnsSpec => []ReleasedByItsOwnEnd
<1>1. DeliveryInv => ReleasedByItsOwnEnd
  BY DEF DeliveryInv
<1>2. QED
  BY <1>1, DeliveryHolds, PTL

-----------------------------------------------------------------------------
(* A prompt that was accepted is sent: a link whose socket is alive is busy *)
(* with a turn that waits on it, and with nothing else.                     *)

\* A link that was not opened carries nothing.
LinksFresh == \A l \in Link : l > opened => current[l] = None

BusyWithWaiting ==
  \A l \in Link : alive[l] /\ current[l] # None =>
                   task[current[l]] = "waiting" /\ via[current[l]] = l

BusyInv == LinksFresh /\ BusyWithWaiting

\* Tasks come and go, links do not, and no task that waits is over.
LEMMA BusyKept ==
  ASSUME TurnsTypeOK, BusyInv, UNCHANGED <<opened, current>>,
         \A l \in Link : alive'[l] => alive[l],
         \A t \in Turn : task[t] = "waiting" => task'[t] = "waiting" /\ via'[t] = via[t]
  PROVE  BusyInv'
<1>1. \A l \in Link : current[l] \in Turn \cup {None}
  BY DEF TurnsTypeOK
<1>2. LinksFresh'
  BY DEF BusyInv, LinksFresh
<1>3. BusyWithWaiting'
  <2> SUFFICES ASSUME NEW l \in Link, alive'[l], current[l] # None
               PROVE  task'[current[l]] = "waiting" /\ via'[current[l]] = l
    BY DEF BusyWithWaiting
  <2>1. current[l] \in Turn /\ alive[l]
    BY <1>1
  <2>2. QED
    BY <2>1 DEF BusyInv, BusyWithWaiting
<1>4. QED
  BY <1>2, <1>3 DEF BusyInv

LEMMA BusyStep ==
  ASSUME TurnsTypeOK, DeliveryInv, BusyInv, [TurnsNext]_vars
  PROVE  BusyInv'
<1>1. /\ task \in [Turn -> {"none", "begun", "lost", "spawned", "waiting", "over"}]
      /\ via \in [Turn -> Link \cup {None}] /\ agent \in Link \cup {None}
      /\ current \in [Link -> Turn \cup {None}]
      /\ alive \in [Link -> BOOLEAN]
      /\ MaxLinks \in Nat /\ opened \in 0..MaxLinks /\ \A l \in Link : l \in Nat
  BY TurnsAssumption DEF TurnsTypeOK, Link
<1>2. CASE UNCHANGED <<task, via, opened, connected, alive, current>>
  BY <1>2 DEF BusyInv, LinksFresh, BusyWithWaiting
<1>3. ASSUME \/ Decide \/ Stop \/ DrainEnds \/ UNCHANGED vars
             \/ \E who \in Preemptors : PreemptFloor(who)
             \/ \E t \in Turn : StartJob(t) \/ RejectJob(t) \/ EndJob(t)
             \/ \E l \in Link : CutSent(l) \/ CutRaises(l) \/ DoneReceived(l) \/ ReadOrder(l)
      PROVE  UNCHANGED <<task, via, opened, connected, alive, current>>
  BY <1>3 DEF Decide, Stop, DrainEnds, PreemptFloor, StartJob, RejectJob, EndJob, CutSent,
              CutRaises, DoneReceived, ReadOrder, vars, roomVars, linkVars
<1>4. ASSUME NEW t \in Turn, \/ \E who \in People : Submit(who, t)
                             \/ SubmitGoesOn(t) \/ SubmitRaises(t) \/ StartRefused(t)
      PROVE  BusyInv'
  <2>1. /\ UNCHANGED <<via, opened, connected, alive, current>>
        /\ \A s \in Turn : task[s] = "waiting" => task'[s] = "waiting"
    BY <1>1, <1>4 DEF Submit, IsNext, SubmitGoesOn, SubmitRaises, StartRefused, linkVars
  <2>2. QED
    BY <2>1, BusyKept
<1>5. ASSUME NEW t \in Turn, StartSends(t) \/ StartRaises(t)
      PROVE  BusyInv'
  <2>1. /\ agent \in Link /\ connected[agent] /\ agent <= opened
        /\ current[agent] = None /\ current' = [current EXCEPT ![agent] = t]
        /\ UNCHANGED <<opened, connected, alive>>
        /\ task[t] = "spawned"
    <3>1. agent \in Link /\ connected[agent]
      BY <1>1, <1>5 DEF StartSends, StartRaises, Hosted
    <3>2. agent <= opened
      BY DEF DeliveryInv, CarriedByItsLink
    <3>3. QED
      BY <1>5, <3>1, <3>2 DEF StartSends, StartRaises
  <2>2. LinksFresh'
    BY <1>1, <2>1 DEF BusyInv, LinksFresh
  <2>3. \/ task'[t] = "waiting" /\ via'[t] = agent
        \/ ~ alive[agent]
    BY <1>1, <1>5 DEF StartSends, StartRaises
  <2>4. \A s \in Turn \ {t} : task'[s] = task[s] /\ via'[s] = via[s]
    BY <1>1, <1>5 DEF StartSends, StartRaises
  <2>5. BusyWithWaiting'
    <3> SUFFICES ASSUME NEW l \in Link, alive[l], current'[l] # None
                 PROVE  task'[current'[l]] = "waiting" /\ via'[current'[l]] = l
      BY <2>1 DEF BusyWithWaiting
    <3>1. CASE l = agent
      BY <1>1, <2>1, <2>3, <3>1
    <3>2. CASE l # agent
      <4>1. current'[l] = current[l] /\ current[l] \in Turn
        BY <1>1, <2>1, <3>2
      <4>2. task[current[l]] = "waiting" /\ via[current[l]] = l
        BY <4>1 DEF BusyInv, BusyWithWaiting
      <4>3. QED
        BY <2>1, <2>4, <4>1, <4>2
    <3>3. QED
      BY <3>1, <3>2
  <2>6. QED
    BY <2>2, <2>5 DEF BusyInv
<1>6. ASSUME NEW t \in Turn, Wake(t) \/ Watchdog(t)
      PROVE  BusyInv'
  <2>1. /\ task[t] = "waiting" /\ task' = [task EXCEPT ![t] = "over"]
        /\ current' = [current EXCEPT ![via[t]] = None]
        /\ UNCHANGED <<via, opened, connected, alive>>
    BY <1>6 DEF Wake, Watchdog, Finish
  <2>2. \A l \in Link : /\ current'[l] \in {current[l], None}
                        /\ l = via[t] => current'[l] = None
    BY <1>1, <2>1
  <2>3. \A l \in Link : current'[l] # None => current[l] \in Turn /\ l # via[t]
    BY <1>1, <2>2
  <2>4. \A l \in Link : alive[l] /\ current'[l] # None => current'[l] # t
    BY <2>2, <2>3 DEF BusyInv, BusyWithWaiting
  <2>5. LinksFresh'
    BY <2>1, <2>2 DEF BusyInv, LinksFresh
  <2>6. BusyWithWaiting'
    <3> SUFFICES ASSUME NEW l \in Link, alive[l], current'[l] # None
                 PROVE  task'[current'[l]] = "waiting" /\ via[current'[l]] = l
      BY <2>1 DEF BusyWithWaiting
    <3>1. current'[l] = current[l] /\ current[l] \in Turn \ {t}
      BY <2>2, <2>3, <2>4
    <3>2. task[current[l]] = "waiting" /\ via[current[l]] = l
      BY <3>1 DEF BusyInv, BusyWithWaiting
    <3>3. QED
      BY <1>1, <2>1, <3>1, <3>2
  <2>7. QED
    BY <2>5, <2>6 DEF BusyInv
<1>7. CASE HostRoom
  <2>1. /\ opened' = opened + 1 /\ opened' \in Link
        /\ alive' = [alive EXCEPT ![opened'] = TRUE]
        /\ UNCHANGED <<task, via, current>>
    <3>1. opened' = opened + 1 /\ opened < MaxLinks
      BY <1>7 DEF HostRoom
    <3>2. opened' \in Link
      BY <1>1, <3>1 DEF Link
    <3>3. QED
      BY <1>7, <3>1, <3>2 DEF HostRoom
  <2>2. current[opened'] = None
    BY <1>1, <2>1 DEF BusyInv, LinksFresh
  <2>3. \A l \in Link : l = opened' \/ alive'[l] = alive[l]
    BY <1>1, <2>1
  <2>4. LinksFresh'
    BY <1>1, <2>1, <2>3 DEF BusyInv, LinksFresh
  <2>5. BusyWithWaiting'
    BY <2>1, <2>2, <2>3 DEF BusyInv, BusyWithWaiting
  <2>6. QED
    BY <2>4, <2>5 DEF BusyInv
<1>8. ASSUME NEW l \in Link, SocketDies(l) \/ NoticeDrop(l)
      PROVE  BusyInv'
  <2>1. UNCHANGED <<task, via, opened, current>>
    BY <1>8 DEF SocketDies, NoticeDrop, roomVars
  <2>2. \A m \in Link : alive'[m] => alive[m]
    BY <1>1, <1>8 DEF SocketDies, NoticeDrop
  <2>3. QED
    BY <2>1, <2>2, BusyKept
<1>9. QED
  BY <1>2, <1>3, <1>4, <1>5, <1>6, <1>7, <1>8 DEF TurnsNext

\* A prompt that was accepted reaches the daemon unless the host was lost
\* (agentlink.py:121-122 does not fire), or it was accepted beside a turn that was
\* preempted: for any number of turns and reconnections, however long the turns last.
THEOREM PromptsAreSent == TurnsSpec => AcceptedIsSent
<1>1. TurnsInit => BusyInv
  BY DEF TurnsInit, BusyInv, LinksFresh, BusyWithWaiting
<1>2. TurnsTypeOK /\ DeliveryInv /\ BusyInv /\ [TurnsNext]_vars => BusyInv'
  BY BusyStep
<1>3. TurnsTypeOK /\ DisturbedInv /\ BusyInv /\ [TurnsNext]_vars
      => [\A t \in Turn : StartRefused(t) => ~ Hosted \/ ~ alive[agent] \/ t \in disturbed]_vars
  <2> SUFFICES ASSUME TurnsTypeOK, DisturbedInv, BusyInv,
                      NEW t \in Turn, StartRefused(t), Hosted, alive[agent], t \notin disturbed
               PROVE  FALSE
    OBVIOUS
  <2>1. agent \in Link /\ current[agent] \in Turn
    BY DEF TurnsTypeOK, Hosted, StartRefused
  <2>2. current[agent] # None
    BY DEF StartRefused
  <2>3. task[current[agent]] = "waiting" /\ task[t] = "spawned"
    BY <2>1, <2>2 DEF BusyInv, BusyWithWaiting, StartRefused
  <2>4. current[agent] \in Live /\ t \in Live
    BY <2>1, <2>3 DEF Live
  <2>5. Live \cap disturbed = {}
    BY <2>4 DEF DisturbedInv
  <2>6. QED
    BY <2>3, <2>4, <2>5 DEF DisturbedInv, FloorMatchesTurn
<1>4. TurnsSpec => []DisturbedInv
  BY DisturbedHolds
<1>5. TurnsSpec => []DeliveryInv
  BY DeliveryHolds
<1>6. QED
  BY <1>1, <1>2, <1>3, <1>4, <1>5, TurnsTypeCorrect, PTL DEF TurnsSpec, AcceptedIsSent

-----------------------------------------------------------------------------
(* A connection never gives the machine two turns, and its interrupts cut   *)
(* the turn they were sent for, but for the turns the watchdog gave up:     *)
(* what the machine works at for a connection, and what it is ordered to    *)
(* there, is the turn the link carries, and an interrupt stands behind the  *)
(* order of its turn.                                                       *)

AtWork == {t \in Turn : job[t] \in {"preparing", "running"} /\ t \notin givenUp}

\* What the machine works at for a connection.
Work(l) == {t \in AtWork : via[t] = l}

\* The link has the turn, and has not heard of its end.
Carries(l, t) == current[l] = t /\ ~ done[l]

CutOrder(l, i) == i \in DOMAIN orders[l] /\ orders[l][i].kind = "interrupt"

\* An order to run a turn the relay still waits for.
WantedRun(l, i) == RunOrder(l, i) /\ orders[l][i].turn \notin givenUp

WorkHasALink == \A t \in AtWork : via[t] \in 1..opened

OneEach == \A s, t \in AtWork : via[s] = via[t] => s = t

NothingBefore == \A l \in Link : l > opened => orders[l] = <<>>

CarriedWork(l) ==
  /\ \A t \in Work(l) : Carries(l, t)
  /\ \A i \in Nat : WantedRun(l, i) => /\ Carries(l, orders[l][i].turn)
                                       /\ via[orders[l][i].turn] = l

CutsOfTheTurn(l) ==
  \A j \in Nat : CutOrder(l, j) =>
    /\ \A t \in Work(l) : orders[l][j].turn = t
    /\ \A i \in Nat : WantedRun(l, i) /\ i < j => orders[l][j].turn = orders[l][i].turn

LinkHolds(l) == alive[l] => CarriedWork(l) /\ CutsOfTheTurn(l)

OneTurnInv == WorkHasALink /\ OneEach /\ NothingBefore /\ \A l \in Link : LinkHolds(l)

LEMMA OrderAt ==
  ASSUME TurnsTypeOK, NEW l \in Link, NEW i \in DOMAIN orders[l]
  PROVE  orders[l][i] \in Order /\ orders[l][i].turn \in Turn /\ i \in Nat \ {0}
<1>1. orders[l] \in Seq(Order)
  BY DEF TurnsTypeOK
<1>2. orders[l][i] \in Order /\ i \in Nat \ {0}
  BY <1>1
<1>3. QED
  BY <1>2 DEF Order

LEMMA LinkUntouched ==
  ASSUME TurnsTypeOK, DeliveryInv, NEW l \in Link, LinkHolds(l),
         alive'[l] => alive[l] /\ orders'[l] = orders[l],
         Work(l)' \subseteq Work(l),
         \A t \in Turn : task[t] # "spawned" => via'[t] = via[t],
         givenUp \subseteq givenUp',
         \A t \in Turn : alive'[l] /\ job[t] # "over" /\ t \notin givenUp' /\ Carries(l, t)
                          => Carries(l, t)'
  PROVE  LinkHolds(l)'
<1> SUFFICES ASSUME alive'[l]
             PROVE  (CarriedWork(l) /\ CutsOfTheTurn(l))'
  BY DEF LinkHolds
<1>0. CarriedWork(l) /\ CutsOfTheTurn(l) /\ orders'[l] = orders[l]
  BY DEF LinkHolds
<1>1. ASSUME NEW t \in Work(l)'
      PROVE  Carries(l, t)'
  <2>1. t \in Work(l) /\ t \in Turn /\ job[t] # "over" /\ t \notin givenUp'
    BY DEF AtWork, Work
  <2>2. Carries(l, t)
    BY <1>0, <2>1 DEF CarriedWork
  <2>3. QED
    BY <2>1, <2>2
<1>2. ASSUME NEW i \in Nat, WantedRun(l, i)'
      PROVE  (Carries(l, orders[l][i].turn) /\ via[orders[l][i].turn] = l)'
  <2>0. RunOrder(l, i) /\ orders[l][i].turn \notin givenUp'
    BY <1>0, <1>2 DEF WantedRun, RunOrder
  <2>1. RunOrder(l, i) /\ WantedRun(l, i)
    BY <2>0 DEF WantedRun
  <2>2. orders[l][i].turn \in Turn
    BY <2>1, OrderAt DEF RunOrder
  <2>3. PICK t \in Turn : t = orders[l][i].turn
    BY <2>2
  <2>4. job[t] = "none" /\ task[t] # "spawned" /\ Carries(l, t) /\ via[t] = l
    BY <1>0, <2>1, <2>3 DEF DeliveryInv, OrderedAfresh, CarriedWork
  <2>5. Carries(l, t)' /\ via'[t] = l
    BY <2>0, <2>3, <2>4
  <2>6. QED
    BY <1>0, <2>3, <2>5 DEF Carries
<1>3. CarriedWork(l)'
  BY <1>1, <1>2 DEF CarriedWork
<1>4. CutsOfTheTurn(l)'
  BY <1>0 DEF CutsOfTheTurn, CutOrder, WantedRun, RunOrder
<1>5. QED
  BY <1>3, <1>4

\* A turn that came to work has a task that is no longer to start.
LEMMA WorkIsStarted ==
  ASSUME DeliveryInv, NEW t \in AtWork
  PROVE  t \in Turn /\ task[t] # "spawned" /\ job[t] # "none" /\ job[t] # "over"
BY DEF AtWork, DeliveryInv, NotSentNotSeen, Unsent

\* No order is given but on sockets that die, no turn comes to work, and a link drops
\* only a turn the machine is through with.
LEMMA OneTurnKept ==
  ASSUME TurnsTypeOK, DeliveryInv, OneTurnInv, opened' = opened, AtWork' \subseteq AtWork,
         \A l \in Link : \/ orders'[l] = orders[l]
                         \/ orders'[l] = <<>> /\ ~ alive'[l],
         \A l \in Link : alive'[l] => alive[l],
         \A t \in Turn : task[t] # "spawned" => via'[t] = via[t],
         givenUp \subseteq givenUp',
         \A l \in Link, t \in Turn :
           alive'[l] /\ job[t] # "over" /\ t \notin givenUp' /\ Carries(l, t) => Carries(l, t)'
  PROVE  OneTurnInv'
<1>1. \A t \in AtWork' : t \in AtWork /\ via'[t] = via[t]
  BY WorkIsStarted
<1>2. WorkHasALink' /\ OneEach'
  BY <1>1 DEF OneTurnInv, WorkHasALink, OneEach
<1>3. NothingBefore'
  BY DEF OneTurnInv, NothingBefore
<1>4. ASSUME NEW l \in Link
      PROVE  LinkHolds(l)'
  <2>1. Work(l)' \subseteq Work(l)
    BY <1>1 DEF Work
  <2>2. LinkHolds(l)
    BY DEF OneTurnInv
  <2>3. QED
    BY <2>1, <2>2, LinkUntouched
<1>5. QED
  BY <1>2, <1>3, <1>4 DEF OneTurnInv

LEMMA OrderAppended ==
  ASSUME TurnsTypeOK, NEW l \in Link, NEW order,
         orders' = [orders EXCEPT ![l] = Append(@, order)]
  PROVE  /\ \A i \in Nat : i \in DOMAIN orders'[l] =>
              \/ i \in DOMAIN orders[l] /\ orders'[l][i] = orders[l][i]
              \/ orders'[l][i] = order /\ \A j \in DOMAIN orders'[l] : j <= i
         /\ \A m \in Link \ {l} : orders'[m] = orders[m]
<1>1. orders \in [Link -> Seq(Order)] /\ orders[l] \in Seq(Order)
  BY DEF TurnsTypeOK
<1>2. orders'[l] = Append(orders[l], order) /\ \A m \in Link \ {l} : orders'[m] = orders[m]
  BY <1>1
<1>3. /\ DOMAIN orders[l] = 1..Len(orders[l]) /\ Len(orders[l]) \in Nat
      /\ DOMAIN Append(orders[l], order) = 1..(Len(orders[l]) + 1)
      /\ Append(orders[l], order)[Len(orders[l]) + 1] = order
      /\ \A i \in 1..Len(orders[l]) : Append(orders[l], order)[i] = orders[l][i]
  BY <1>1
<1>4. QED
  BY <1>2, <1>3

\* An interrupt is sent for the turn the link carries.
LEMMA OneTurnCut ==
  ASSUME TurnsTypeOK, DeliveryInv, OneTurnInv, SendInterrupt, alive[agent],
         NEW l \in Link, l = agent, l <= opened,
         UNCHANGED <<opened, alive, via, current, done, job, givenUp>>
  PROVE  OneTurnInv'
<1>1. PICK order : /\ order = [kind |-> "interrupt", turn |-> current[l]]
                   /\ orders' = [orders EXCEPT ![l] = Append(@, order)]
  BY DEF SendInterrupt
<1>2. order.kind = "interrupt" /\ order.kind # "run" /\ order.turn = current[l]
  BY <1>1
<1>3. /\ \A i \in Nat : i \in DOMAIN orders'[l] =>
           \/ i \in DOMAIN orders[l] /\ orders'[l][i] = orders[l][i]
           \/ orders'[l][i] = order /\ \A j \in DOMAIN orders'[l] : j <= i
      /\ \A m \in Link \ {l} : orders'[m] = orders[m]
  BY <1>1, OrderAppended
<1>4. AtWork' = AtWork /\ \A m : Work(m)' = Work(m)
  BY DEF AtWork, Work
<1>5. \A i \in Nat : WantedRun(l, i)' => WantedRun(l, i) /\ orders'[l][i] = orders[l][i]
  BY <1>2, <1>3 DEF WantedRun, RunOrder
<1>6. CarriedWork(l) /\ CutsOfTheTurn(l)
  BY DEF OneTurnInv, LinkHolds
<1>7. CarriedWork(l)'
  BY <1>4, <1>5, <1>6 DEF CarriedWork, Carries
<1>8. CutsOfTheTurn(l)'
  <2> SUFFICES ASSUME NEW j \in Nat, CutOrder(l, j)'
               PROVE  /\ \A t \in Work(l)' : orders'[l][j].turn = t
                      /\ \A i \in Nat : WantedRun(l, i)' /\ i < j =>
                           orders'[l][j].turn = orders'[l][i].turn
    BY DEF CutsOfTheTurn
  <2>0. j \in DOMAIN orders'[l] /\ orders'[l][j].kind = "interrupt"
    BY DEF CutOrder
  <2>1. CASE j \in DOMAIN orders[l] /\ orders'[l][j] = orders[l][j]
    <3>1. CutOrder(l, j)
      BY <2>0, <2>1 DEF CutOrder
    <3>2. /\ \A t \in Work(l) : orders[l][j].turn = t
          /\ \A i \in Nat : WantedRun(l, i) /\ i < j =>
               orders[l][j].turn = orders[l][i].turn
      BY <1>6, <3>1 DEF CutsOfTheTurn
    <3>3. QED
      BY <1>4, <1>5, <2>1, <3>2
  <2>2. CASE orders'[l][j] = order
    <3>1. orders'[l][j].turn = current[l]
      BY <1>2, <2>2
    <3>2. QED
      BY <1>4, <1>5, <1>6, <3>1 DEF CarriedWork, Carries
  <2>3. QED
    BY <1>3, <2>0, <2>1, <2>2
<1>9. WorkHasALink' /\ OneEach'
  BY <1>4 DEF OneTurnInv, WorkHasALink, OneEach
<1>10. NothingBefore'
  <2>1. l \in Nat /\ opened \in Nat
    BY DEF Link, TurnsTypeOK
  <2>2. QED
    BY <1>3, <2>1 DEF OneTurnInv, NothingBefore
<1>11. ASSUME NEW m \in Link, m # l
       PROVE  LinkHolds(m)'
  <2>1. orders'[m] = orders[m] /\ LinkHolds(m) /\ Work(m)' \subseteq Work(m)
    BY <1>3, <1>4, <1>11 DEF OneTurnInv
  <2>2. QED
    BY <2>1, LinkUntouched DEF Carries
<1>12. LinkHolds(l)'
  BY <1>7, <1>8 DEF LinkHolds
<1>13. QED
  BY <1>9, <1>10, <1>11, <1>12 DEF OneTurnInv

\* A turn is sent on a link that carries none.
LEMMA OneTurnSent ==
  ASSUME TurnsTypeOK, DeliveryInv, OneTurnInv, NEW t \in Turn, StartSends(t), alive[agent],
         NEW l \in Link, l = agent, l <= opened
  PROVE  OneTurnInv'
<1>1. PICK order : /\ order = [kind |-> "run", turn |-> t]
                   /\ orders' = [orders EXCEPT ![l] = Append(@, order)]
  BY DEF StartSends
<1>2. order.kind = "run" /\ order.kind # "interrupt" /\ order.turn = t
  BY <1>1
<1>3. /\ \A i \in Nat : i \in DOMAIN orders'[l] =>
           \/ i \in DOMAIN orders[l] /\ orders'[l][i] = orders[l][i]
           \/ orders'[l][i] = order /\ \A j \in DOMAIN orders'[l] : j <= i
      /\ \A m \in Link \ {l} : orders'[m] = orders[m]
  BY <1>1, OrderAppended
<1>4. /\ current[l] = None /\ None \notin Turn /\ task[t] = "spawned"
      /\ UNCHANGED <<opened, alive, job, givenUp>>
      /\ current'[l] = t /\ ~ done'[l] /\ via'[t] = l
      /\ \A s \in Turn \ {t} : via'[s] = via[s]
      /\ \A m \in Link \ {l} : current'[m] = current[m] /\ done'[m] = done[m]
  BY DEF StartSends, TurnsTypeOK, workVars, Turn, None
<1>5. AtWork' = AtWork /\ \A s \in AtWork : s \in Turn /\ via'[s] = via[s]
  <2>1. \A s \in AtWork : s \in Turn /\ s # t
    BY <1>4, WorkIsStarted
  <2>2. QED
    BY <1>4, <2>1 DEF AtWork
<1>6. \A m : Work(m)' = Work(m)
  BY <1>5 DEF Work
<1>7. CarriedWork(l)
  BY DEF OneTurnInv, LinkHolds
<1>8. Work(l) = {}
  <2>1. \A s \in Work(l) : s \in Turn /\ Carries(l, s)
    BY <1>7 DEF CarriedWork, AtWork, Work
  <2>2. QED
    BY <1>4, <2>1 DEF Carries
<1>9. \A i \in Nat : ~ WantedRun(l, i)
  <2> SUFFICES ASSUME NEW i \in Nat, WantedRun(l, i)
               PROVE  FALSE
    OBVIOUS
  <2>1. orders[l][i].turn \in Turn
    BY OrderAt DEF WantedRun, RunOrder
  <2>2. Carries(l, orders[l][i].turn)
    BY <1>7 DEF CarriedWork
  <2>3. QED
    BY <1>4, <2>1, <2>2 DEF Carries
<1>10. \A i \in Nat : WantedRun(l, i)' =>
         orders'[l][i] = order /\ \A j \in DOMAIN orders'[l] : j <= i
  BY <1>3, <1>4, <1>9 DEF WantedRun, RunOrder
<1>11. CarriedWork(l)'
  BY <1>2, <1>4, <1>6, <1>8, <1>10 DEF CarriedWork, Carries
<1>12. ASSUME NEW j \in Nat, CutOrder(l, j)', NEW i \in Nat, WantedRun(l, i)', i < j
       PROVE  FALSE
  <2>1. j \in DOMAIN orders'[l]
    BY <1>12 DEF CutOrder
  <2>2. j <= i
    BY <1>10, <1>12, <2>1
  <2>3. QED
    BY <1>12, <2>2
<1>13. CutsOfTheTurn(l)'
  BY <1>6, <1>8, <1>12 DEF CutsOfTheTurn
<1>14. WorkHasALink' /\ OneEach'
  BY <1>4, <1>5 DEF OneTurnInv, WorkHasALink, OneEach
<1>15. NothingBefore'
  <2>1. l \in Nat /\ opened \in Nat
    BY DEF Link, TurnsTypeOK
  <2>2. QED
    BY <1>3, <1>4, <2>1 DEF OneTurnInv, NothingBefore
<1>16. ASSUME NEW m \in Link, m # l
       PROVE  LinkHolds(m)'
  <2>1. orders'[m] = orders[m] /\ LinkHolds(m) /\ Work(m)' \subseteq Work(m)
    BY <1>3, <1>6, <1>16 DEF OneTurnInv
  <2>2. \A s \in Turn : task[s] # "spawned" => via'[s] = via[s]
    BY <1>4
  <2>3. \A s \in Turn : Carries(m, s) => Carries(m, s)'
    BY <1>4, <1>16 DEF Carries
  <2>4. QED
    BY <1>4, <2>1, <2>2, <2>3, LinkUntouched
<1>17. LinkHolds(l)'
  BY <1>11, <1>13 DEF LinkHolds
<1>18. QED
  BY <1>14, <1>15, <1>16, <1>17 DEF OneTurnInv

\* The machine takes an order: a turn to run is the one the link carries.
LEMMA OneTurnRead ==
  ASSUME TurnsTypeOK, DeliveryInv, OneTurnInv, NEW l \in Link, ReadOrder(l)
  PROVE  OneTurnInv'
<1>1. /\ alive[l] /\ UNCHANGED <<opened, alive, via, current, done, givenUp>>
      /\ orders[l] # <<>> /\ orders'[l] = Tail(orders[l])
      /\ \A m \in Link \ {l} : orders'[m] = orders[m]
      /\ orders[l] \in Seq(Order)
  BY DEF ReadOrder, TurnsTypeOK, roomVars
<1>2. PICK order : order = Head(orders[l])
  OBVIOUS
<1>3. /\ 1 \in DOMAIN orders[l] /\ order = orders[l][1]
      /\ \A i \in Nat : i \in DOMAIN orders'[l] =>
           i # 0 /\ i + 1 \in DOMAIN orders[l] /\ orders'[l][i] = orders[l][i + 1]
  BY <1>1, <1>2
<1>4. l \in 1..opened
  <2>1. l \in Nat /\ l > 0 /\ opened \in Nat
    BY DEF Link, TurnsTypeOK
  <2>2. QED
    BY <1>1, <2>1 DEF OneTurnInv, NothingBefore
<1>5. CarriedWork(l) /\ CutsOfTheTurn(l)
  BY <1>1 DEF OneTurnInv, LinkHolds
<1> DEFINE wanted == order.kind = "run" /\ order.turn \notin givenUp
<1>6. wanted => WantedRun(l, 1) /\ Carries(l, order.turn) /\ via[order.turn] = l
  BY <1>3, <1>5 DEF WantedRun, RunOrder, CarriedWork
<1>7. \/ AtWork' = AtWork
      \/ AtWork' = AtWork \cup {order.turn} /\ wanted
  <2>1. order.turn \in Turn
    BY <1>3, OrderAt
  <2>2. job \in [Turn -> {"none", "preparing", "running", "over"}]
    BY DEF TurnsTypeOK
  <2>3. \/ order.kind = "run" /\ job' = [job EXCEPT ![order.turn] = "preparing"]
        \/ job' = job
    BY <1>2 DEF ReadOrder
  <2>4. CASE order.kind = "run" /\ job' = [job EXCEPT ![order.turn] = "preparing"]
    <3>1. \A t \in Turn : job'[t] = IF t = order.turn THEN "preparing" ELSE job[t]
      BY <2>1, <2>2, <2>4
    <3>2. job[order.turn] = "none"
      BY <1>3, <2>4 DEF DeliveryInv, OrderedAfresh, RunOrder
    <3>3. CASE order.turn \in givenUp
      BY <1>1, <3>1, <3>2, <3>3 DEF AtWork
    <3>4. CASE order.turn \notin givenUp
      <4>1. AtWork' = AtWork \cup {order.turn}
        BY <1>1, <2>1, <3>1, <3>4 DEF AtWork
      <4>2. QED
        BY <2>4, <3>4, <4>1
    <3>5. QED
      BY <3>3, <3>4
  <2>5. CASE job' = job
    BY <1>1, <2>5 DEF AtWork
  <2>6. QED
    BY <2>3, <2>4, <2>5
<1>8. \A t \in Work(l) : Carries(l, t)
  BY <1>5 DEF CarriedWork
<1>9. \/ Work(l)' = Work(l)
      \/ Work(l)' = Work(l) \cup {order.turn} /\ wanted
  BY <1>1, <1>6, <1>7 DEF Work
<1>10. \A m \in Link \ {l} : Work(m)' = Work(m)
  BY <1>1, <1>6, <1>7 DEF Work
<1>11. \A i \in Nat : WantedRun(l, i)' =>
         WantedRun(l, i + 1) /\ orders'[l][i] = orders[l][i + 1] /\ i + 1 \in Nat
  BY <1>1, <1>3 DEF WantedRun, RunOrder
<1>12. CarriedWork(l)'
  <2>1. \A t \in Work(l)' : Carries(l, t)'
    BY <1>1, <1>6, <1>8, <1>9 DEF Carries
  <2>2. ASSUME NEW i \in Nat, WantedRun(l, i)'
        PROVE  (Carries(l, orders[l][i].turn) /\ via[orders[l][i].turn] = l)'
    <3>1. Carries(l, orders[l][i + 1].turn) /\ via[orders[l][i + 1].turn] = l
      BY <1>5, <1>11, <2>2 DEF CarriedWork
    <3>2. QED
      BY <1>1, <1>11, <2>2, <3>1 DEF Carries
  <2>3. QED
    BY <2>1, <2>2 DEF CarriedWork
<1>13. ASSUME NEW j \in Nat, CutOrder(l, j)'
       PROVE  /\ \A t \in Work(l)' : orders'[l][j].turn = t
              /\ \A i \in Nat : WantedRun(l, i)' /\ i < j =>
                   orders'[l][j].turn = orders'[l][i].turn
  <2>1. /\ j # 0 /\ CutOrder(l, j + 1) /\ orders'[l][j] = orders[l][j + 1]
    BY <1>3, <1>13 DEF CutOrder
  <2>2. /\ \A t \in Work(l) : orders[l][j + 1].turn = t
        /\ \A i \in Nat : WantedRun(l, i) /\ i < j + 1 =>
             orders[l][j + 1].turn = orders[l][i].turn
    BY <1>5, <2>1 DEF CutsOfTheTurn
  <2>3. wanted => orders[l][j + 1].turn = order.turn
    BY <1>3, <1>6, <2>1, <2>2
  <2>4. \A t \in Work(l)' : orders'[l][j].turn = t
    BY <1>9, <2>1, <2>2, <2>3
  <2>5. ASSUME NEW i \in Nat, WantedRun(l, i)', i < j
        PROVE  orders'[l][j].turn = orders'[l][i].turn
    <3>1. WantedRun(l, i + 1) /\ orders'[l][i] = orders[l][i + 1] /\ i + 1 < j + 1
      BY <1>11, <2>5
    <3>2. QED
      BY <2>1, <2>2, <3>1
  <2>6. QED
    BY <2>4, <2>5
<1>14. LinkHolds(l)'
  BY <1>12, <1>13 DEF LinkHolds, CutsOfTheTurn
<1>15. WorkHasALink'
  BY <1>1, <1>4, <1>6, <1>7 DEF OneTurnInv, WorkHasALink
<1>16. OneEach'
  <2>1. CASE AtWork' = AtWork
    BY <1>1, <2>1 DEF OneTurnInv, OneEach
  <2>2. CASE AtWork' = AtWork \cup {order.turn} /\ wanted
    <3>1. \A s \in AtWork : via[s] = via[order.turn] => s = order.turn
      BY <1>6, <1>8, <2>2 DEF Work, Carries
    <3>2. QED
      BY <1>1, <2>2, <3>1 DEF OneTurnInv, OneEach
  <2>3. QED
    BY <1>7, <2>1, <2>2
<1>17. NothingBefore'
  <2>1. l <= opened /\ l \in Nat /\ opened \in Nat
    BY <1>4 DEF TurnsTypeOK
  <2>2. QED
    BY <1>1, <2>1 DEF OneTurnInv, NothingBefore
<1>18. ASSUME NEW m \in Link, m # l
       PROVE  LinkHolds(m)'
  <2>1. orders'[m] = orders[m] /\ LinkHolds(m) /\ Work(m)' \subseteq Work(m)
    BY <1>1, <1>10, <1>18 DEF OneTurnInv
  <2>2. QED
    BY <1>1, <2>1, LinkUntouched DEF Carries
<1>19. QED
  BY <1>14, <1>15, <1>16, <1>17, <1>18 DEF OneTurnInv

\* A link opens with nothing to do.
LEMMA OneTurnHosted ==
  ASSUME TurnsTypeOK, DeliveryInv, OneTurnInv, HostRoom
  PROVE  OneTurnInv'
<1>1. /\ opened' = opened + 1 /\ opened \in Nat /\ opened' \in Link
      /\ UNCHANGED <<via, orders, current, done, job, givenUp>>
      /\ alive' = [alive EXCEPT ![opened'] = TRUE]
  BY TurnsAssumption DEF TurnsTypeOK, HostRoom, workVars, Link
<1>2. AtWork' = AtWork /\ \A m : Work(m)' = Work(m)
  BY <1>1 DEF AtWork, Work
<1>3. WorkHasALink' /\ OneEach'
  BY <1>1, <1>2 DEF OneTurnInv, WorkHasALink, OneEach
<1>4. NothingBefore'
  <2>1. ASSUME NEW l \in Link, l > opened'
        PROVE  orders'[l] = <<>>
    <3>1. l \in Nat
      BY DEF Link
    <3>2. l > opened
      BY <1>1, <2>1, <3>1
    <3>3. QED
      BY <1>1, <3>2 DEF OneTurnInv, NothingBefore
  <2>2. QED
    BY <2>1 DEF NothingBefore
<1>5. ASSUME NEW l \in Link, l = opened'
      PROVE  LinkHolds(l)'
  <2>1. l > opened
    BY <1>1, <1>5
  <2>2. Work(l)' = {}
    BY <1>1, <1>2, <2>1 DEF OneTurnInv, WorkHasALink, Work
  <2>3. orders'[l] = <<>>
    BY <1>1, <2>1 DEF OneTurnInv, NothingBefore
  <2>4. \A i : i \notin DOMAIN orders'[l]
    BY <2>3
  <2>5. CarriedWork(l)' /\ CutsOfTheTurn(l)'
    BY <2>2, <2>4 DEF CarriedWork, CutsOfTheTurn, WantedRun, RunOrder, CutOrder
  <2>6. QED
    BY <2>5 DEF LinkHolds
<1>6. ASSUME NEW m \in Link, m # opened'
      PROVE  LinkHolds(m)'
  <2>1. alive'[m] = alive[m]
    BY <1>1, <1>6 DEF TurnsTypeOK
  <2>2. LinkHolds(m) /\ Work(m)' \subseteq Work(m) /\ orders'[m] = orders[m]
    BY <1>1, <1>2 DEF OneTurnInv
  <2>3. QED
    BY <1>1, <2>1, <2>2, LinkUntouched DEF Carries
<1>7. QED
  BY <1>3, <1>4, <1>5, <1>6 DEF OneTurnInv

LEMMA OneTurnStep ==
  ASSUME TurnsTypeOK, DeliveryInv, OneTurnInv, [TurnsNext]_vars
  PROVE  OneTurnInv'
<1>0. /\ agent \in Link \cup {None} /\ None = 0
      /\ alive \in [Link -> BOOLEAN] /\ done \in [Link -> BOOLEAN]
      /\ job \in [Turn -> {"none", "preparing", "running", "over"}]
      /\ current \in [Link -> Turn \cup {None}]
      /\ opened \in Nat
  BY DEF TurnsTypeOK, Link, None
<1>1. Hosted => agent \in Link /\ agent <= opened
  <2>1. Hosted => agent \in Link
    BY <1>0 DEF Hosted
  <2>2. agent <= opened
    BY DEF DeliveryInv, CarriedByItsLink
  <2>3. QED
    BY <2>1, <2>2
<1>2. ASSUME UNCHANGED <<opened, alive, via, current, done, job, givenUp>>, UNCHANGED orders
      PROVE  OneTurnInv'
  BY <1>2, OneTurnKept DEF AtWork, Carries
<1>3. ASSUME Interruptible, SendInterrupt,
             UNCHANGED <<opened, alive, via, current, done, job, givenUp>>
      PROVE  OneTurnInv'
  <2>1. agent \in Link /\ agent <= opened
    BY <1>1, <1>3 DEF Interruptible
  <2>2. CASE alive[agent]
    <3>1. PICK l \in Link : l = agent
      BY <2>1
    <3>2. QED
      BY <1>3, <2>1, <2>2, <3>1, OneTurnCut
  <2>3. CASE ~ alive[agent]
    <3>1. UNCHANGED orders
      BY <1>3, <2>3 DEF SendInterrupt
    <3>2. QED
      BY <1>2, <1>3, <3>1
  <2>4. QED
    BY <2>2, <2>3
<1>4. CASE Decide
  BY <1>2, <1>4 DEF Decide, linkVars, workVars
<1>5. CASE Stop
  BY <1>3, <1>5 DEF Stop, roomVars, workVars
<1>6. CASE HostRoom
  BY <1>6, OneTurnHosted
<1>7. CASE DrainEnds
  BY <1>2, <1>7 DEF DrainEnds, roomVars, linkVars
<1>8. ASSUME NEW who \in Preemptors, PreemptFloor(who)
      PROVE  OneTurnInv'
  <2>1. /\ UNCHANGED <<opened, alive, via, current, done, job, givenUp>>
        /\ UNCHANGED orders \/ (Interruptible /\ SendInterrupt)
    BY <1>8 DEF PreemptFloor, workVars
  <2>2. QED
    BY <1>2, <1>3, <2>1
<1>9. ASSUME NEW t \in Turn,
             (\E who \in People : Submit(who, t)) \/ SubmitGoesOn(t) \/ SubmitRaises(t)
      PROVE  OneTurnInv'
  BY <1>2, <1>9 DEF Submit, SubmitGoesOn, SubmitRaises, linkVars, workVars
<1>10. ASSUME NEW t \in Turn, StartSends(t)
       PROVE  OneTurnInv'
  <2>1. agent \in Link /\ agent <= opened
    BY <1>1, <1>10 DEF StartSends
  <2>2. CASE alive[agent]
    <3>1. PICK l \in Link : l = agent
      BY <2>1
    <3>2. QED
      BY <1>10, <2>1, <2>2, <3>1, OneTurnSent
  <2>3. CASE ~ alive[agent]
    <3>1. /\ UNCHANGED <<orders, opened, alive, job, givenUp>>
          /\ task[t] = "spawned"
          /\ via' = [via EXCEPT ![t] = agent]
          /\ current' = [current EXCEPT ![agent] = t]
          /\ done' = [done EXCEPT ![agent] = FALSE]
      BY <1>10, <2>3 DEF StartSends, workVars
    <3>2. \A s \in Turn : task[s] # "spawned" => via'[s] = via[s]
      BY <3>1 DEF TurnsTypeOK
    <3>3. \A m \in Link, s \in Turn : alive'[m] /\ Carries(m, s) => Carries(m, s)'
      BY <1>0, <2>1, <2>3, <3>1 DEF Carries
    <3>4. QED
      BY <3>1, <3>2, <3>3, OneTurnKept DEF AtWork
  <2>4. QED
    BY <2>2, <2>3
<1>11. ASSUME NEW t \in Turn, StartRefused(t)
       PROVE  OneTurnInv'
  BY <1>2, <1>11 DEF StartRefused, linkVars, workVars
<1>12. ASSUME NEW t \in Turn, StartRaises(t)
       PROVE  OneTurnInv'
  <2>1. /\ agent \in Link /\ ~ alive[agent]
        /\ UNCHANGED <<orders, opened, alive, via, job, givenUp>>
        /\ current' = [current EXCEPT ![agent] = t]
        /\ done' = [done EXCEPT ![agent] = FALSE]
    BY <1>1, <1>12 DEF StartRaises, workVars
  <2>2. \A m \in Link, s \in Turn : alive'[m] /\ Carries(m, s) => Carries(m, s)'
    BY <1>0, <2>1 DEF Carries
  <2>3. QED
    BY <2>1, <2>2, OneTurnKept DEF AtWork
<1>13. ASSUME NEW t \in Turn, Wake(t)
       PROVE  OneTurnInv'
  <2>1. /\ task[t] = "waiting" /\ done[via[t]]
        /\ UNCHANGED <<orders, opened, alive, via, job, givenUp>>
        /\ current' = [current EXCEPT ![via[t]] = None]
        /\ done' = [done EXCEPT ![via[t]] = FALSE]
    BY <1>13 DEF Wake, Finish, workVars
  <2>2. \A l \in Link, s \in Turn : Carries(l, s) => Carries(l, s)'
    <3> SUFFICES ASSUME NEW l \in Link, NEW s \in Turn, Carries(l, s)
                 PROVE  Carries(l, s)'
      OBVIOUS
    <3>1. l # via[t]
      BY <2>1 DEF Carries
    <3>2. current'[l] = current[l] /\ done'[l] = done[l]
      BY <1>0, <2>1, <3>1
    <3>3. QED
      BY <3>2 DEF Carries
  <2>3. QED
    BY <2>1, <2>2, OneTurnKept DEF AtWork
<1>14. ASSUME NEW t \in Turn, Watchdog(t)
       PROVE  OneTurnInv'
  <2>1. /\ task[t] = "waiting" /\ givenUp' = givenUp \cup {t}
        /\ UNCHANGED <<orders, opened, alive, via, job>>
        /\ current' = [current EXCEPT ![via[t]] = None]
        /\ done' = [done EXCEPT ![via[t]] = FALSE]
    BY <1>14 DEF Watchdog, Finish, workVars
  <2>2. via[t] \in Link /\ current[via[t]] = t
    <3>1. via[t] \in 1..opened /\ current[via[t]] = t
      BY <2>1 DEF DeliveryInv, CarriedByItsLink
    <3>2. opened \in 0..MaxLinks /\ MaxLinks \in Nat
      BY TurnsAssumption DEF TurnsTypeOK
    <3>3. QED
      BY <3>1, <3>2 DEF Link
  <2>3. \A l \in Link, s \in Turn : s \notin givenUp' /\ Carries(l, s) => Carries(l, s)'
    <3> SUFFICES ASSUME NEW l \in Link, NEW s \in Turn, s \notin givenUp', Carries(l, s)
                 PROVE  Carries(l, s)'
      OBVIOUS
    <3>1. l # via[t]
      BY <2>1, <2>2 DEF Carries
    <3>2. current'[l] = current[l] /\ done'[l] = done[l]
      BY <1>0, <2>1, <3>1
    <3>3. QED
      BY <3>2 DEF Carries
  <2>4. AtWork' \subseteq AtWork /\ givenUp \subseteq givenUp'
    BY <2>1 DEF AtWork
  <2>5. QED
    BY <2>1, <2>3, <2>4, OneTurnKept
<1>15. ASSUME NEW t \in Turn, StartJob(t) \/ RejectJob(t) \/ EndJob(t)
       PROVE  OneTurnInv'
  <2>1. /\ job[t] \in {"preparing", "running"}
        /\ job' = [job EXCEPT ![t] = "running"] \/ job' = [job EXCEPT ![t] = "over"]
        /\ UNCHANGED <<orders, opened, alive, via, current, done, givenUp>>
    BY <1>15 DEF StartJob, RejectJob, EndJob, roomVars, linkVars
  <2>2. AtWork' \subseteq AtWork
    BY <1>0, <2>1 DEF AtWork
  <2>3. QED
    BY <2>1, <2>2, OneTurnKept DEF Carries
<1>16. ASSUME NEW l \in Link, CutSent(l) \/ CutRaises(l)
       PROVE  OneTurnInv'
  BY <1>2, <1>16 DEF CutSent, CutRaises, roomVars, linkVars, workVars
<1>17. ASSUME NEW l \in Link, SocketDies(l)
       PROVE  OneTurnInv'
  <2>1. /\ orders' = [orders EXCEPT ![l] = <<>>]
        /\ alive' = [alive EXCEPT ![l] = FALSE]
        /\ UNCHANGED <<opened, via, current, done, job, givenUp>>
    BY <1>17 DEF SocketDies, roomVars, workVars
  <2>2. \A m \in Link : alive'[m] => alive[m]
    BY <1>0, <2>1
  <2>3. \A m \in Link : \/ orders'[m] = orders[m]
                        \/ orders'[m] = <<>> /\ ~ alive'[m]
    BY <1>0, <2>1 DEF TurnsTypeOK
  <2>4. QED
    BY <2>1, <2>2, <2>3, OneTurnKept DEF AtWork, Carries
<1>18. ASSUME NEW l \in Link, NoticeDrop(l)
       PROVE  OneTurnInv'
  <2>1. /\ ~ alive[l] /\ UNCHANGED <<orders, opened, alive, via, current, job, givenUp>>
        /\ done' = [done EXCEPT ![l] = @ \/ current[l] # None]
    BY <1>18 DEF NoticeDrop, Dropped, workVars
  <2>2. \A m \in Link, s \in Turn : alive'[m] /\ Carries(m, s) => Carries(m, s)'
    BY <1>0, <2>1 DEF Carries
  <2>3. QED
    BY <2>1, <2>2, OneTurnKept DEF AtWork
<1>19. ASSUME NEW l \in Link, DoneReceived(l)
       PROVE  OneTurnInv'
  <2>1. /\ reports[l] # <<>> /\ UNCHANGED <<orders, opened, alive, via, current, job, givenUp>>
        /\ done' = [done EXCEPT ![l] = @ \/ current[l] = Head(reports[l])]
    BY <1>19 DEF DoneReceived, roomVars, workVars
  <2>2. job[Head(reports[l])] = "over"
    <3>1. reports[l] \in Seq(Turn)
      BY DEF TurnsTypeOK
    <3>2. 1 \in DOMAIN reports[l] /\ Head(reports[l]) = reports[l][1]
      BY <2>1, <3>1
    <3>3. QED
      BY <3>2 DEF DeliveryInv, ReportedOver
  <2>3. \A m \in Link, t \in Turn : job[t] # "over" /\ Carries(m, t) => Carries(m, t)'
    <3> SUFFICES ASSUME NEW m \in Link, NEW t \in Turn, job[t] # "over", Carries(m, t)
                 PROVE  Carries(m, t)'
      OBVIOUS
    <3>1. current[l] # Head(reports[l]) \/ m # l
      BY <2>2 DEF Carries
    <3>2. ~ done'[m]
      BY <1>0, <2>1, <3>1 DEF Carries
    <3>3. QED
      BY <2>1, <3>2 DEF Carries
  <2>4. QED
    BY <2>1, <2>3, OneTurnKept DEF AtWork
<1>20. ASSUME NEW l \in Link, ReadOrder(l)
       PROVE  OneTurnInv'
  BY <1>20, OneTurnRead
<1>21. CASE UNCHANGED vars
  BY <1>2, <1>21 DEF vars, roomVars, linkVars, workVars
<1>22. QED
  BY <1>4, <1>5, <1>6, <1>7, <1>8, <1>9, <1>10, <1>11, <1>12, <1>13, <1>14, <1>15,
     <1>16, <1>17, <1>18, <1>19, <1>20, <1>21 DEF TurnsNext

LEMMA OneTurnHolds == TurnsSpec => []OneTurnInv
<1>1. TurnsInit => OneTurnInv
  <2> SUFFICES ASSUME TurnsInit
               PROVE  OneTurnInv
    OBVIOUS
  <2>1. AtWork = {} /\ \A l \in Link : orders[l] = <<>> /\ ~ alive[l]
    BY DEF TurnsInit, AtWork
  <2>2. QED
    BY <2>1 DEF OneTurnInv, WorkHasALink, OneEach, NothingBefore, LinkHolds
<1>2. TurnsTypeOK /\ DeliveryInv /\ OneTurnInv /\ [TurnsNext]_vars => OneTurnInv'
  BY OneTurnStep
<1>3. QED
  BY <1>1, <1>2, TurnsTypeCorrect, DeliveryHolds, PTL DEF TurnsSpec

(* The machine refuses a turn (supervisor.py:316-318) only because of one   *)
(* sent on another connection, or when the watchdog gave one of the two up, *)
(* whatever the number of connections and preemption included: a turn is    *)
(* sent only when the link has heard of the end of the one before.          *)
THEOREM TurnsAreSerialised == TurnsSpec => SerialisedByTheFloor
<1>1. OneTurnInv /\ [TurnsNext]_vars =>
        [\A t \in Turn : RejectJob(t) =>
           \E s \in Running : via[s] # via[t] \/ s \in givenUp \/ t \in givenUp]_vars
  <2> SUFFICES ASSUME OneTurnInv, NEW t \in Turn, RejectJob(t)
               PROVE  \E s \in Running : via[s] # via[t] \/ s \in givenUp \/ t \in givenUp
    OBVIOUS
  <2>1. PICK s \in Running : TRUE
    BY DEF RejectJob
  <2>2. s # t /\ (s \in AtWork \/ s \in givenUp) /\ (t \in AtWork \/ t \in givenUp)
    BY <2>1 DEF RejectJob, Running, AtWork
  <2>3. QED
    BY <2>1, <2>2 DEF OneTurnInv, OneEach
<1>2. QED
  BY <1>1, OneTurnHolds, PTL DEF TurnsSpec, SerialisedByTheFloor

(* So it refuses none as long as the daemon keeps its first connection and  *)
(* the watchdog gives up no turn.                                           *)
THEOREM NoneRefusedOnOneConnection ==
  ASSUME MaxLinks = 1
  PROVE  TurnsSpec => [][\A t \in Turn : RejectJob(t) => givenUp # {}]_vars
<1>1. TurnsTypeOK /\ OneTurnInv /\ [TurnsNext]_vars =>
        [\A t \in Turn : RejectJob(t) => givenUp # {}]_vars
  <2> SUFFICES ASSUME TurnsTypeOK, OneTurnInv, NEW t \in Turn, RejectJob(t), givenUp = {}
               PROVE  FALSE
    OBVIOUS
  <2>1. PICK s \in Running : TRUE
    BY DEF RejectJob
  <2>2. s \in AtWork /\ t \in AtWork /\ s # t
    BY <2>1 DEF RejectJob, Running, AtWork
  <2>3. via[s] = 1 /\ via[t] = 1
    BY <2>2 DEF OneTurnInv, WorkHasALink, TurnsTypeOK
  <2>4. QED
    BY <2>2, <2>3 DEF OneTurnInv, OneEach
<1>2. QED
  BY <1>1, TurnsTypeCorrect, OneTurnHolds, PTL DEF TurnsSpec

(* An interrupt stops the turn it was sent for (agentlink.py:158-166),      *)
(* however late it is read and however long the machine drains, or a turn   *)
(* left over by another connection or by the watchdog: it names the turn    *)
(* the link carries, and what the machine works at for that connection is   *)
(* that turn, or turns the relay gave up.                                   *)
THEOREM InterruptsHitTheirTurn == TurnsSpec => InterruptHitsItsTurn
<1>1. TurnsTypeOK /\ OneTurnInv /\ [TurnsNext]_vars =>
        [draining = None /\ draining' # None =>
           \E l \in Link : /\ ReadOrder(l)
                           /\ \/ Head(orders[l]).turn = draining'
                              \/ via[draining'] # l
                              \/ draining' \in givenUp]_vars
  <2> SUFFICES ASSUME TurnsTypeOK, OneTurnInv, TurnsNext, draining = None, draining' # None
               PROVE  \E l \in Link : /\ ReadOrder(l)
                                      /\ \/ Head(orders[l]).turn = draining'
                                         \/ via[draining'] # l
                                         \/ draining' \in givenUp
    BY DEF vars, workVars
  <2>1. PICK l \in Link : ReadOrder(l)
    <3>1. draining' # draining
      OBVIOUS
    <3>2. QED
      BY <3>1 DEF TurnsNext, Decide, Stop, HostRoom, DrainEnds, PreemptFloor, Submit,
                  SubmitGoesOn, SubmitRaises, StartSends,
                  StartRefused, StartRaises, Wake, Watchdog, Finish, StartJob, RejectJob, EndJob,
                  CutSent, CutRaises, SocketDies, NoticeDrop, DoneReceived, workVars
  <2>2. /\ alive[l] /\ orders[l] # <<>> /\ Head(orders[l]).kind = "interrupt"
        /\ draining' \in Running
    BY <2>1 DEF ReadOrder
  <2>3. via[draining'] = l /\ draining' \notin givenUp => draining' \in Work(l)
    BY <2>2 DEF Running, AtWork, Work
  <2>4. 1 \in DOMAIN orders[l] /\ Head(orders[l]) = orders[l][1]
    <3>1. orders[l] \in Seq(Order)
      BY DEF TurnsTypeOK
    <3>2. QED
      BY <2>2, <3>1
  <2>5. CutOrder(l, 1)
    BY <2>2, <2>4 DEF CutOrder
  <2>6. via[draining'] = l /\ draining' \notin givenUp => Head(orders[l]).turn = draining'
    BY <2>2, <2>3, <2>4, <2>5 DEF OneTurnInv, LinkHolds, CutsOfTheTurn
  <2>7. QED
    BY <2>1, <2>6
<1>2. QED
  BY <1>1, TurnsTypeCorrect, OneTurnHolds, PTL DEF TurnsSpec, InterruptHitsItsTurn

=============================================================================
