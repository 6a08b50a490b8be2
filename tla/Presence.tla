-------------------------------- MODULE Presence --------------------------------
(***************************************************************************)
(* Who is in a room: the tabs of its participants (server/ws.py,            *)
(* serve_socket), the count the room keeps of them (server/room.py, joined, *)
(* departure, left), what each tab shows of it, and the floor, which goes   *)
(* to who arrives in an unoccupied room and leaves with who goes.           *)
(*                                                                         *)
(* A step is what the loop runs between two awaits that may suspend; a      *)
(* publication suspends with the broker that uses Redis, and does not with  *)
(* the one in memory, whose interleavings are among those of the module.    *)
(***************************************************************************)
EXTENDS Floor, FiniteSets

CONSTANTS MaxTabs,   \* tabs opened in a behaviour
          MaxTurns,  \* turns in a behaviour
          Deciders   \* who has room.floor.grant

ASSUME PresenceAssumption == /\ MaxTabs \in Nat \ {0}
                             /\ MaxTurns \in Nat
                             /\ Deciders \subseteq People

Tab == 1..MaxTabs

VARIABLES
  stage,    \* what serve_socket does for each tab: see Stage
  owner,    \* who opened it
  shown,    \* the presence it shows once it has read what is queued for it:
            \* a set holding at most one list of people
  count,    \* Room._present: tabs per person, 0 when the name is not there
  leaving,  \* Room._chores: departures scheduled, per person
  owed,     \* departures that are done and not announced
  turns,    \* turns started
  named,    \* history: the absent people to whom somebody gave the floor
  spared    \* history: the absent speakers who keep it because a decision taken
            \* after they left cancelled its withdrawal

tabVars == <<stage, owner, shown>>
presenceVars == <<count, leaving, owed>>
historyVars == <<named, spared>>
allVars == <<floorVars, tabVars, presenceVars, turns, historyVars>>

\* "subscribed": the hello is awaited; "joined": the arrival is counted;
\* "welcomed": the snapshot is built, its sending awaited; "live": the pumps
\* run; "failed": the sending raised; "closed".
Stage == {"unused", "subscribed", "joined", "welcomed", "live", "failed", "closed"}

Present == {p \in People : count[p] > 0}
TabsOf(p) == {t \in Tab : owner[t] = p}
Watching(p) == \E t \in TabsOf(p) : stage[t] \in {"joined", "welcomed", "live"}

PresenceTypeOK ==
  /\ TypeOK
  /\ stage \in [Tab -> Stage]
  /\ owner \in [Tab -> People \cup {NoOne}]
  /\ shown \in [Tab -> SUBSET SUBSET People]
  /\ count \in [People -> Nat]
  /\ leaving \in [People -> Nat]
  /\ owed \in Nat
  /\ turns \in 0..MaxTurns
  /\ named \subseteq People /\ spared \subseteq People

PresenceInit ==
  /\ Init
  /\ stage = [t \in Tab |-> "unused"] /\ owner = [t \in Tab |-> NoOne]
  /\ shown = [t \in Tab |-> {}]
  /\ count = [p \in People |-> 0] /\ leaving = [p \in People |-> 0] /\ owed = 0
  /\ turns = 0 /\ named = {} /\ spared = {}

-----------------------------------------------------------------------------
(* The connections of a room. *)

\* Faulty variant: a tab is subscribed after its snapshot.
AnnounceToWelcomed ==
  shown' = [t \in Tab |-> IF stage[t] = "live" THEN {Present'} ELSE shown[t]]

\* _announce: the list goes into the queue of every subscriber.
Announce ==
  shown' = [t \in Tab |-> IF stage[t] \in {"subscribed", "joined", "welcomed", "live"}
                            THEN {Present'} ELSE shown[t]]

\* A tab is opened: accepted and subscribed, before anything is read from it.
Subscribe(t, p) ==
  /\ stage[t] = "unused"
  /\ \A u \in Tab : u < t => stage[u] # "unused"
  /\ stage' = [stage EXCEPT ![t] = "subscribed"]
  /\ owner' = [owner EXCEPT ![t] = p]
  /\ UNCHANGED <<floorVars, shown, presenceVars, turns, historyVars>>

\* No hello comes: nothing was counted, nothing is to be undone.
NoHello(t) ==
  /\ stage[t] = "subscribed"
  /\ stage' = [stage EXCEPT ![t] = "closed"]
  /\ UNCHANGED <<floorVars, owner, shown, presenceVars, turns, historyVars>>

\* The hello is read: Room.joined, which announces the first tab of a person.
Join(t) ==
  /\ stage[t] = "subscribed"
  /\ stage' = [stage EXCEPT ![t] = "joined"]
  /\ count' = [count EXCEPT ![owner[t]] = @ + 1]
  /\ IF count[owner[t]] = 0 THEN Announce ELSE UNCHANGED shown
  /\ named' = named \ {owner[t]} /\ spared' = spared \ {owner[t]}
  /\ UNCHANGED <<floorVars, owner, leaving, owed, turns>>

\* A room nobody occupies goes to who arrives and may decide; then the snapshot
\* is built, which what is queued already will follow.
Greet(t) ==
  /\ stage[t] = "joined"
  /\ stage' = [stage EXCEPT ![t] = "welcomed"]
  /\ IF owner[t] \in Deciders /\ holder = NoOne /\ deferred = NoOne /\ requests = <<>>
       THEN GrantNow(owner[t])
       ELSE UNCHANGED floorVars
  /\ shown' = [shown EXCEPT ![t] = IF @ = {} THEN {Present} ELSE @]
  /\ UNCHANGED <<owner, presenceVars, turns, historyVars>>

\* The snapshot is sent and the pumps start.
Welcomed(t) ==
  /\ stage[t] = "welcomed"
  /\ stage' = [stage EXCEPT ![t] = "live"]
  /\ UNCHANGED <<floorVars, owner, shown, presenceVars, turns, historyVars>>

\* What follows the arrival raises, before the try whose finally schedules the departure:
\* a publication, the journal of the floor, or the sending of the snapshot to a tab that
\* is closed already.
WelcomeRaises(t) ==
  /\ stage[t] \in {"joined", "welcomed"}
  /\ stage' = [stage EXCEPT ![t] = "failed"]
  /\ UNCHANGED <<floorVars, owner, shown, presenceVars, turns, historyVars>>

\* Faulty variant: only the last tab of a person schedules a departure.
CloseLastOnly(t) ==
  /\ stage[t] = "live"
  /\ stage' = [stage EXCEPT ![t] = "closed"]
  /\ leaving' = IF count[owner[t]] = 1 THEN [leaving EXCEPT ![owner[t]] = @ + 1]
                                       ELSE leaving
  /\ UNCHANGED <<floorVars, owner, shown, count, owed, turns, historyVars>>

\* A tab is closed: Room.departure schedules a task.
Close(t) ==
  /\ stage[t] = "live"
  /\ stage' = [stage EXCEPT ![t] = "closed"]
  /\ leaving' = [leaving EXCEPT ![owner[t]] = @ + 1]
  /\ UNCHANGED <<floorVars, owner, shown, count, owed, turns, historyVars>>

\* Faulty variant: the floor is left before the tabs are counted.
LeftFloorFirst(p) ==
  /\ leaving[p] > 0
  /\ leaving' = [leaving EXCEPT ![p] = @ - 1]
  /\ count' = [count EXCEPT ![p] = IF @ > 1 THEN @ - 1 ELSE 0]
  /\ Depart(p)
  /\ owed' = IF count[p] > 1 THEN owed ELSE owed + 1
  /\ UNCHANGED <<tabVars, turns, historyVars>>

\* Faulty variant: the floor stays with who has left.
LeftKeepsFloor(p) ==
  /\ leaving[p] > 0
  /\ leaving' = [leaving EXCEPT ![p] = @ - 1]
  /\ count' = [count EXCEPT ![p] = IF @ > 1 THEN @ - 1 ELSE 0]
  /\ owed' = IF count[p] > 1 THEN owed ELSE owed + 1
  /\ UNCHANGED <<floorVars, tabVars, turns, historyVars>>

\* left: the task runs. The last tab takes the person, then their floor, and
\* the announcement follows that of the floor.
Left(p) ==
  /\ leaving[p] > 0
  /\ leaving' = [leaving EXCEPT ![p] = @ - 1]
  /\ count' = [count EXCEPT ![p] = IF @ > 1 THEN @ - 1 ELSE 0]
  /\ IF count[p] > 1 THEN UNCHANGED <<floorVars, owed>>
                     ELSE Depart(p) /\ owed' = owed + 1
  /\ UNCHANGED <<tabVars, turns, historyVars>>

\* The list is the one of the moment it is announced.
AnnounceLeft ==
  /\ owed > 0
  /\ owed' = owed - 1
  /\ UNCHANGED <<floorVars, stage, owner, count, leaving, turns, historyVars>>
  /\ Announce

-----------------------------------------------------------------------------
(* What is said from a live tab. *)

Live(p) == \E t \in TabsOf(p) : stage[t] = "live"

Ask(p) ==
  /\ Live(p)
  /\ \E priority \in Priorities : AskFloor(p, priority)
  /\ UNCHANGED <<tabVars, presenceVars, turns, historyVars>>

GiveUp(p) ==
  /\ Live(p)
  /\ DropRequest(p) \/ GiveBack(p)
  /\ UNCHANGED <<tabVars, presenceVars, turns, historyVars>>

Speak(p) ==
  /\ Live(p)
  /\ turns < MaxTurns /\ turns' = turns + 1
  /\ BeginTurn(p)
  /\ UNCHANGED <<tabVars, presenceVars, historyVars>>

\* Somebody who may decide names the person: nothing looks whether they are here.
Name(p) ==
  /\ \E d \in Deciders : Live(d)
  /\ GrantNow(p) \/ GrantLater(p) \/ Preempt(p)
  /\ named' = IF p \in Present THEN named ELSE named \cup {p}
  /\ spared' = IF holder' = holder /\ holder \notin Present THEN spared \cup {holder}
                                                          ELSE spared
  /\ UNCHANGED <<tabVars, presenceVars, turns>>

Withdraw ==
  /\ \E d \in Deciders : Live(d)
  /\ Revoke \/ \E p \in People : DropRequest(p)
  /\ UNCHANGED <<tabVars, presenceVars, turns, historyVars>>

TurnOver == EndTurn /\ UNCHANGED <<tabVars, presenceVars, turns, historyVars>>

-----------------------------------------------------------------------------
PresenceNext ==
  \/ \E t \in Tab : \/ \E p \in People : Subscribe(t, p)
                    \/ NoHello(t)
                    \/ Join(t)
                    \/ Greet(t)
                    \/ Welcomed(t)
                    \/ WelcomeRaises(t)
                    \/ Close(t)
  \/ \E p \in People : Left(p) \/ Ask(p) \/ GiveUp(p) \/ Speak(p) \/ Name(p)
  \/ AnnounceLeft
  \/ Withdraw
  \/ TurnOver

PresenceSpec == PresenceInit /\ [][PresenceNext]_allVars

\* The loop runs the departures the room keeps, and goes on with an arrival.
FairPresenceSpec ==
  /\ PresenceSpec
  /\ \A p \in People : WF_allVars(Left(p))
  /\ WF_allVars(AnnounceLeft)
  /\ \A t \in Tab : WF_allVars(Greet(t)) /\ WF_allVars(Welcomed(t) \/ WelcomeRaises(t))

-----------------------------------------------------------------------------
(* Properties. *)

WatchersArePresent == \A p \in People : Watching(p) => p \in Present

\* Nobody who watches is missing from the room, however the closing of one tab
\* crosses the opening of another; and a page that is opened again before the first
\* is closed costs neither the floor nor the place in the list of requests
\* (server/room.py:190-227).
WatchersKeepTheirPlace ==
  /\ []WatchersArePresent
  /\ [][\A p \in People : Watching(p) /\ Left(p) =>
          /\ Heir = p => Heir' = p
          /\ Waiting(p) => Waiting(p)']_allVars

\* Whoever has the floor, or will have it when the turn ends, is in the room,
\* unless a decision taken after they left gave it to them or left it with them;
\* nobody who asks for it is away (server/room.py:225-226, core/floor.py:319-334).
HeirIsPresent ==
  /\ Heir # NoOne => Heir \in Present \cup named \cup spared
  /\ \A p \in People : Waiting(p) => p \in Present

\* Nobody is about to arrive or leave.
Settled == /\ owed = 0
           /\ \A p \in People : leaving[p] = 0
           /\ \A t \in Tab : stage[t] \notin {"joined", "welcomed"}

\* Once settled every tab shows who is there, whenever it subscribed
\* (server/ws.py:81-88).
TabsShowPresence ==
  Settled => \A t \in Tab : stage[t] = "live" => shown[t] = {Present}

\* Whoever closes their tabs leaves the room, unless the arrival of one of them raised
\* before its departure was provided for (server/room.py:197-206, server/ws.py:89-127).
LeavesInTheEnd ==
  \A p \in People :
    ~ Watching(p) ~> (p \notin Present \/ Watching(p)
                        \/ \E t \in TabsOf(p) : stage[t] = "failed")

=============================================================================
