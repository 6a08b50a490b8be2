---------------------------- MODULE PresenceProofs ----------------------------
(***************************************************************************)
(* What a room guarantees about who is there, for any number of people,     *)
(* tabs and turns.                                                         *)
(***************************************************************************)
EXTENDS Presence, FloorProofs, FiniteSetTheorems

-----------------------------------------------------------------------------
(* The token, moved by the room. *)

\* Every step of the room is a step of the token, or leaves it alone.
LEMMA RoomKeepsToken == [PresenceNext]_allVars => [Next]_floorVars
<1> SUFFICES ASSUME [PresenceNext]_allVars PROVE [Next]_floorVars
  OBVIOUS
<1> USE DEF floorVars
<1>1. ASSUME NEW t \in Tab,
             \/ \E p \in People : Subscribe(t, p)
             \/ NoHello(t) \/ Join(t) \/ Welcomed(t) \/ WelcomeRaises(t) \/ Close(t)
      PROVE  UNCHANGED floorVars
  BY <1>1 DEF Subscribe, NoHello, Join, Welcomed, WelcomeRaises, Close
<1>2. ASSUME NEW t \in Tab, Greet(t) PROVE [Next]_floorVars
  BY <1>2, PresenceAssumption DEF Greet, Next
<1>3. ASSUME NEW p \in People, Left(p) PROVE [Next]_floorVars
  BY <1>3 DEF Left, Next
<1>4. ASSUME NEW p \in People, Ask(p) PROVE Next
  BY <1>4 DEF Ask, Next
<1>5. ASSUME NEW p \in People, GiveUp(p) PROVE Next
  BY <1>5 DEF GiveUp, Next
<1>6. ASSUME NEW p \in People, Speak(p) PROVE Next
  BY <1>6 DEF Speak, Next
<1>7. ASSUME NEW p \in People, Name(p) PROVE Next
  BY <1>7 DEF Name, Next
<1>8. CASE AnnounceLeft
  BY <1>8 DEF AnnounceLeft
<1>9. CASE Withdraw
  BY <1>9 DEF Withdraw, Next
<1>10. CASE TurnOver
  BY <1>10 DEF TurnOver, Next
<1>11. CASE UNCHANGED allVars
  BY <1>11 DEF allVars
<1> HIDE DEF floorVars
<1> QED BY <1>1, <1>2, <1>3, <1>4, <1>5, <1>6, <1>7, <1>8, <1>9, <1>10, <1>11
       DEF PresenceNext

\* The token of a room that people enter and leave is the one Floor describes: what is
\* proved of Floor holds of it, the promises of SpeakingRight and the order of the
\* requests among others (server/room.py:190-228, server/ws.py:206-250).
THEOREM RoomHasTheToken == PresenceSpec => Spec /\ KeepsSpeakingRight /\ NoOvertaking
<1>1. PresenceInit => Init
  BY DEF PresenceInit
<1> QED BY <1>1, RoomKeepsToken, ImplementsSpeakingRight, NobodyIsOvertaken, PTL
       DEF PresenceSpec, Spec

-----------------------------------------------------------------------------
(* Types. *)

LEMMA PresenceTypesKept ==
  ASSUME PresenceTypeOK, TypeOK', TokenSound, [PresenceNext]_allVars
  PROVE  PresenceTypeOK'
<1> USE DEF PresenceTypeOK, tabVars, presenceVars, historyVars
<1>0. Present' \in SUBSET People
  BY DEF Present
<1>1. ASSUME NEW t \in Tab, NEW p \in People, Subscribe(t, p) PROVE PresenceTypeOK'
  BY <1>1 DEF Subscribe, Stage
<1>2. ASSUME NEW t \in Tab, NoHello(t) \/ Welcomed(t) \/ WelcomeRaises(t) PROVE PresenceTypeOK'
  BY <1>2 DEF NoHello, Welcomed, WelcomeRaises, Stage
<1>3. ASSUME NEW t \in Tab, Join(t) PROVE PresenceTypeOK'
  <2>1. shown' \in [Tab -> SUBSET SUBSET People]
    BY <1>0, <1>3 DEF Join, Announce
  <2>2. count' \in [People -> Nat]
    <3>1. CASE owner[t] \in People
      BY <1>3, <3>1 DEF Join
    <3>2. CASE owner[t] \notin People
      BY <1>3, <3>2 DEF Join
    <3> QED BY <3>1, <3>2
  <2>3. stage' \in [Tab -> Stage]
    BY <1>3 DEF Join, Stage
  <2> QED BY <1>3, <2>1, <2>2, <2>3 DEF Join
<1>4. ASSUME NEW t \in Tab, Greet(t) PROVE PresenceTypeOK'
  <2>1. shown' \in [Tab -> SUBSET SUBSET People]
    <3>1. {Present} \in SUBSET SUBSET People
      BY DEF Present
    <3>2. shown' = [shown EXCEPT ![t] = IF @ = {} THEN {Present} ELSE @]
      BY <1>4 DEF Greet
    <3> HIDE DEF Present
    <3> QED BY <3>1, <3>2
  <2>2. stage' \in [Tab -> Stage]
    BY <1>4 DEF Greet, Stage
  <2> QED BY <1>4, <2>1, <2>2 DEF Greet
<1>5. ASSUME NEW t \in Tab, Close(t) PROVE PresenceTypeOK'
  <2>1. stage' \in [Tab -> Stage]
    BY <1>5 DEF Close, Stage
  <2>2. leaving' \in [People -> Nat]
    <3>1. CASE owner[t] \in People
      BY <1>5, <3>1 DEF Close
    <3>2. CASE owner[t] \notin People
      BY <1>5, <3>2 DEF Close
    <3> QED BY <3>1, <3>2
  <2> QED BY <1>5, <2>1, <2>2 DEF Close
<1>6. ASSUME NEW p \in People, Left(p) PROVE PresenceTypeOK'
  <2>1. leaving' \in [People -> Nat] /\ owed' \in Nat
    BY <1>6 DEF Left
  <2>2. count' \in [People -> Nat]
    <3>1. (IF count[p] > 1 THEN count[p] - 1 ELSE 0) \in Nat
      OBVIOUS
    <3>2. count' = [count EXCEPT ![p] = IF count[p] > 1 THEN count[p] - 1 ELSE 0]
      BY <1>6 DEF Left
    <3> QED BY <3>1, <3>2
  <2> QED BY <1>6, <2>1, <2>2 DEF Left
<1>7. CASE AnnounceLeft
  <2>1. shown' \in [Tab -> SUBSET SUBSET People] /\ owed' \in Nat
    BY <1>0, <1>7 DEF AnnounceLeft, Announce
  <2> QED BY <1>7, <2>1 DEF AnnounceLeft
<1>8. ASSUME NEW p \in People, Ask(p) \/ GiveUp(p) PROVE PresenceTypeOK'
  BY <1>8 DEF Ask, GiveUp
<1>9. ASSUME NEW p \in People, Speak(p) PROVE PresenceTypeOK'
  <2>1. turns' \in 0..MaxTurns
    BY <1>9, PresenceAssumption DEF Speak
  <2> QED BY <1>9, <2>1 DEF Speak
<1>10. ASSUME NEW p \in People, Name(p) PROVE PresenceTypeOK'
  <2>1. named' \subseteq People
    BY <1>10 DEF Name
  <2>2. spared' \subseteq People
    <3>1. CASE holder = NoOne
      <4>1. state # "generating"
        BY <3>1 DEF TokenSound
      <4>2. holder' = p /\ p # NoOne
        BY <1>10, <4>1, FloorAssumption DEF Name, GrantNow, GrantLater, Preempt, Install
      <4> QED BY <1>10, <3>1, <4>2 DEF Name
    <3>2. CASE holder # NoOne
      <4>1. holder \in People
        BY <3>2 DEF TypeOK
      <4> QED BY <1>10, <4>1 DEF Name
    <3> QED BY <3>1, <3>2
  <2> QED BY <1>10, <2>1, <2>2 DEF Name
<1>11. CASE Withdraw \/ TurnOver
  BY <1>11 DEF Withdraw, TurnOver
<1>12. CASE UNCHANGED allVars
  BY <1>12 DEF allVars
<1> QED BY <1>1, <1>2, <1>3, <1>4, <1>5, <1>6, <1>7, <1>8, <1>9, <1>10, <1>11, <1>12
       DEF PresenceNext

LEMMA PresenceTypes == PresenceSpec => [](PresenceTypeOK /\ TokenSound /\ QueueSound)
<1>1. PresenceInit /\ TypeOK => PresenceTypeOK
  BY PresenceAssumption DEF PresenceInit, PresenceTypeOK, Stage
<1>2. PresenceTypeOK /\ TypeOK' /\ TokenSound /\ [PresenceNext]_allVars => PresenceTypeOK'
  BY PresenceTypesKept
<1>3. PresenceSpec => Spec
  BY RoomHasTheToken
<1> QED BY <1>1, <1>2, <1>3, TypeCorrect, TokenIsSound, QueueIsSound, PTL DEF PresenceSpec

\* The state of a room keeps its types.
THEOREM PresenceTypeCorrect == PresenceSpec => []PresenceTypeOK
BY PresenceTypes, PTL

-----------------------------------------------------------------------------
(* The count. *)

\* The tabs whose arrival is counted and whose departure is not scheduled.
Counted(p) == {t \in Tab : owner[t] = p /\ stage[t] \in {"joined", "welcomed", "live", "failed"}}

\* The count of a person is made of those tabs and of the departures to come.
CountIsExact ==
  /\ \A t \in Tab : stage[t] # "unused" => owner[t] \in People
  /\ \A p \in People : count[p] = Cardinality(Counted(p)) + leaving[p]

LEMMA CountedIsFinite ==
  \A p : IsFiniteSet(Counted(p)) /\ Cardinality(Counted(p)) \in Nat
<1> TAKE p
<1>1. IsFiniteSet(Tab)
  BY PresenceAssumption, FS_Interval DEF Tab
<1>2. Counted(p) \in SUBSET Tab
  BY DEF Counted
<1> QED BY <1>1, <1>2, FS_Subset, FS_CardinalityType

LEMMA CountKept ==
  ASSUME PresenceTypeOK, CountIsExact, [PresenceNext]_allVars
  PROVE  CountIsExact'
<1> USE DEF PresenceTypeOK
<1>0. /\ \A t \in Tab : stage[t] # "unused" => owner[t] \in People
      /\ \A p \in People : count[p] = Cardinality(Counted(p)) + leaving[p]
  BY DEF CountIsExact
<1>a. ASSUME UNCHANGED <<stage, owner, count, leaving>> PROVE CountIsExact'
  BY <1>0, <1>a DEF CountIsExact, Counted
\* A tab that goes from one stage to another, both counted or neither.
<1>b. ASSUME NEW t \in Tab, NEW p, NEW s,
             stage' = [stage EXCEPT ![t] = s], owner' = [owner EXCEPT ![t] = p], p \in People,
             stage[t] # "unused" => p = owner[t],
             stage[t] \in {"joined", "welcomed", "live", "failed"}
               <=> s \in {"joined", "welcomed", "live", "failed"},
             UNCHANGED <<count, leaving>>
      PROVE  CountIsExact'
  <2>1. \A q \in People : Counted(q)' = Counted(q)
    BY <1>b DEF Counted
  <2>2. \A u \in Tab : stage'[u] # "unused" => owner'[u] \in People
    BY <1>0, <1>b
  <2> QED BY <1>0, <1>b, <2>1, <2>2 DEF CountIsExact
<1>1. ASSUME NEW t \in Tab, NEW p \in People, Subscribe(t, p) PROVE CountIsExact'
  BY <1>1, <1>b DEF Subscribe, presenceVars
<1>2. ASSUME NEW t \in Tab, NoHello(t) \/ Greet(t) \/ Welcomed(t) \/ WelcomeRaises(t)
      PROVE  CountIsExact'
  <2>1. owner' = [owner EXCEPT ![t] = owner[t]] /\ owner[t] \in People
    BY <1>0, <1>2 DEF NoHello, Greet, Welcomed, WelcomeRaises
  <2> QED BY <1>2, <2>1, <1>b DEF NoHello, Greet, Welcomed, WelcomeRaises, presenceVars
<1>3. ASSUME NEW t \in Tab, Join(t) PROVE CountIsExact'
  <2>1. owner[t] \in People /\ t \notin Counted(owner[t])
    BY <1>0, <1>3 DEF Join, Counted
  <2>2. Counted(owner[t])' = Counted(owner[t]) \cup {t}
    BY <1>3 DEF Join, Counted
  <2>3. \A q \in People \ {owner[t]} : Counted(q)' = Counted(q)
    BY <1>3 DEF Join, Counted
  <2>4. Cardinality(Counted(owner[t])') = Cardinality(Counted(owner[t])) + 1
    BY <2>1, <2>2, CountedIsFinite, FS_AddElement
  <2>5. \A q \in People : count'[q] = IF q = owner[t] THEN count[q] + 1 ELSE count[q]
    BY <1>3, <2>1 DEF Join
  <2>6. \A u \in Tab : stage'[u] # "unused" => owner'[u] \in People
    BY <1>0, <1>3 DEF Join
  <2>7. leaving' = leaving /\ owner' = owner
    BY <1>3 DEF Join
  <2>8. ASSUME NEW q \in People
        PROVE  count'[q] = Cardinality(Counted(q)') + leaving'[q]
    <3>1. leaving[q] \in Nat /\ Cardinality(Counted(q)) \in Nat
      BY CountedIsFinite
    <3>2. CASE q = owner[t]
      BY <1>0, <2>4, <2>5, <2>7, <3>1, <3>2
    <3>3. CASE q # owner[t]
      BY <1>0, <2>3, <2>5, <2>7, <3>3
    <3> QED BY <3>2, <3>3
  <2> QED BY <2>6, <2>8 DEF CountIsExact
<1>4. ASSUME NEW t \in Tab, Close(t) PROVE CountIsExact'
  <2>1. owner[t] \in People /\ t \in Counted(owner[t])
    BY <1>0, <1>4 DEF Close, Counted
  <2>2. Counted(owner[t])' = Counted(owner[t]) \ {t}
    BY <1>4 DEF Close, Counted
  <2>3. \A q \in People \ {owner[t]} : Counted(q)' = Counted(q)
    BY <1>4 DEF Close, Counted
  <2>4. Cardinality(Counted(owner[t])') = Cardinality(Counted(owner[t])) - 1
    <3>1. IsFiniteSet(Counted(owner[t]))
      BY CountedIsFinite
    <3>2. Cardinality(Counted(owner[t]) \ {t}) = Cardinality(Counted(owner[t])) - 1
      BY <2>1, <3>1, FS_RemoveElement
    <3> QED BY <2>2, <3>2
  <2>5. \A q \in People : leaving'[q] = IF q = owner[t] THEN leaving[q] + 1 ELSE leaving[q]
    BY <1>4, <2>1 DEF Close
  <2>6. \A u \in Tab : stage'[u] # "unused" => owner'[u] \in People
    BY <1>0, <1>4 DEF Close
  <2>7. count' = count /\ owner' = owner
    BY <1>4 DEF Close
  <2>8. ASSUME NEW q \in People
        PROVE  count'[q] = Cardinality(Counted(q)') + leaving'[q]
    <3>1. leaving[q] \in Nat /\ Cardinality(Counted(q)) \in Nat
      BY CountedIsFinite
    <3>2. CASE q = owner[t]
      BY <1>0, <2>4, <2>5, <2>7, <3>1, <3>2
    <3>3. CASE q # owner[t]
      BY <1>0, <2>3, <2>5, <2>7, <3>3
    <3> QED BY <3>2, <3>3
  <2> QED BY <2>6, <2>8 DEF CountIsExact
<1>5. ASSUME NEW p \in People, Left(p) PROVE CountIsExact'
  <2>1. stage' = stage /\ owner' = owner
    BY <1>5 DEF Left, tabVars
  <2>2. \A q : Counted(q)' = Counted(q)
    BY <2>1 DEF Counted
  <2>3. ASSUME NEW q \in People
        PROVE  count'[q] = Cardinality(Counted(q)) + leaving'[q]
    <3>1. leaving[q] \in Nat /\ Cardinality(Counted(q)) \in Nat
      BY CountedIsFinite
    <3>2. CASE q = p
      <4>1. count'[p] = (IF count[p] > 1 THEN count[p] - 1 ELSE 0) /\ leaving'[p] = leaving[p] - 1
        BY <1>5 DEF Left
      <4>2. leaving[p] > 0
        BY <1>5 DEF Left
      <4> QED BY <1>0, <3>1, <3>2, <4>1, <4>2
    <3>3. CASE q # p
      <4>1. count'[q] = count[q] /\ leaving'[q] = leaving[q]
        BY <1>5, <3>3 DEF Left
      <4> QED BY <1>0, <4>1
    <3> QED BY <3>2, <3>3
  <2> QED BY <1>0, <2>1, <2>2, <2>3 DEF CountIsExact
<1>6. ASSUME NEW p \in People, Ask(p) \/ GiveUp(p) \/ Speak(p) \/ Name(p) PROVE CountIsExact'
  BY <1>6, <1>a DEF Ask, GiveUp, Speak, Name, tabVars, presenceVars
<1>7. CASE AnnounceLeft \/ Withdraw \/ TurnOver
  BY <1>7, <1>a DEF AnnounceLeft, Withdraw, TurnOver, tabVars, presenceVars
<1>8. CASE UNCHANGED allVars
  BY <1>8, <1>a DEF allVars, tabVars, presenceVars
<1> QED BY <1>1, <1>2, <1>3, <1>4, <1>5, <1>6, <1>7, <1>8 DEF PresenceNext

LEMMA CountInvariant ==
  PresenceSpec => [](PresenceTypeOK /\ TokenSound /\ QueueSound /\ CountIsExact)
<1>1. PresenceInit => CountIsExact
  <2> SUFFICES ASSUME PresenceInit PROVE CountIsExact
    OBVIOUS
  <2>1. \A p \in People : Counted(p) = {} /\ count[p] = 0 /\ leaving[p] = 0
    BY DEF PresenceInit, Counted
  <2> QED BY <2>1, FS_EmptySet DEF PresenceInit, CountIsExact
<1>2. PresenceTypeOK /\ CountIsExact /\ [PresenceNext]_allVars => CountIsExact'
  BY CountKept
<1> QED BY <1>1, <1>2, PresenceTypes, PTL DEF PresenceSpec

\* Nobody who watches is missing from the room: the count of a person is never less
\* than their open tabs, however many come and go (server/room.py:190-224).
THEOREM WatchersAreThere == PresenceSpec => []WatchersArePresent
<1>1. PresenceTypeOK /\ CountIsExact => WatchersArePresent
  <2> SUFFICES ASSUME PresenceTypeOK, CountIsExact, NEW p \in People, Watching(p)
               PROVE  count[p] > 0
    BY DEF WatchersArePresent, Present
  <2>1. Counted(p) # {}
    BY DEF Watching, Counted, TabsOf
  <2>2. Cardinality(Counted(p)) \in Nat \ {0}
    BY <2>1, CountedIsFinite, FS_EmptySet
  <2> QED BY <2>2 DEF CountIsExact, PresenceTypeOK
<1> QED BY <1>1, CountInvariant, PTL

\* Nobody who watches is missing from the room, and a page opened again before the
\* departure of the former one runs costs its owner neither the floor nor their
\* request (server/room.py:190-227).
THEOREM WatchersLoseNothing == PresenceSpec => WatchersKeepTheirPlace
<1>1. ASSUME PresenceTypeOK, CountIsExact, NEW p \in People, Watching(p), Left(p)
      PROVE  UNCHANGED floorVars
  <2>1. Counted(p) # {}
    BY <1>1 DEF Watching, Counted, TabsOf
  <2>2. Cardinality(Counted(p)) \in Nat \ {0}
    BY <2>1, CountedIsFinite, FS_EmptySet
  <2>3. count[p] > 1
    BY <1>1, <2>2 DEF CountIsExact, PresenceTypeOK, Left
  <2> QED BY <1>1, <2>3 DEF Left
<1>2. ASSUME PresenceTypeOK, CountIsExact
      PROVE  \A p \in People : Watching(p) /\ Left(p) =>
               /\ Heir = p => Heir' = p
               /\ Waiting(p) => Waiting(p)'
  BY <1>1, <1>2 DEF floorVars, Heir, Waiting
<1>3. PresenceTypeOK /\ CountIsExact /\ [PresenceNext]_allVars =>
        [\A p \in People : Watching(p) /\ Left(p) =>
           /\ Heir = p => Heir' = p
           /\ Waiting(p) => Waiting(p)']_allVars
  BY <1>2
<1> QED BY <1>3, CountInvariant, WatchersAreThere, PTL DEF PresenceSpec, WatchersKeepTheirPlace

-----------------------------------------------------------------------------
(* What the tabs show. *)

\* What a subscribed tab shows is nothing yet, or who is there, unless a departure
\* is still to be announced; once the snapshot is built, it is not nothing.
ShownIsFresh ==
  \A t \in Tab :
    /\ stage[t] = "unused" => shown[t] = {}
    /\ stage[t] \in {"subscribed", "joined", "welcomed", "live"} =>
         owed > 0 \/ shown[t] \in {{}, {Present}}
    /\ stage[t] \in {"welcomed", "live"} => shown[t] # {}

LEMMA ShownKept ==
  ASSUME PresenceTypeOK, CountIsExact, CountIsExact', ShownIsFresh, [PresenceNext]_allVars
  PROVE  ShownIsFresh'
<1> USE DEF PresenceTypeOK
<1> DEFINE Reading == {"subscribed", "joined", "welcomed", "live"}
<1>0. \A t \in Tab : /\ stage[t] = "unused" => shown[t] = {}
                     /\ stage[t] \in Reading => owed > 0 \/ shown[t] \in {{}, {Present}}
                     /\ stage[t] \in {"welcomed", "live"} => shown[t] # {}
  BY DEF ShownIsFresh
<1>a. ASSUME UNCHANGED <<shown, owed>>, Present' = Present,
             \A t \in Tab : /\ stage'[t] = "unused" => stage[t] = "unused"
                            /\ stage'[t] \in Reading => stage[t] \in Reading \cup {"unused"}
                            /\ stage'[t] \in {"welcomed", "live"} => stage[t] \in {"welcomed", "live"}
      PROVE  ShownIsFresh'
  BY <1>0, <1>a DEF ShownIsFresh
\* Everybody who reads is told of the list there is at the end of the step.
<1>b. ASSUME Announce,
             \A t \in Tab : /\ stage'[t] = "unused" => stage[t] = "unused"
                            /\ stage'[t] \in Reading => stage[t] \in Reading
      PROVE  ShownIsFresh'
  <2>1. \A t \in Tab : shown'[t] = IF stage[t] \in Reading THEN {Present'} ELSE shown[t]
    BY <1>b DEF Announce
  <2> QED BY <1>0, <1>b, <2>1 DEF ShownIsFresh
<1>1. ASSUME NEW t \in Tab, NEW p \in People, Subscribe(t, p) PROVE ShownIsFresh'
  BY <1>1, <1>a DEF Subscribe, Present, presenceVars
<1>2. ASSUME NEW t \in Tab, NoHello(t) \/ Welcomed(t) \/ WelcomeRaises(t) \/ Close(t)
      PROVE  ShownIsFresh'
  BY <1>2, <1>a DEF NoHello, Welcomed, WelcomeRaises, Close, Present, presenceVars
<1>3. ASSUME NEW t \in Tab, Join(t) PROVE ShownIsFresh'
  <2>1. \A u \in Tab : stage'[u] = IF u = t THEN "joined" ELSE stage[u]
    BY <1>3 DEF Join
  <2>2. stage[t] = "subscribed" /\ owner[t] \in People /\ owed' = owed
    BY <1>3 DEF Join, CountIsExact
  <2>3. CASE count[owner[t]] = 0
    BY <1>3, <1>b, <2>1, <2>2, <2>3 DEF Join
  <2>4. CASE count[owner[t]] # 0
    <3>1. Present' = Present
      BY <1>3, <2>2, <2>4 DEF Join, Present
    <3> QED BY <1>3, <1>a, <2>1, <2>2, <2>4, <3>1 DEF Join
  <2> QED BY <2>3, <2>4
<1>4. ASSUME NEW t \in Tab, Greet(t) PROVE ShownIsFresh'
  <2>1. \A u \in Tab : /\ stage'[u] = (IF u = t THEN "welcomed" ELSE stage[u])
                       /\ shown'[u] = IF u = t /\ shown[u] = {} THEN {Present} ELSE shown[u]
    BY <1>4 DEF Greet
  <2>2. stage[t] = "joined" /\ owed' = owed /\ Present' = Present
    BY <1>4 DEF Greet, Present, presenceVars
  <2> HIDE DEF PresenceTypeOK
  <2> QED BY <1>0, <2>1, <2>2 DEF ShownIsFresh
<1>5. ASSUME NEW p \in People, Left(p) PROVE ShownIsFresh'
  <2>1. stage' = stage /\ shown' = shown
    BY <1>5 DEF Left, tabVars
  <2>2. CASE count[p] > 1
    <3>1. Present' = Present /\ owed' = owed
      BY <1>5, <2>2 DEF Left, Present
    <3> QED BY <1>0, <2>1, <3>1 DEF ShownIsFresh
  <2>3. CASE ~ (count[p] > 1)
    <3>1. owed' > 0
      BY <1>5, <2>3 DEF Left
    <3> QED BY <1>0, <2>1, <3>1 DEF ShownIsFresh
  <2> QED BY <2>2, <2>3
<1>6. CASE AnnounceLeft
  BY <1>6, <1>b DEF AnnounceLeft
<1>7. ASSUME NEW p \in People, Ask(p) \/ GiveUp(p) \/ Speak(p) \/ Name(p) PROVE ShownIsFresh'
  BY <1>7, <1>a DEF Ask, GiveUp, Speak, Name, tabVars, presenceVars, Present
<1>8. CASE Withdraw \/ TurnOver
  BY <1>8, <1>a DEF Withdraw, TurnOver, tabVars, presenceVars, Present
<1>9. CASE UNCHANGED allVars
  BY <1>9, <1>a DEF allVars, tabVars, presenceVars, Present
<1> QED BY <1>1, <1>2, <1>3, <1>4, <1>5, <1>6, <1>7, <1>8, <1>9 DEF PresenceNext

\* Once nobody arrives or leaves, every tab shows who is there, whenever it subscribed
\* and whatever was announced meanwhile (server/ws.py:81-88).
THEOREM TabsShowWhoIsThere == PresenceSpec => []TabsShowPresence
<1>1. PresenceInit => ShownIsFresh
  BY DEF PresenceInit, ShownIsFresh
<1>2. PresenceTypeOK /\ CountIsExact /\ CountIsExact' /\ ShownIsFresh /\ [PresenceNext]_allVars
        => ShownIsFresh'
  BY ShownKept
<1>3. ShownIsFresh => TabsShowPresence
  BY DEF ShownIsFresh, TabsShowPresence, Settled
<1> QED BY <1>1, <1>2, <1>3, CountInvariant, PTL DEF PresenceSpec

-----------------------------------------------------------------------------
(* The floor of who leaves. *)

\* Who is in the room, or has the floor by a decision taken after they left.
Excused == Present \cup named \cup spared

\* Whoever has the floor and keeps it, and whoever will get it, is one of those.
HeirsAreExcused ==
  /\ revokeAfterTurn \/ holder \in Excused \cup {NoOne}
  /\ deferred \in Excused \cup {NoOne}
  /\ \A p \in People : Waiting(p) => p \in Present

\* Whoever leaves the list of requests is no longer in it; the others are those there were.
LEMMA AskersStay ==
  ASSUME PresenceTypeOK, QueueSound, NEW who,
         requests' = Without(requests, who)
  PROVE  /\ ~Waiting(who)'
         /\ \A p \in People : Waiting(p)' => Waiting(p)
<1>1. PICK f \in [DOMAIN requests' -> DOMAIN requests] :
        \A i \in DOMAIN requests' : requests'[i] = requests[f[i]] /\ requests[f[i]].who # who
  <2>1. requests \in Seq(Request) /\ Single(requests)
    BY DEF PresenceTypeOK, TypeOK, QueueSound, Single
  <2> QED BY <2>1, WithoutElements
<1> QED BY <1>1 DEF Waiting

LEMMA HeirsKept ==
  ASSUME PresenceTypeOK, TokenSound, QueueSound, CountIsExact, CountIsExact',
         HeirsAreExcused, [PresenceNext]_allVars
  PROVE  HeirsAreExcused'
<1> USE FloorAssumption
<1>0. /\ revokeAfterTurn \/ holder \in Excused \cup {NoOne}
      /\ deferred \in Excused \cup {NoOne}
      /\ \A p \in People : Waiting(p) => p \in Present
  BY DEF HeirsAreExcused
<1>T. /\ count \in [People -> Nat] /\ owner \in [Tab -> People \cup {NoOne}]
      /\ holder \in People \cup {NoOne} /\ deferred \in People \cup {NoOne}
      /\ named \subseteq People /\ spared \subseteq People
  BY DEF PresenceTypeOK, TypeOK
<1>w. ASSUME requests' = requests PROVE \A p : Waiting(p)' => Waiting(p)
  BY <1>w DEF Waiting
<1>a. ASSUME UNCHANGED floorVars, Excused \subseteq Excused', Present \subseteq Present'
      PROVE  HeirsAreExcused'
  BY <1>0, <1>a DEF HeirsAreExcused, Waiting, floorVars
\* Whoever is in the room, or takes the floor while nobody leaves.
<1>b. ASSUME NEW p \in People, p \in Excused', Excused \subseteq Excused', Present' = Present,
             GrantNow(p) \/ Preempt(p)
      PROVE  HeirsAreExcused'
  <2>1. holder' = p /\ deferred' = NoOne /\ requests' = Without(requests, p)
    BY <1>b DEF GrantNow, Preempt, Install
  <2>2. \A q \in People : Waiting(q)' => Waiting(q)
    BY <2>1, AskersStay
  <2> QED BY <1>0, <1>b, <2>1, <2>2 DEF HeirsAreExcused
<1>p. ASSUME NEW t \in Tab, stage[t] \in {"joined", "welcomed", "live"}
      PROVE  owner[t] \in Present
  <2>1. owner[t] \in People /\ t \in Counted(owner[t])
    BY <1>p DEF CountIsExact, Counted
  <2>2. Cardinality(Counted(owner[t])) \in Nat \ {0}
    BY <2>1, CountedIsFinite, FS_EmptySet
  <2>3. leaving[owner[t]] \in Nat
    BY <2>1 DEF PresenceTypeOK
  <2> QED BY <2>1, <2>2, <2>3, <1>T DEF CountIsExact, Present
<1>1. ASSUME NEW t \in Tab,
             \/ \E p \in People : Subscribe(t, p)
             \/ NoHello(t) \/ Welcomed(t) \/ WelcomeRaises(t) \/ Close(t)
      PROVE  HeirsAreExcused'
  BY <1>1, <1>a DEF Subscribe, NoHello, Welcomed, WelcomeRaises, Close, presenceVars, historyVars,
                    Excused, Present
<1>2. ASSUME NEW t \in Tab, Join(t) PROVE HeirsAreExcused'
  <2>1. owner[t] \in People
    BY <1>2 DEF Join, CountIsExact
  <2>2. Present' = Present \cup {owner[t]}
    BY <1>2, <1>T, <2>1 DEF Join, Present
  <2> QED BY <1>2, <1>a, <2>2 DEF Join, Excused
<1>3. ASSUME NEW t \in Tab, Greet(t) PROVE HeirsAreExcused'
  <2>1. owner[t] \in Present /\ owner[t] \in People
    BY <1>3, <1>p DEF Greet, Present
  <2>2. Present' = Present /\ Excused' = Excused
    BY <1>3 DEF Greet, Present, Excused, presenceVars, historyVars
  <2> QED BY <1>3, <1>a, <1>b, <2>1, <2>2 DEF Greet, Excused
<1>4. ASSUME NEW p \in People, Left(p) PROVE HeirsAreExcused'
  <2>1. CASE count[p] > 1
    <3>1. Present' = Present /\ UNCHANGED floorVars /\ Excused' = Excused
      BY <1>4, <1>T, <2>1 DEF Left, Present, Excused, historyVars
    <3> QED BY <1>a, <3>1
  <2>2. CASE ~ (count[p] > 1)
    <3>1. Present' = Present \ {p} /\ Excused \ {p} \subseteq Excused' /\ Depart(p)
      BY <1>4, <1>T, <2>2 DEF Left, Present, Excused, historyVars
    <3>2. /\ requests' = Without(requests, p)
          /\ deferred' \in {deferred, NoOne} \ {p}
          /\ \/ holder' = holder /\ revokeAfterTurn'
             \/ holder' = holder /\ holder # p /\ revokeAfterTurn' = revokeAfterTurn
             \/ holder' = NoOne
      <4>1. CASE holder # p
        BY <3>1, <4>1 DEF Depart
      <4>2. CASE holder = p /\ state = "generating"
        BY <3>1, <4>2 DEF Depart
      <4>3. CASE holder = p /\ state # "generating"
        <5>1. deferred = NoOne
          BY <4>3 DEF TokenSound, PresenceTypeOK, TypeOK, FloorState
        <5> QED BY <3>1, <4>3, <5>1 DEF Depart, HandOver, Release
      <4> QED BY <4>1, <4>2, <4>3
    <3>3. ~Waiting(p)' /\ \A q \in People : Waiting(q)' => Waiting(q)
      BY <3>2, AskersStay
    <3> QED BY <1>0, <3>1, <3>2, <3>3 DEF HeirsAreExcused
  <2> QED BY <2>1, <2>2
<1>5. ASSUME NEW p \in People, Ask(p) PROVE HeirsAreExcused'
  <2>1. PICK priority \in Priorities : AskFloor(p, priority)
    BY <1>5 DEF Ask
  <2>2. p \in Present
    BY <1>5, <1>p DEF Ask, Live, TabsOf
  <2>3. requests \in Seq(Request) /\ requests' = Append(requests, [who |-> p, priority |-> priority])
    BY <2>1 DEF AskFloor, PresenceTypeOK, TypeOK
  <2>4. \A q : Waiting(q)' => Waiting(q) \/ q = p
    BY <2>3 DEF Waiting
  <2>5. UNCHANGED <<holder, deferred, revokeAfterTurn>> /\ Present' = Present /\ Excused' = Excused
    BY <1>5, <2>1 DEF Ask, AskFloor, Present, Excused, presenceVars, historyVars
  <2> QED BY <1>0, <2>2, <2>4, <2>5 DEF HeirsAreExcused
<1>6. ASSUME NEW p \in People, DropRequest(p), Present' = Present, Excused' = Excused
      PROVE  HeirsAreExcused'
  <2>1. requests' = Without(requests, p) /\ UNCHANGED <<holder, deferred, revokeAfterTurn>>
    BY <1>6 DEF DropRequest
  <2>2. \A q \in People : Waiting(q)' => Waiting(q)
    BY <2>1, AskersStay
  <2> QED BY <1>0, <1>6, <2>1, <2>2 DEF HeirsAreExcused
<1>7. ASSUME NEW p \in People, GiveUp(p) PROVE HeirsAreExcused'
  <2>1. Present' = Present /\ Excused' = Excused
    BY <1>7 DEF GiveUp, Present, Excused, presenceVars, historyVars
  <2>2. CASE GiveBack(p)
    <3>1. deferred = NoOne
      BY <2>2 DEF GiveBack, TokenSound, PresenceTypeOK, TypeOK, FloorState
    <3>2. holder' = NoOne /\ deferred' = NoOne /\ requests' = requests
      BY <2>2, <3>1 DEF GiveBack, HandOver, Release
    <3> QED BY <1>0, <1>w, <2>1, <3>2 DEF HeirsAreExcused
  <2> QED BY <1>6, <1>7, <2>1, <2>2 DEF GiveUp
<1>8. ASSUME NEW p \in People, Speak(p) PROVE HeirsAreExcused'
  <2>1. Present' = Present /\ Excused' = Excused
    BY <1>8 DEF Speak, Present, Excused, presenceVars, historyVars
  <2>2. UNCHANGED <<holder, deferred, revokeAfterTurn, requests>>
    BY <1>8 DEF Speak, BeginTurn
  <2> QED BY <1>0, <1>w, <2>1, <2>2 DEF HeirsAreExcused
<1>9. ASSUME NEW p \in People, Name(p) PROVE HeirsAreExcused'
  <2>1. Present' = Present
    BY <1>9 DEF Name, Present, presenceVars
  <2>2. p \in Excused' /\ Excused \subseteq Excused'
    BY <1>9, <2>1 DEF Name, Excused
  <2>3. CASE GrantLater(p)
    <3>1. /\ holder' = holder /\ deferred' = p /\ requests' = Without(requests, p)
      BY <2>3 DEF GrantLater
    <3>2. holder \in Excused'
      BY <1>9, <2>1, <3>1 DEF Name, Excused
    <3>3. \A q \in People : Waiting(q)' => Waiting(q)
      BY <3>1, AskersStay
    <3> QED BY <1>0, <2>1, <2>2, <3>1, <3>2, <3>3 DEF HeirsAreExcused
  <2> QED BY <1>9, <1>b, <2>1, <2>2, <2>3 DEF Name
<1>10. CASE AnnounceLeft
  BY <1>10, <1>a DEF AnnounceLeft, historyVars, Excused, Present
<1>11. CASE Withdraw
  <2>1. Present' = Present /\ Excused' = Excused
    BY <1>11 DEF Withdraw, Present, Excused, presenceVars, historyVars
  <2>2. CASE Revoke
    <3>1. /\ deferred' = NoOne /\ requests' = requests
          /\ revokeAfterTurn' = TRUE \/ holder' = NoOne
      BY <2>2 DEF Revoke, Release
    <3> QED BY <1>0, <1>w, <2>1, <3>1 DEF HeirsAreExcused
  <2> QED BY <1>6, <1>11, <2>1, <2>2 DEF Withdraw
<1>12. CASE TurnOver
  <2>1. Present' = Present /\ Excused' = Excused /\ EndTurn
    BY <1>12 DEF TurnOver, Present, Excused, presenceVars, historyVars
  <2>2. CASE revokeAfterTurn
    <3>1. holder' = NoOne /\ deferred' = deferred /\ requests' = requests
      BY <2>1, <2>2 DEF EndTurn, Release
    <3> QED BY <1>0, <1>w, <2>1, <3>1 DEF HeirsAreExcused
  <2>3. CASE ~revokeAfterTurn /\ deferred = NoOne
    <3>1. UNCHANGED <<holder, deferred, revokeAfterTurn, requests>>
      BY <2>1, <2>3 DEF EndTurn
    <3> QED BY <1>0, <1>w, <2>1, <3>1 DEF HeirsAreExcused
  <2>4. CASE ~revokeAfterTurn /\ deferred # NoOne
    <3>1. holder' = deferred /\ deferred' = NoOne /\ requests' = Without(requests, deferred)
      BY <2>1, <2>4 DEF EndTurn, Install
    <3>2. \A q \in People : Waiting(q)' => Waiting(q)
      BY <3>1, AskersStay
    <3> QED BY <1>0, <2>1, <3>1, <3>2 DEF HeirsAreExcused
  <2> QED BY <2>2, <2>3, <2>4
<1>13. CASE UNCHANGED allVars
  BY <1>13, <1>a DEF allVars, presenceVars, historyVars, Excused, Present
<1> QED BY <1>1, <1>2, <1>3, <1>4, <1>5, <1>7, <1>8, <1>9, <1>10, <1>11, <1>12, <1>13
       DEF PresenceNext

\* The floor is never kept for somebody who has left, nor promised to them, unless a
\* decision taken after they left says so; and nobody who has left waits for it
\* (server/room.py:225-226, core/floor.py:319-334).
THEOREM FloorIsNotLeftBehind == PresenceSpec => []HeirIsPresent
<1>1. PresenceInit => HeirsAreExcused
  BY DEF PresenceInit, Init, HeirsAreExcused, Waiting
<1>2. PresenceTypeOK /\ TokenSound /\ QueueSound /\ CountIsExact /\ CountIsExact'
        /\ HeirsAreExcused /\ [PresenceNext]_allVars => HeirsAreExcused'
  BY HeirsKept
<1>3. PresenceTypeOK /\ TokenSound /\ HeirsAreExcused => HeirIsPresent
  BY DEF HeirsAreExcused, HeirIsPresent, Heir, Excused, TokenSound
<1> QED BY <1>1, <1>2, <1>3, CountInvariant, PTL DEF PresenceSpec

=============================================================================
