----------------------------- MODULE FloorProofs -----------------------------
(***************************************************************************)
(* What the token guarantees for any set of people and priorities.         *)
(*                                                                         *)
(* TypeOK and TokenSound are inductive together.  The queue enters only    *)
(* through Without: what it leaves is a list of requests (WithoutType).    *)
(***************************************************************************)
EXTENDS Floor, TLAPS

\* Removing somebody from a list of requests leaves a list of requests.
LEMMA WithoutType ==
  ASSUME NEW queue \in Seq(Request), NEW who
  PROVE  Without(queue, who) \in Seq(Request)
<1>1. CASE \E i \in DOMAIN queue : queue[i].who = who
  <2> DEFINE k == CHOOSE i \in DOMAIN queue : queue[i].who = who
  <2>1. k \in 1..Len(queue)
    BY <1>1
  <2> HIDE DEF k
  <2>2. SubSeq(queue, 1, k - 1) \in Seq(Request)
    BY <2>1
  <2>3. SubSeq(queue, k + 1, Len(queue)) \in Seq(Request)
    BY <2>1
  <2>4. Without(queue, who) = SubSeq(queue, 1, k - 1) \o SubSeq(queue, k + 1, Len(queue))
    BY <1>1 DEF Without, RemoveAt, k
  <2>5. QED
    BY <2>2, <2>3, <2>4
<1>2. CASE ~ \E i \in DOMAIN queue : queue[i].who = who
  BY <1>2 DEF Without
<1>3. QED
  BY <1>1, <1>2

\* Removing somebody from the waiting list, as each method that grants does,
\* keeps the list well-typed.
LEMMA InstallType ==
  ASSUME TypeOK, NEW queue \in Seq(Request), NEW who \in People,
         Install(who, queue), deferred' \in People \cup {NoOne}
  PROVE  TypeOK'
BY WithoutType DEF TypeOK, Install, FloorState

-----------------------------------------------------------------------------
\* Every variable of the token keeps its type in every behaviour, whatever the
\* number of people and the priorities (core/floor.py:113-130).
THEOREM TypeCorrect == Spec => []TypeOK
<1>1. Init => TypeOK
  <2>1. <<>> \in Seq(Request)
    OBVIOUS
  <2>2. QED
    BY <2>1 DEF Init, TypeOK, FloorState
<1>2. TypeOK /\ [Next]_floorVars => TypeOK'
  <2> SUFFICES ASSUME TypeOK, [Next]_floorVars
               PROVE  TypeOK'
    OBVIOUS
  <2>1. CASE EndTurn
    <3>1. CASE deferred # NoOne /\ deferred' = NoOne /\ Install(deferred, requests)
      BY <3>1, InstallType DEF TypeOK
    <3>2. CASE revokeAfterTurn' = FALSE /\ Release /\ UNCHANGED <<deferred, requests>>
      BY <3>2 DEF TypeOK, Release, FloorState
    <3>3. CASE state' = "held" /\ UNCHANGED <<holder, deferred, revokeAfterTurn, requests>>
      BY <3>3 DEF TypeOK, FloorState
    <3>4. QED
      BY <2>1, <3>1, <3>2, <3>3 DEF EndTurn
  <2>2. CASE Revoke
    BY <2>2 DEF TypeOK, Revoke, Release, FloorState
  <2>3. ASSUME NEW who \in People, NEW priority \in Priorities, AskFloor(who, priority)
        PROVE  TypeOK'
    BY <2>3 DEF TypeOK, AskFloor, Request
  <2>4. ASSUME NEW who \in People, DropRequest(who)
        PROVE  TypeOK'
    BY <2>4, WithoutType DEF TypeOK, DropRequest
  <2>5. ASSUME NEW who \in People, GrantLater(who)
        PROVE  TypeOK'
    BY <2>5, WithoutType DEF TypeOK, GrantLater
  <2>6. ASSUME NEW who \in People, GrantNow(who) \/ Preempt(who)
        PROVE  TypeOK'
    BY <2>6, InstallType DEF TypeOK, GrantNow, Preempt
  <2>7. ASSUME NEW who \in People, GiveBack(who)
        PROVE  TypeOK'
    BY <2>7, InstallType DEF TypeOK, GiveBack, HandOver, Release, FloorState
  <2>8. ASSUME NEW who \in People, BeginTurn(who)
        PROVE  TypeOK'
    BY <2>8 DEF TypeOK, BeginTurn, FloorState
  <2>9. ASSUME NEW who \in People, Depart(who)
        PROVE  TypeOK'
    <3> DEFINE queue == Without(requests, who)
               heir  == IF deferred = who THEN NoOne ELSE deferred
    <3>1. queue \in Seq(Request) /\ heir \in People \cup {NoOne}
      BY WithoutType DEF TypeOK
    <3>2. CASE HandOver(heir, queue)
      <4>1. CASE heir # NoOne
        BY <3>1, <3>2, <4>1, InstallType DEF HandOver
      <4>2. CASE heir = NoOne
        BY <3>1, <3>2, <4>2 DEF HandOver, Release, TypeOK, FloorState
      <4>3. QED
        BY <4>1, <4>2
    <3>3. CASE /\ requests' = queue
               /\ deferred' = heir
               /\ UNCHANGED <<state, holder>>
               /\ revokeAfterTurn' \in {TRUE, revokeAfterTurn}
      BY <3>1, <3>3 DEF TypeOK
    <3>4. QED
      BY <2>9, <3>2, <3>3 DEF Depart
  <2>10. CASE UNCHANGED floorVars
    BY <2>10 DEF TypeOK, floorVars
  <2>11. QED
    BY <2>1, <2>2, <2>3, <2>4, <2>5, <2>6, <2>7, <2>8, <2>9, <2>10 DEF Next
<1>3. QED
  BY <1>1, <1>2, PTL DEF Spec

-----------------------------------------------------------------------------
\* The token never dangles, for any number of people: it is open exactly when
\* nobody holds it, nobody stays promised once the turn is over and somebody
\* writes, and a withdrawal is pending only during a turn.
THEOREM TokenIsSound == Spec => []TokenSound
<1>1. Init => TokenSound
  BY FloorAssumption DEF Init, TokenSound
<1>2. TypeOK /\ TokenSound /\ [Next]_floorVars => TokenSound'
  <2> SUFFICES ASSUME TypeOK, TokenSound, [Next]_floorVars
               PROVE  TokenSound'
    OBVIOUS
  <2> USE FloorAssumption DEF TokenSound
  <2>1. CASE EndTurn
    BY <2>1 DEF EndTurn, Install, Release, TypeOK
  <2>2. CASE Revoke
    BY <2>2 DEF Revoke, Release
  <2>3. ASSUME NEW who \in People, NEW priority \in Priorities, AskFloor(who, priority)
        PROVE  TokenSound'
    BY <2>3 DEF AskFloor
  <2>4. ASSUME NEW who \in People, DropRequest(who)
        PROVE  TokenSound'
    BY <2>4 DEF DropRequest
  <2>5. ASSUME NEW who \in People, GrantLater(who)
        PROVE  TokenSound'
    BY <2>5 DEF GrantLater
  <2>6. ASSUME NEW who \in People, GrantNow(who) \/ Preempt(who)
        PROVE  TokenSound'
    BY <2>6 DEF GrantNow, Preempt, Install
  <2>7. ASSUME NEW who \in People, GiveBack(who)
        PROVE  TokenSound'
    BY <2>7 DEF GiveBack, HandOver, Install, Release, TypeOK, FloorState
  <2>8. ASSUME NEW who \in People, BeginTurn(who)
        PROVE  TokenSound'
    BY <2>8 DEF BeginTurn, CanSend
  <2>9. ASSUME NEW who \in People, Depart(who)
        PROVE  TokenSound'
    BY <2>9 DEF Depart, HandOver, Install, Release, TypeOK, FloorState
  <2>10. CASE UNCHANGED floorVars
    BY <2>10 DEF floorVars
  <2>11. QED
    BY <2>1, <2>2, <2>3, <2>4, <2>5, <2>6, <2>7, <2>8, <2>9, <2>10 DEF Next
<1>3. QED
  BY <1>1, <1>2, TypeCorrect, PTL DEF Spec

-----------------------------------------------------------------------------
\* The last decision taken during a turn binds its end, for any number of
\* people and any mix of grants, withdrawals and departures.
THEOREM LastDecisionBinds == Spec => DecisionsBind
<1>1. TypeOK /\ TokenSound /\ [Next]_floorVars
        => [/\ \A who \in People : GrantLater(who) => Heir' = who
            /\ Revoke => Heir' = NoOne
            /\ \A who \in People : Depart(who) => Heir' # who]_floorVars
  <2> SUFFICES ASSUME TypeOK, TokenSound
               PROVE  /\ \A who \in People : GrantLater(who) => Heir' = who
                      /\ Revoke => Heir' = NoOne
                      /\ \A who \in People : Depart(who) => Heir' # who
    OBVIOUS
  <2> USE FloorAssumption DEF TokenSound, Heir
  <2>1. ASSUME NEW who \in People, GrantLater(who)
        PROVE  Heir' = who
    BY <2>1 DEF GrantLater
  <2>2. ASSUME Revoke
        PROVE  Heir' = NoOne
    BY <2>2 DEF Revoke, Release
  <2>3. ASSUME NEW who \in People, Depart(who)
        PROVE  Heir' # who
    BY <2>3 DEF Depart, HandOver, Install, Release
  <2>4. QED
    BY <2>1, <2>2, <2>3
<1>2. QED
  BY <1>1, TypeCorrect, TokenIsSound, PTL DEF Spec, DecisionsBind

-----------------------------------------------------------------------------
\* The token implements SpeakingRight: the initial states correspond, and each
\* step of the token is a step of SpeakingRight or leaves it alone.
THEOREM ImplementsSpeakingRight == Spec => KeepsSpeakingRight
<1>1. Init => Right!Init
  BY DEF Init, Right!Init, Heir
<1>2. TypeOK /\ TokenSound /\ [Next]_floorVars => [Right!Next]_(Right!rightVars)
  <2> SUFFICES ASSUME TypeOK, TokenSound, [Next]_floorVars
               PROVE  [Right!Next]_(Right!rightVars)
    OBVIOUS
  <2> USE FloorAssumption DEF TokenSound, Heir, Right!rightVars
  <2>1. CASE EndTurn
    <3>1. Right!End
      BY <2>1 DEF EndTurn, Install, Release, Right!End
    <3>2. QED
      BY <3>1 DEF Right!Next
  <2>2. CASE Revoke
    <3>1. CASE state = "generating"
      <4>1. Right!Decide
        BY <2>2, <3>1 DEF Revoke, Release, Right!Decide
      <4>2. QED
        BY <4>1 DEF Right!Next
    <3>2. CASE state # "generating"
      <4>1. Right!Assign
        BY <2>2, <3>2 DEF Revoke, Release, Right!Assign
      <4>2. QED
        BY <4>1 DEF Right!Next
    <3>3. QED
      BY <3>1, <3>2
  <2>3. ASSUME NEW who \in People, NEW priority \in Priorities, AskFloor(who, priority)
        PROVE  UNCHANGED Right!rightVars
    BY <2>3 DEF AskFloor
  <2>4. ASSUME NEW who \in People, DropRequest(who)
        PROVE  UNCHANGED Right!rightVars
    BY <2>4 DEF DropRequest
  <2>5. ASSUME NEW who \in People, GrantLater(who)
        PROVE  Right!Decide
    BY <2>5 DEF GrantLater, Right!Decide
  <2>6. ASSUME NEW who \in People, GrantNow(who)
        PROVE  Right!Assign
    BY <2>6 DEF GrantNow, Install, Right!Assign
  <2>7. ASSUME NEW who \in People, Preempt(who)
        PROVE  Right!Cut
    BY <2>7 DEF Preempt, Install, Right!Cut
  <2>8. ASSUME NEW who \in People, GiveBack(who)
        PROVE  Right!Assign
    BY <2>8 DEF GiveBack, HandOver, Install, Release, TypeOK, Right!Assign
  <2>9. ASSUME NEW who \in People, BeginTurn(who)
        PROVE  Right!Begin
    BY <2>9 DEF BeginTurn, CanSend, Right!Begin
  <2>10. ASSUME NEW who \in People, Depart(who)
         PROVE  Right!Decide \/ Right!Assign \/ UNCHANGED Right!rightVars
    <3>1. CASE state = "generating"
      BY <2>10, <3>1 DEF Depart, TypeOK, Right!Decide
    <3>2. CASE state # "generating"
      BY <2>10, <3>2 DEF Depart, HandOver, Install, Release, TypeOK, Right!Assign
    <3>3. QED
      BY <3>1, <3>2
  <2>11. CASE UNCHANGED floorVars
    BY <2>11 DEF floorVars
  <2>12. QED
    BY <2>1, <2>2, <2>3, <2>4, <2>5, <2>6, <2>7, <2>8, <2>9, <2>10, <2>11
       DEF Next, Right!Next
<1>3. QED
  BY <1>1, <1>2, TypeCorrect, TokenIsSound, PTL DEF Spec, KeepsSpeakingRight, Right!Spec

-----------------------------------------------------------------------------
(* The queue. *)

\* Each person is there once.
Single(queue) == \A i, j \in DOMAIN queue : queue[i].who = queue[j].who => i = j

\* What is left without somebody: everybody else, in the same order.
LEMMA WithoutElements ==
  ASSUME NEW queue \in Seq(Request), Single(queue), NEW who
  PROVE  \E f \in [DOMAIN Without(queue, who) -> DOMAIN queue] :
           /\ \A i \in DOMAIN Without(queue, who) :
                Without(queue, who)[i] = queue[f[i]] /\ queue[f[i]].who # who
           /\ \A i, j \in DOMAIN Without(queue, who) : i < j <=> f[i] < f[j]
           /\ \A j \in DOMAIN queue :
                queue[j].who # who => \E i \in DOMAIN Without(queue, who) : f[i] = j
<1> DEFINE rest == Without(queue, who)
<1>1. CASE \E i \in DOMAIN queue : queue[i].who = who
  <2> DEFINE k == CHOOSE i \in DOMAIN queue : queue[i].who = who
             f == [i \in DOMAIN rest |-> IF i < k THEN i ELSE i + 1]
  <2>1. k \in 1..Len(queue) /\ queue[k].who = who
    BY <1>1
  <2>2. rest = SubSeq(queue, 1, k - 1) \o SubSeq(queue, k + 1, Len(queue))
    BY <1>1 DEF Without, RemoveAt
  <2> HIDE DEF k
  <2>3. /\ DOMAIN rest = 1..(Len(queue) - 1)
        /\ \A i \in DOMAIN rest : rest[i] = queue[IF i < k THEN i ELSE i + 1]
    <3> DEFINE a == SubSeq(queue, 1, k - 1)
               b == SubSeq(queue, k + 1, Len(queue))
    <3>0. queue \in Seq(Request) /\ Len(queue) \in Nat /\ k \in 1..Len(queue)
      BY <2>1
    <3>1. a \in Seq(Request) /\ Len(a) = k - 1 /\ \A i \in 1..(k - 1) : a[i] = queue[i]
      BY <3>0
    <3>2. /\ b \in Seq(Request) /\ Len(b) = Len(queue) - k
          /\ \A i \in 1..(Len(queue) - k) : b[i] = queue[i + k]
      BY <3>0
    <3>3. rest = a \o b
      BY <2>2
    <3> HIDE DEF a, b, rest
    <3>4. Len(rest) = Len(queue) - 1 /\ rest \in Seq(Request)
      BY <3>0, <3>1, <3>2, <3>3
    <3>5. ASSUME NEW i \in 1..(Len(queue) - 1)
          PROVE  rest[i] = queue[IF i < k THEN i ELSE i + 1]
      <4>1. CASE i < k
        BY <3>0, <3>1, <3>2, <3>3, <4>1
      <4>2. CASE i >= k
        <5>1. rest[i] = b[i - (k - 1)]
          BY SMTT(30), <3>0, <3>1, <3>2, <3>3, <4>2
        <5>2. i - (k - 1) \in 1..(Len(queue) - k) /\ (i - (k - 1)) + k = i + 1
          BY <3>0, <4>2
        <5> QED BY <3>0, <3>2, <4>2, <5>1, <5>2
      <4> QED BY <3>0, <4>1, <4>2
    <3> QED BY <3>0, <3>4, <3>5
  <2> HIDE DEF rest
  <2>4. f \in [DOMAIN rest -> DOMAIN queue]
    BY <2>1, <2>3
  <2>5. \A i \in DOMAIN rest : rest[i] = queue[f[i]] /\ f[i] # k
    BY <2>1, <2>3
  <2>6. \A j \in DOMAIN queue : j # k => queue[j].who # who
    BY <2>1 DEF Single
  <2>7. \A i, j \in DOMAIN rest : i < j <=> f[i] < f[j]
    BY <2>1, <2>3
  <2>8. ASSUME NEW j \in DOMAIN queue, queue[j].who # who
        PROVE  \E i \in DOMAIN rest : f[i] = j
    <3>1. j # k
      BY <2>1, <2>8
    <3>2. CASE j < k
      <4>1. j \in DOMAIN rest /\ f[j] = j
        BY <2>1, <2>3, <3>2
      <4> QED BY <4>1
    <3>3. CASE j > k
      <4>1. j - 1 \in DOMAIN rest /\ f[j - 1] = j
        BY <2>1, <2>3, <3>3
      <4> QED BY <4>1
    <3> QED BY <2>1, <3>1, <3>2, <3>3
  <2>9. \A i \in DOMAIN rest : queue[f[i]].who # who
    BY <2>4, <2>5, <2>6
  <2> HIDE DEF f
  <2> QED BY <2>4, <2>5, <2>7, <2>8, <2>9 DEF rest
<1>2. CASE ~ \E i \in DOMAIN queue : queue[i].who = who
  <2>1. rest = queue
    BY <1>2 DEF Without
  <2> DEFINE f == [i \in DOMAIN queue |-> i]
  <2>2. f \in [DOMAIN queue -> DOMAIN queue] /\ \A i \in DOMAIN queue : f[i] = i
    OBVIOUS
  <2> HIDE DEF f
  <2> QED BY <1>2, <2>1, <2>2
<1> QED BY <1>1, <1>2

\* A step of the token leaves the queue, adds somebody who does not wait at its end, or
\* takes somebody out.
LEMMA QueueMoves ==
  ASSUME TypeOK, TokenSound, [Next]_floorVars
  PROVE  \/ requests' = requests
         \/ \E r \in Request :
              /\ r.who # holder /\ ~Waiting(r.who) /\ holder' = holder
              /\ requests' = Append(requests, r)
         \/ \E who \in People : requests' = Without(requests, who)
<1> USE FloorAssumption DEF TokenSound
<1>1. ASSUME NEW who \in People, GiveBack(who) PROVE requests' = requests
  <2>1. deferred = NoOne
    BY <1>1 DEF GiveBack, TypeOK, FloorState
  <2> QED BY <1>1, <2>1 DEF GiveBack, HandOver
<1>2. ASSUME NEW who \in People, Depart(who) PROVE requests' = Without(requests, who)
  <2>1. holder = who /\ state # "generating" => deferred = NoOne
    BY DEF TypeOK, FloorState
  <2> QED BY <1>2, <2>1 DEF Depart, HandOver
<1>3. ASSUME NEW who \in People, NEW priority \in Priorities, AskFloor(who, priority)
      PROVE  \E r \in Request : /\ r.who # holder /\ ~Waiting(r.who) /\ holder' = holder
                                /\ requests' = Append(requests, r)
  <2> DEFINE r == [who |-> who, priority |-> priority]
  <2>1. r \in Request /\ r.who = who
    BY DEF Request
  <2>2. r.who # holder /\ ~Waiting(r.who) /\ holder' = holder /\ requests' = Append(requests, r)
    BY <1>3, <2>1 DEF AskFloor
  <2> HIDE DEF r
  <2> QED BY <2>1, <2>2
<1>4. CASE EndTurn
  BY <1>4 DEF EndTurn, Install, TypeOK
<1>5. CASE Revoke
  BY <1>5 DEF Revoke
<1>6. ASSUME NEW who \in People,
             DropRequest(who) \/ GrantLater(who) \/ GrantNow(who) \/ Preempt(who) \/ BeginTurn(who)
      PROVE  requests' = requests \/ requests' = Without(requests, who)
  BY <1>6 DEF DropRequest, GrantLater, GrantNow, Preempt, BeginTurn, Install
<1>7. CASE UNCHANGED floorVars
  BY <1>7 DEF floorVars
<1> QED BY <1>1, <1>2, <1>3, <1>4, <1>5, <1>6, <1>7 DEF Next

\* Whoever takes the floor leaves the queue; otherwise the holder is the one there was,
\* or nobody.
LEMMA HolderMoves ==
  ASSUME TypeOK, TokenSound, [Next]_floorVars
  PROVE  \/ holder' \in {holder, NoOne}
         \/ holder' \in People /\ requests' = Without(requests, holder')
<1> USE FloorAssumption DEF TokenSound
<1>1. ASSUME NEW who \in People, GiveBack(who) \/ Depart(who) PROVE holder' \in {holder, NoOne}
  <2>1. holder = who /\ state # "generating" => deferred = NoOne
    BY DEF TypeOK, FloorState
  <2> QED BY <1>1, <2>1 DEF GiveBack, Depart, HandOver, Release
<1>2. ASSUME NEW who \in People, NEW priority \in Priorities, AskFloor(who, priority)
      PROVE  holder' = holder
  BY <1>2 DEF AskFloor
<1>3. CASE EndTurn
  BY <1>3 DEF EndTurn, Install, Release, TypeOK
<1>4. CASE Revoke
  BY <1>4 DEF Revoke, Release
<1>5. ASSUME NEW who \in People,
             DropRequest(who) \/ GrantLater(who) \/ GrantNow(who) \/ Preempt(who) \/ BeginTurn(who)
      PROVE  \/ holder' = holder
             \/ holder' \in People /\ requests' = Without(requests, holder')
  BY <1>5 DEF DropRequest, GrantLater, GrantNow, Preempt, BeginTurn, Install
<1>6. CASE UNCHANGED floorVars
  BY <1>6 DEF floorVars
<1> QED BY <1>1, <1>2, <1>3, <1>4, <1>5, <1>6 DEF Next

LEMMA QueueKept ==
  ASSUME TypeOK, TypeOK', TokenSound, QueueSound, [Next]_floorVars
  PROVE  QueueSound'
<1> USE FloorAssumption
<1>0. Single(requests) /\ requests \in Seq(Request)
  BY DEF QueueSound, Single, TypeOK
<1>1. ASSUME NEW who, requests' = Without(requests, who)
      PROVE  /\ Single(requests)' /\ \A i \in DOMAIN requests' : requests'[i].who # who
             /\ \A p : Waiting(p)' => Waiting(p)
  <2>1. PICK f \in [DOMAIN requests' -> DOMAIN requests] :
          /\ \A i \in DOMAIN requests' : requests'[i] = requests[f[i]] /\ requests[f[i]].who # who
          /\ \A i, j \in DOMAIN requests' : i < j <=> f[i] < f[j]
    BY <1>0, <1>1, WithoutElements
  <2>2. \A i, j \in DOMAIN requests' : f[i] = f[j] => i = j
    <3>1. requests \in Seq(Request) /\ requests' \in Seq(Request)
      BY DEF TypeOK
    <3>2. DOMAIN requests \subseteq Int /\ DOMAIN requests' \subseteq Int
      BY <3>1
    <3> QED BY <2>1, <3>2
  <2> QED BY <1>0, <2>1, <2>2 DEF Single, Waiting
<1>2. ASSUME NEW r \in Request, ~Waiting(r.who), requests' = Append(requests, r)
      PROVE  Single(requests)' /\ \A p : Waiting(p)' => Waiting(p) \/ p = r.who
  BY <1>0, <1>2 DEF Single, Waiting
<1>3. Single(requests)'
  BY <1>0, <1>1, <1>2, QueueMoves DEF Single
<1>4. ~Waiting(holder)'
  <2>1. CASE holder' = NoOne
    <3>1. \A i \in DOMAIN requests' : requests'[i] \in Request
      BY DEF TypeOK
    <3>2. \A r \in Request : r.who \in People
      BY DEF Request
    <3> QED BY <2>1, <3>1, <3>2 DEF Waiting, FloorAssumption
  <2>2. CASE holder' \in People /\ requests' = Without(requests, holder')
    BY <1>1, <2>2 DEF Waiting
  <2>3. CASE holder' = holder
    <3>1. ~Waiting(holder)
      BY DEF QueueSound
    <3>2. \A p : Waiting(p)' => Waiting(p) \/ p # holder
      BY <1>1, <1>2, QueueMoves DEF Waiting
    <3> QED BY <2>3, <3>1, <3>2 DEF Waiting
  <2> QED BY <2>1, <2>2, <2>3, HolderMoves
<1> QED BY <1>3, <1>4 DEF QueueSound, Single

LEMMA QueueIsSound == Spec => []QueueSound
<1>1. Init => QueueSound
  BY DEF Init, QueueSound, Waiting
<1>2. TypeOK /\ TypeOK' /\ TokenSound /\ QueueSound /\ [Next]_floorVars => QueueSound'
  BY QueueKept
<1> QED BY <1>1, <1>2, TypeCorrect, TokenIsSound, PTL DEF Spec

\* Nobody passes a person who asked before and still waits, without a higher priority
\* (core/floor.py:196-205, 71-84).
THEOREM NobodyIsOvertaken == Spec => NoOvertaking
<1>1. ASSUME TypeOK, TokenSound, QueueSound, [Next]_floorVars,
             NEW p \in People, NEW q \in People, Ahead(p, q), Waiting(p)', Waiting(q)'
      PROVE  Ahead(p, q)'
  <2>0. Single(requests) /\ requests \in Seq(Request)
    BY <1>1 DEF QueueSound, Single, TypeOK
  <2>1. PICK i, j \in DOMAIN requests :
          requests[i].who = p /\ requests[j].who = q /\ Outranks(i, j)
    BY <1>1 DEF Ahead
  <2>2. CASE requests' = requests
    BY <1>1, <2>2 DEF Ahead, Outranks
  <2>3. ASSUME NEW r \in Request, requests' = Append(requests, r) PROVE Ahead(p, q)'
    <3>1. i \in DOMAIN requests' /\ j \in DOMAIN requests'
          /\ requests'[i] = requests[i] /\ requests'[j] = requests[j]
      BY <2>0, <2>3
    <3> QED BY <2>1, <3>1 DEF Ahead, Outranks
  <2>4. ASSUME NEW who \in People, requests' = Without(requests, who) PROVE Ahead(p, q)'
    <3>1. PICK f \in [DOMAIN requests' -> DOMAIN requests] :
            /\ \A a \in DOMAIN requests' : requests'[a] = requests[f[a]] /\ requests[f[a]].who # who
            /\ \A a, b \in DOMAIN requests' : a < b <=> f[a] < f[b]
            /\ \A b \in DOMAIN requests :
                 requests[b].who # who => \E a \in DOMAIN requests' : f[a] = b
      BY <2>0, <2>4, WithoutElements
    <3>2. p # who /\ q # who
      BY <1>1, <3>1 DEF Waiting
    <3>3. PICK a \in DOMAIN requests' : f[a] = i
      BY <2>1, <3>1, <3>2
    <3>4. PICK b \in DOMAIN requests' : f[b] = j
      BY <2>1, <3>1, <3>2
    <3>5. requests'[a] = requests[i] /\ requests'[b] = requests[j] /\ (i < j => a < b)
      BY <3>1, <3>3, <3>4
    <3> QED BY <2>1, <3>5 DEF Ahead, Outranks
  <2> QED BY <1>1, <2>2, <2>3, <2>4, QueueMoves
<1>2. TypeOK /\ TokenSound /\ QueueSound /\ [Next]_floorVars
        => [\A p, q \in People :
              Ahead(p, q) /\ Waiting(p)' /\ Waiting(q)' => Ahead(p, q)']_floorVars
  BY <1>1
<1> QED BY <1>2, TypeCorrect, TokenIsSound, QueueIsSound, PTL DEF Spec, NoOvertaking

=============================================================================
