-------------------------------- MODULE Floor --------------------------------
(***************************************************************************)
(* The speaking token of a room: core/floor.py, class Floor.               *)
(*                                                                         *)
(* A pure state machine: each method of the class is one action.  A method *)
(* that refuses (Outcome(accepted=False)) changes nothing, so a refused    *)
(* call is a disabled action.  Every method runs to its end on the event   *)
(* loop without awaiting, which makes one action per call exact.           *)
(***************************************************************************)
EXTENDS Integers, Sequences, SequencesExt

CONSTANTS People,      \* the names the room knows its participants by
          Priorities,  \* the priorities a membership may carry
          NoOne        \* Python's None where a name is expected

ASSUME FloorAssumption == /\ NoOne \notin People
                          /\ Priorities \subseteq Int

VARIABLES
  state,            \* _state: "open", "held" or "generating"
  holder,           \* _holder
  deferred,         \* _deferred: takes the floor when the running turn ends
  revokeAfterTurn,  \* _revoke_after_turn
  requests          \* _requests, in order of arrival

floorVars == <<state, holder, deferred, revokeAfterTurn, requests>>

FloorState == {"open", "held", "generating"}
Request == [who : People, priority : Priorities]

TypeOK == /\ state \in FloorState
          /\ holder \in People \cup {NoOne}
          /\ deferred \in People \cup {NoOne}
          /\ revokeAfterTurn \in BOOLEAN
          /\ requests \in Seq(Request)

-----------------------------------------------------------------------------
Waiting(who) == \E i \in DOMAIN requests : requests[i].who = who

CanSend(who) == holder = who /\ state = "held"

\* The i-th request to arrive is shown above the j-th: a higher priority
\* first, and among equals the first to arrive (Request.__lt__, sorted()).
Outranks(i, j) == \/ requests[i].priority > requests[j].priority
                  \/ requests[i].priority = requests[j].priority /\ i < j

Ahead(p, q) == \E i, j \in DOMAIN requests :
                  /\ requests[i].who = p
                  /\ requests[j].who = q
                  /\ Outranks(i, j)

\* _drop: the code filters the whole list; nobody is in it twice (QueueSound).
Without(queue, who) ==
  IF \E i \in DOMAIN queue : queue[i].who = who
    THEN RemoveAt(queue, CHOOSE i \in DOMAIN queue : queue[i].who = who)
    ELSE queue

\* _install, from the list of requests left by what the method did before.
Install(who, queue) == /\ revokeAfterTurn' = FALSE
                       /\ requests' = Without(queue, who)
                       /\ holder' = who
                       /\ state' = "held"

\* _release
Release == /\ holder' = NoOne
           /\ state' = "open"

\* _hand_over: a deferred grant takes effect, or nobody has the floor.
HandOver(heir, queue) ==
  /\ deferred' = NoOne
  /\ IF heir # NoOne
       THEN Install(heir, queue)
       ELSE /\ Release
            /\ requests' = queue
            /\ UNCHANGED revokeAfterTurn

-----------------------------------------------------------------------------
Init == /\ state = "open"
        /\ holder = NoOne
        /\ deferred = NoOne
        /\ revokeAfterTurn = FALSE
        /\ requests = <<>>

\* Faulty variant: asking again puts the request at the end.
AskFloorAgain(who, priority) ==
  /\ holder # who
  /\ requests' = Append(Without(requests, who),
                        [who |-> who, priority |-> priority])
  /\ UNCHANGED <<state, holder, deferred, revokeAfterTurn>>

\* request: never grants; asking again keeps one's rank.
AskFloor(who, priority) ==
  /\ holder # who
  /\ ~ Waiting(who)
  /\ requests' = Append(requests, [who |-> who, priority |-> priority])
  /\ UNCHANGED <<state, holder, deferred, revokeAfterTurn>>

\* withdraw, by the person; deny, by who decides: the request disappears.
DropRequest(who) ==
  /\ Waiting(who)
  /\ requests' = Without(requests, who)
  /\ UNCHANGED <<state, holder, deferred, revokeAfterTurn>>

\* The floor is not already, and definitely, this person's.
Grantable(who) == holder # who \/ deferred # NoOne

\* Faulty variant: the pending withdrawal is not cancelled.
GrantLaterKeepsFlag(who) ==
  /\ Grantable(who)
  /\ state = "generating"
  /\ requests' = Without(requests, who)
  /\ deferred' = who
  /\ UNCHANGED <<state, holder, revokeAfterTurn>>

\* grant during a turn takes effect when the turn ends, and cancels a
\* withdrawal that was to take effect then.
GrantLater(who) ==
  /\ Grantable(who)
  /\ state = "generating"
  /\ requests' = Without(requests, who)
  /\ revokeAfterTurn' = FALSE
  /\ deferred' = who
  /\ UNCHANGED <<state, holder>>

\* grant outside a turn.
GrantNow(who) ==
  /\ Grantable(who)
  /\ state # "generating"
  /\ deferred' = NoOne
  /\ Install(who, requests)

\* grant(immediate=True) during a turn: the caller has to cut the turn.
Preempt(who) ==
  /\ Grantable(who)
  /\ state = "generating"
  /\ deferred' = NoOne
  /\ Install(who, requests)

\* revoke: a running turn goes to its end.
Revoke ==
  /\ holder # NoOne \/ deferred # NoOne
  /\ deferred' = NoOne
  /\ UNCHANGED requests
  /\ \/ /\ state = "generating"
        /\ revokeAfterTurn' = TRUE
        /\ UNCHANGED <<state, holder>>
     \/ /\ state # "generating"
        /\ Release
        /\ UNCHANGED revokeAfterTurn

\* release, by the holder, refused during a turn.
GiveBack(who) ==
  /\ holder = who
  /\ state # "generating"
  /\ HandOver(deferred, requests)

\* begin_turn
BeginTurn(who) ==
  /\ CanSend(who)
  /\ state' = "generating"
  /\ UNCHANGED <<holder, deferred, revokeAfterTurn, requests>>

\* Faulty variant: the withdrawal flag survives the turn.
EndTurnKeepsFlag ==
  /\ state = "generating"
  /\ IF revokeAfterTurn
       THEN Release /\ UNCHANGED <<deferred, revokeAfterTurn, requests>>
       ELSE HandOver(IF deferred = NoOne THEN holder ELSE deferred, requests)

\* Faulty variant: the deferred grant is consumed without being installed.
EndTurnForgetsGrant ==
  /\ state = "generating"
  /\ deferred' = NoOne
  /\ revokeAfterTurn' = FALSE
  /\ UNCHANGED requests
  /\ IF revokeAfterTurn \/ deferred # NoOne
       THEN Release
       ELSE state' = "held" /\ UNCHANGED holder

\* end_turn: a pending withdrawal first, then a deferred grant, else the
\* holder keeps the floor.
EndTurn ==
  /\ state = "generating"
  /\ \/ /\ revokeAfterTurn
        /\ revokeAfterTurn' = FALSE
        /\ Release
        /\ UNCHANGED <<deferred, requests>>
     \/ /\ ~ revokeAfterTurn
        /\ deferred = NoOne
        /\ state' = "held"
        /\ UNCHANGED <<holder, deferred, revokeAfterTurn, requests>>
     \/ /\ ~ revokeAfterTurn
        /\ deferred # NoOne
        /\ deferred' = NoOne
        /\ Install(deferred, requests)

\* depart: the person's request goes, and the promise made to them; a running
\* turn survives the departure of its author, who does not get the floor back.
Depart(who) ==
  LET queue == Without(requests, who)
      heir  == IF deferred = who THEN NoOne ELSE deferred
  IN  \/ /\ holder # who
         /\ requests' = queue
         /\ deferred' = heir
         /\ UNCHANGED <<state, holder, revokeAfterTurn>>
      \/ /\ holder = who
         /\ state = "generating"
         /\ requests' = queue
         /\ deferred' = heir
         /\ revokeAfterTurn' = TRUE
         /\ UNCHANGED <<state, holder>>
      \/ /\ holder = who
         /\ state # "generating"
         /\ HandOver(heir, queue)

Next ==
  \/ EndTurn
  \/ Revoke
  \/ \E who \in People :
       \/ \E priority \in Priorities : AskFloor(who, priority)
       \/ DropRequest(who)
       \/ GrantLater(who)
       \/ GrantNow(who)
       \/ Preempt(who)
       \/ GiveBack(who)
       \/ BeginTurn(who)
       \/ Depart(who)

Spec == Init /\ [][Next]_floorVars

-----------------------------------------------------------------------------
\* Who has the floor once the running turn is over.
Heir == IF state # "generating" THEN holder
        ELSE IF revokeAfterTurn THEN NoOne
        ELSE IF deferred # NoOne THEN deferred
        ELSE holder

Right == INSTANCE SpeakingRight WITH speaker <- holder,
                                     running <- (state = "generating"),
                                     heir <- Heir

\* The token keeps the promises of SpeakingRight: nobody loses the floor in the
\* middle of a turn that is not cut, and the end of the turn hands the floor to
\* the person the last decision of the turn named (core/floor.py:21-35).
KeepsSpeakingRight == Right!Spec

(* Properties. *)

\* Who decides sees each person once, and never the person who already speaks.
QueueSound ==
  /\ \A i, j \in DOMAIN requests : requests[i].who = requests[j].who => i = j
  /\ ~ Waiting(holder)

\* The token never dangles: it is open exactly when nobody holds it; a person
\* promised the floor is never left behind while somebody writes at leisure
\* (core/floor.py:297-299, the wait promised to the person ends with the turn);
\* a withdrawal waits only for a running turn, so it cannot hit a later holder.
TokenSound ==
  /\ state = "open" <=> holder = NoOne
  /\ state = "held" => deferred = NoOne
  /\ revokeAfterTurn => state = "generating"

\* The queue is sound at any time (QueueSound), and no sequence of withdrawals,
\* denials, departures and repeated requests lets one person pass another who asked
\* before them and is still waiting, unless the newcomer has a higher priority
\* (core/floor.py:196-205, 71-84).
NoOvertaking ==
  /\ []QueueSound
  /\ [][\A p, q \in People :
         Ahead(p, q) /\ Waiting(p)' /\ Waiting(q)' => Ahead(p, q)']_floorVars

\* During a turn the last decision binds its end, whatever was decided before:
\* a grant cancels a withdrawal, a withdrawal cancels a grant, and a person who
\* has left is not given the floor (core/floor.py:226-234, 263-267, 322-334).
DecisionsBind ==
  [][/\ \A who \in People : GrantLater(who) => Heir' = who
     /\ Revoke => Heir' = NoOne
     /\ \A who \in People : Depart(who) => Heir' # who]_floorVars

=============================================================================
