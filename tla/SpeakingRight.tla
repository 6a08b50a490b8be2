---------------------------- MODULE SpeakingRight ----------------------------
(***************************************************************************)
(* What the token promises, without requests or flags (core/floor.py:12-35).*)
(*                                                                         *)
(* At any time one person at most has the floor, and it is known who will  *)
(* have it when the running turn ends: the heir.  Decisions taken during a *)
(* turn change the heir only; the turn goes to its end with its speaker,   *)
(* unless it is cut, and its end hands the floor to the heir of that       *)
(* moment and to nobody else.  The floor is never taken: it is given.      *)
(***************************************************************************)
CONSTANTS People, NoOne

VARIABLES speaker,  \* who has the floor
          running,  \* a turn of the speaker runs
          heir      \* who has the floor once the turn is over

rightVars == <<speaker, running, heir>>

Init == speaker = NoOne /\ running = FALSE /\ heir = NoOne

\* Outside a turn: the floor is given to somebody, or taken back.
Assign == /\ ~ running
          /\ speaker' \in People \cup {NoOne}
          /\ heir' = speaker'
          /\ UNCHANGED running

Begin == /\ ~ running
         /\ speaker # NoOne
         /\ running' = TRUE
         /\ heir' = speaker
         /\ UNCHANGED speaker

\* During a turn: who will have the floor afterwards is decided.
Decide == /\ running
          /\ heir' \in People \cup {NoOne}
          /\ UNCHANGED <<speaker, running>>

End == /\ running
       /\ running' = FALSE
       /\ speaker' = heir
       /\ UNCHANGED heir

\* The turn is cut, for the floor to go to somebody at once.
Cut == /\ running
       /\ running' = FALSE
       /\ speaker' \in People
       /\ heir' = speaker'

Next == Assign \/ Begin \/ Decide \/ End \/ Cut

Spec == Init /\ [][Next]_rightVars

=============================================================================
