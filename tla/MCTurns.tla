------------------------------- MODULE MCTurns -------------------------------
(***************************************************************************)
(* Instances of Turns for TLC.                                             *)
(***************************************************************************)
EXTENDS Turns

CONSTANTS alice, bob, nobody

MCPeople == {alice, bob}

\* No request for the floor is made in a composed behaviour.
NoPriority == {}

=============================================================================
