------------------------------- MODULE MCFloor -------------------------------
(***************************************************************************)
(* Instances of Floor for TLC.                                             *)
(***************************************************************************)
EXTENDS Floor

CONSTANTS alice, bob, carol, nobody

MCPeople == {alice, bob, carol}
MCPriorities == {0, 1}

=============================================================================
