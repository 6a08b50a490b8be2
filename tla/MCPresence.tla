------------------------------ MODULE MCPresence ------------------------------
(***************************************************************************)
(* Instances of Presence for TLC.                                          *)
(***************************************************************************)
EXTENDS Presence

CONSTANTS alice, bob, nobody

MCPeople == {alice, bob}
MCPriorities == {0}
MCDeciders == {alice}

=============================================================================
