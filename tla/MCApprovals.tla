----------------------------- MODULE MCApprovals -----------------------------
(***************************************************************************)
(* Instances of Approvals for TLC.                                         *)
(***************************************************************************)
EXTENDS Approvals

CONSTANTS alice, bob

MCPeople == {alice, bob}

=============================================================================
