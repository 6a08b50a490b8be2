------------------------------- MODULE MCManaged -------------------------------
(***************************************************************************)
(* Instances of Managed for TLC.                                           *)
(***************************************************************************)
EXTENDS Managed

CONSTANTS k1, k2, k3

MCCalls == {k1, k2, k3}

=============================================================================
