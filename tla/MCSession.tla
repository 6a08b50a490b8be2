------------------------------- MODULE MCSession -------------------------------
(***************************************************************************)
(* Instances of Session for TLC.                                           *)
(***************************************************************************)
EXTENDS Session

CONSTANTS unset, chosen, keep

MCValues == {unset, chosen}

=============================================================================
