------------------------------ MODULE MCHosting ------------------------------
(***************************************************************************)
(* Instances of Hosting for TLC.                                           *)
(***************************************************************************)
EXTENDS Hosting

CONSTANTS alice, bob

\* Both may be given the right to host.
MCOwners == {alice, bob}

\* The smallest room: nobody else can host it.
OneOwner == {alice}

=============================================================================
