-------------------------------- MODULE MCAccess --------------------------------
(***************************************************************************)
(* Instances of Invites for TLC.                                           *)
(***************************************************************************)
EXTENDS Invites, TLC

CONSTANTS alice, bob, carol, nobody, c1, l1, none

MCPeople == {alice, bob, carol}
MCCustoms == {c1}
MCLinks == {l1}
MCExtras == {{}, {c1}}
MCAdjust == {{}, {"speak", "roles"}}
MCRoleChoices == {{"speak", "roles"}, {"members"}}
MCLabelled == {alice}

\* The two people who did not create the room are interchangeable.
Symmetry == Permutations({bob, carol})

=============================================================================
