--------------------------------- MODULE Rights ---------------------------------
(***************************************************************************)
(* The vocabulary of a room's rights: the capabilities, the roles every     *)
(* room is created with, how the rights of a member follow from them        *)
(* (core/permissions.py, resolve), and the two rules every gift of a right  *)
(* has to respect (guard_delegation, guard_authority).                      *)
(*                                                                         *)
(* Only the capabilities that the administration of a room tests, and the   *)
(* one a turn needs, are told apart: the others (reading, chatting,         *)
(* proposing, stopping, deciding of tools and floor, settings) open no door *)
(* of these modules.  A role is its identifier; names are unique in a room. *)
(***************************************************************************)
EXTENDS Naturals

CONSTANTS Customs,  \* identifiers of the roles a room may create, each used once
          NoRole    \* the role of who is not a member

Capability == {"speak", "invite", "members", "roles", "delete"}

\* ROLE_TEMPLATES: the builtin roles and what they hold.
Builtins == {"owner", "moderator", "writer", "reader"}
Template == [r \in Builtins |->
  CASE r = "owner"     -> Capability
    [] r = "moderator" -> {"speak", "invite", "members"}
    [] r = "writer"    -> {"speak"}
    [] r = "reader"    -> {}]

Role == Builtins \cup Customs

ASSUME RightsAssumption == /\ Customs \cap Builtins = {}
                           /\ NoRole \notin Role

\* What a member has whose roles hold these capabilities together.
Adjusted(held, grants, revokes) == (held \cup grants) \ revokes

\* resolve: the rights that these roles give together, with the adjustments of the
\* person; an owner has everything, whatever was taken from them.
Resolve(content, roles, grants, revokes) ==
  IF "owner" \in roles
    THEN Capability
    ELSE Adjusted(UNION {content[r] : r \in roles}, grants, revokes)

\* guard_delegation: nobody confers a right they do not have.
MayConfer(mine, conferred) == conferred \subseteq mine

\* guard_authority: nobody touches somebody better endowed.
MayTouch(mine, theirs) == theirs \subseteq mine

=============================================================================
