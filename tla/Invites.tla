-------------------------------- MODULE Invites --------------------------------
(***************************************************************************)
(* The ways into one room (server/api/invites.py, core/invites.py,          *)
(* server/auth/identity.py, server/api/rooms.py): invitations of a person   *)
(* by name, links with a quota, requests for access, and the room's code.   *)
(* Composed with Members: who invites is a member, who enters becomes one.  *)
(*                                                                         *)
(* Of the invitations of a person, and of the links, only those that can be *)
(* used are kept: revoked, expired or spent ones open nothing and only      *)
(* their history is read.  At most one invitation of a person is usable.    *)
(***************************************************************************)
EXTENDS Members

CONSTANTS Links,    \* identifiers of links, each used again once it is spent
          MaxUses   \* the largest quota of a link

ASSUME InvitesAssumption == MaxUses \in Nat \ {0}

VARIABLES
  account,   \* who has signed in once
  invited,   \* the role each person's usable invitation gives, or NoRole
  linked,    \* the role each usable link gives, or NoRole
  left,      \* the uses it has left
  asking,    \* whose request for access is pending
  code,      \* the room has a code
  archived

doorVars == <<account, invited, linked, left, asking, code, archived>>
accessVars == <<membersVars, doorVars>>

AccessTypeOK ==
  /\ MembersTypeOK
  /\ account \subseteq People
  /\ invited \in [People -> Role \cup {NoRole}]
  /\ linked \in [Links -> Role \cup {NoRole}]
  /\ left \in [Links -> 0..MaxUses]
  /\ asking \subseteq People
  /\ code \in BOOLEAN /\ archived \in BOOLEAN

AccessInit ==
  /\ MembersInit
  /\ account \in {s \in SUBSET People : \A p \in People : Member(p) => p \in s}
  /\ invited = [p \in People |-> NoRole]
  /\ linked = [l \in Links |-> NoRole] /\ left = [l \in Links |-> 0]
  /\ asking = {} /\ code = TRUE /\ archived = FALSE

-----------------------------------------------------------------------------
(* What every way in does. *)

\* _delegable: the role exists, and who gives it has all it confers.
Delegable(a, r) == r \in live /\ MayConfer(Rights(a), content[r])

\* What is offered: an owner who offers less than ownership gives it.
Offers(a, r) == IF r = "owner" THEN UNCHANGED below ELSE Gives(a, content[r])

\* A door changes nothing for who is a member already, and asks nothing else.
EnterOnce(p, r, door) == IF Member(p) THEN UNCHANGED memberVars ELSE Enter(p, r, door)

\* What an act of this module leaves alone in Members, but the entry and the gift.
Apart == UNCHANGED <<roleVars, turnVars, ban, cuts>>

-----------------------------------------------------------------------------
(* Invitations by name. *)

\* create_invite: claimed on the spot (_claim_now) if the person has an account.
Invite(a, p, r) ==
  /\ Acts(a, "invite")
  /\ ~archived /\ Delegable(a, r)
  /\ invited[p] = NoRole
  /\ Offers(a, r)
  /\ IF p \in account
       THEN EnterOnce(p, r, "invitation") /\ UNCHANGED invited
       ELSE invited' = [invited EXCEPT ![p] = r] /\ UNCHANGED memberVars
  /\ Apart
  /\ UNCHANGED <<account, linked, left, asking, code, archived>>

\* upsert_user, claim_invitations: signing in claims what was sent to the name.
SignIn(p) ==
  /\ Call /\ account' = account \cup {p}
  /\ IF invited[p] # NoRole THEN EnterOnce(p, invited[p], "invitation")
                            ELSE UNCHANGED memberVars
  /\ invited' = [invited EXCEPT ![p] = NoRole]
  /\ Apart
  /\ UNCHANGED <<linked, left, asking, code, archived, below>>

\* revoke_invite, of one that was not accepted.
RevokeInvite(a, p) ==
  /\ Acts(a, "invite")
  /\ invited[p] # NoRole
  /\ invited' = [invited EXCEPT ![p] = NoRole]
  /\ UNCHANGED <<roleVars, memberVars, turnVars, ban, cuts, below,
                 account, linked, left, asking, code, archived>>

\* The end of an invitation passes.
InviteExpires(p) ==
  /\ invited[p] # NoRole
  /\ invited' = [invited EXCEPT ![p] = NoRole]
  /\ UNCHANGED <<membersVars, account, linked, left, asking, code, archived>>

-----------------------------------------------------------------------------
(* Links. *)

\* create_link.
CreateLink(a, l, r, n) ==
  /\ Acts(a, "invite")
  /\ ~archived /\ Delegable(a, r)
  /\ linked[l] = NoRole
  /\ linked' = [linked EXCEPT ![l] = r] /\ left' = [left EXCEPT ![l] = n]
  /\ Offers(a, r)
  /\ UNCHANGED <<roleVars, memberVars, turnVars, ban, cuts,
                 account, invited, asking, code, archived>>

\* redeem: uses the link, unless who redeems it is a member.
Redeem(p, l) ==
  /\ Call /\ p \in account /\ ~Member(p)
  /\ linked[l] # NoRole /\ ~archived
  /\ left' = [left EXCEPT ![l] = @ - 1]
  /\ linked' = IF left[l] = 1 THEN [linked EXCEPT ![l] = NoRole] ELSE linked
  /\ Enter(p, linked[l], "link")
  /\ Apart
  /\ UNCHANGED <<below, account, invited, asking, code, archived>>

\* The link is revoked, or its end passes.
CloseLink(l) ==
  /\ linked[l] # NoRole
  /\ linked' = [linked EXCEPT ![l] = NoRole] /\ left' = [left EXCEPT ![l] = 0]
  /\ UNCHANGED <<roleVars, memberVars, turnVars, ban, cuts, below,
                 account, invited, asking, code, archived>>

\* revoke_link.
RevokeLink(a, l) == Acts(a, "invite") /\ CloseLink(l)

LinkExpires(l) == CloseLink(l) /\ UNCHANGED calls

-----------------------------------------------------------------------------
(* Requests for access. *)

\* ask: a pending request is used again.
Ask(p) ==
  /\ Call /\ p \in account /\ ~Member(p) /\ ~archived
  /\ asking' = asking \cup {p}
  /\ UNCHANGED <<roleVars, memberVars, turnVars, ban, cuts, below,
                 account, invited, linked, left, code, archived>>

\* approve_request, which does not ask whether the room is archived.
Approve(a, p, r) ==
  /\ Acts(a, "invite")
  /\ p \in asking /\ Delegable(a, r)
  /\ asking' = asking \ {p}
  /\ EnterOnce(p, r, "request")
  /\ Offers(a, r)
  /\ Apart
  /\ UNCHANGED <<account, invited, linked, left, code, archived>>

\* reject_request.
Reject(a, p) ==
  /\ Acts(a, "invite")
  /\ p \in asking
  /\ asking' = asking \ {p}
  /\ UNCHANGED <<roleVars, memberVars, turnVars, ban, cuts, below,
                 account, invited, linked, left, code, archived>>

-----------------------------------------------------------------------------
(* The code, the end of the room. *)

\* ban_actif, which add_member alone asks.
Banned(p) == ban[p] = "active"

\* join_by_code, add_member: whoever has the code and is not excluded.
JoinByCode(p) ==
  /\ Call /\ p \in account /\ ~Member(p)
  /\ code /\ ~archived /\ ~Banned(p)
  /\ Enter(p, "writer", "code")
  /\ Apart
  /\ UNCHANGED <<below, doorVars>>

\* rotate_code and drop_code, of an archived room too.
SetCode(a, on) ==
  /\ Acts(a, "invite")
  /\ code' = on
  /\ UNCHANGED <<roleVars, memberVars, turnVars, ban, cuts, below,
                 account, invited, linked, left, asking, archived>>

\* archive: the code is dropped, the turn cut, the room forgotten; its members,
\* its invitations and its requests stay.
Archive(a) ==
  /\ Acts(a, "delete")
  /\ ~archived
  /\ archived' = TRUE /\ code' = FALSE
  /\ author' = NoOne /\ spared' = FALSE
  /\ UNCHANGED <<roleVars, memberVars, admitted, ban, cuts, below,
                 account, invited, linked, left, asking>>

\* Faulty variant: a role that a usable link gives may be deleted.
UnofferedByName(c) == \A p \in People : invited[p] # c

\* No usable invitation or link gives this role.
Unoffered(c) == /\ \A p \in People : invited[p] # c
                /\ \A l \in Links : linked[l] # c

\* delete_role.
DeleteRole(a, c) ==
  /\ Acts(a, "roles")
  /\ Unoffered(c) /\ DropRole(c)
  /\ UNCHANGED doorVars

-----------------------------------------------------------------------------

ByManagers(a) ==
  \/ \E p \in People :
       \/ \E r \in live, g \in AdjustChoices \cup {grants[p]}, v \in AdjustChoices \cup {revokes[p]} :
            \E e \in Additional(p, r) : UpdateMember(a, p, r, e, g, v)
       \/ RemoveMember(a, p)
       \/ p \in account /\ Ban(a, p)
       \/ Lift(a, p)

ByRoleManagers(a) ==
  \E c \in Customs : \E caps \in RoleChoices : CreateRole(a, c, caps) \/ UpdateRole(a, c, caps)

ByHosts(a) ==
  \/ \E p \in People : \/ \E r \in live : Invite(a, p, r) \/ Approve(a, p, r)
                       \/ RevokeInvite(a, p) \/ Reject(a, p)
  \/ \E l \in Links : \/ RevokeLink(a, l)
                      \/ \E r \in live, n \in 1..MaxUses : CreateLink(a, l, r, n)
  \/ \E on \in BOOLEAN : SetCode(a, on)

ByAnybody(p) ==
  \/ SignIn(p) \/ Ask(p) \/ JoinByCode(p)
  \/ \E l \in Links : Redeem(p, l)

ByTime ==
  \/ \E p \in People : InviteExpires(p)
  \/ \E l \in Links : LinkExpires(l)

ByTheRoom ==
  \/ StartTurn \/ EndTurn
  \/ \E p \in People : Lapse(p) \/ Admit(p) \/ ApplyLive(p, ~archived)

AccessNext ==
  \/ /\ \/ \E a \in With("members") : ByManagers(a)
        \/ \E a \in With("roles") : ByRoleManagers(a)
     /\ UNCHANGED doorVars
  \/ \E a \in With("invite") : ByHosts(a)
  \/ \E a \in With("roles"), c \in Customs : DeleteRole(a, c)
  \/ \E a \in With("delete") : Archive(a)
  \/ \E p \in People : ByAnybody(p)
  \/ ByTime
  \/ ByTheRoom /\ UNCHANGED doorVars

AccessSpec == AccessInit /\ [][AccessNext]_accessVars

-----------------------------------------------------------------------------
(* Properties. *)

\* A room has an owner at any time, whoever demotes, expels, excludes, leaves, or
\* uses a door while a member: the refusals of members.py and bans.py that speak of
\* the last owner, and the doors that leave a member alone (identity.py:148-150).
RoomKeepsAnOwner == \E p \in People : role[p] = "owner"

\* Whatever non-owners do to each other, in any number, with roles, invitations,
\* links and requests, nobody below an owner has a capability that no owner gave
\* below themselves: the accomplice of core/permissions.py:101-108 gains nothing.
\* What a role manager writes into a role counts as given: nothing guards it.
NoAccomplice == \A p \in People : role[p] # "owner" => Rights(p) \subseteq below

\* What the code promises of an exclusion: it closes every door by which one becomes a
\* member (server/api/bans.py:12-14, server/auth/identity.py:244-247, server/app.py:306-309).
ExclusionClosesEveryDoor == \A p \in People : ban[p] = "active" => ~ Member(p)

\* What is left of it: a person under exclusion who is a member came back by one of the
\* doors that create the membership themselves and do not ask (invites.py:430-456,
\* 360-387, 583-607, identity.py:115-160); never by the code, nor by having stayed.
BannedNeedsAnOffer ==
  \A p \in People : ban[p] = "active" /\ Member(p)
                      => came[p] \in {"invitation", "link", "request"}

\* A role somebody has as primary role, or that a usable offer gives, exists: no
\* entry fails on a dead reference (roles.py:132-134).
RolesInUseExist ==
  /\ \A p \in People : role[p] \in live \cup {NoRole} /\ invited[p] \in live \cup {NoRole}
  /\ \A l \in Links : linked[l] \in live \cup {NoRole}

\* The turn of somebody who may not speak any more is about to be cut, unless they
\* have a label of their own, the room is archived, a role was changed under them,
\* or the turn had not reached the agent (members.py:228-231).
RevokedIsCut ==
  author # NoOne /\ ~Speaks(author)
    => cuts[author] > 0 \/ author \in Labelled \/ archived \/ spared

=============================================================================
