------------------------------ MODULE AccessProofs ------------------------------
(***************************************************************************)
(* Theorems about Invites, for any people, roles, links and number of calls: *)
(* types, the owner that a room keeps, the roles in use, the exclusions, the *)
(* rights that delegation can spread, and the turn of who may not speak.     *)
(***************************************************************************)
EXTENDS Invites, TLAPS

-----------------------------------------------------------------------------
(* Types. *)

LEMMA TemplateType == Template \in [Builtins -> SUBSET Capability]
BY DEF Template, Builtins, Capability

LEMMA RightsType ==
  ASSUME MembersTypeOK, NEW p \in People
  PROVE  Rights(p) \subseteq Capability
<1>1. \A r \in ({role[p]} \cup extras[p]) \cap live : content[r] \subseteq Capability
  BY DEF MembersTypeOK
<1>2. grants[p] \subseteq Capability BY DEF MembersTypeOK
<1> QED BY <1>1, <1>2 DEF Rights, Resolve, Adjusted

LEMMA GivesType ==
  ASSUME MembersTypeOK, NEW a, NEW caps \in SUBSET Capability, Gives(a, caps)
  PROVE  below' \subseteq Capability
BY DEF Gives, MembersTypeOK

LEMMA OffersType ==
  ASSUME MembersTypeOK, NEW a, NEW r \in Role, Offers(a, r)
  PROVE  below' \subseteq Capability
<1>1. content[r] \in SUBSET Capability BY DEF MembersTypeOK
<1> QED BY <1>1, GivesType DEF Offers, MembersTypeOK

\* The memberships that an entry leaves.
MemberTypeOK ==
  /\ role \in [People -> Role \cup {NoRole}]
  /\ extras \in [People -> SUBSET Role]
  /\ grants \in [People -> SUBSET Capability]
  /\ revokes \in [People -> SUBSET Capability]
  /\ came \in [People -> {"none", "created", "code", "invitation", "link", "request"}]

LEMMA EnterTypes ==
  ASSUME MembersTypeOK, NEW p \in People, NEW r \in Role,
         NEW door \in {"none", "created", "code", "invitation", "link", "request"},
         Enter(p, r, door) \/ EnterOnce(p, r, door)
  PROVE  MemberTypeOK'
BY DEF Enter, EnterOnce, MembersTypeOK, MemberTypeOK, memberVars

LEMMA LeaveTypes ==
  ASSUME MembersTypeOK, NEW p \in People, Leave(p)
  PROVE  MemberTypeOK'
BY DEF Leave, MembersTypeOK, MemberTypeOK

LEMMA AccessInitTypes == AccessInit => AccessTypeOK
<1> SUFFICES ASSUME AccessInit PROVE AccessTypeOK OBVIOUS
<1> USE RightsAssumption, MembersAssumption, InvitesAssumption
<1>1. content \in [Role -> SUBSET Capability]
  BY TemplateType DEF AccessInit, MembersInit, Role
<1>2. below \subseteq Capability
  BY TemplateType DEF AccessInit, MembersInit, Builtins
<1>3. /\ role \in [People -> Role \cup {NoRole}]
      /\ came \in [People -> {"none", "created", "code", "invitation", "link", "request"}]
  BY DEF AccessInit, MembersInit, Role, Builtins
<1>4. calls \in 0..MaxCalls /\ cuts \in [People -> Nat] BY DEF AccessInit, MembersInit
<1>5. MembersTypeOK
  BY <1>1, <1>2, <1>3, <1>4 DEF AccessInit, MembersInit, MembersTypeOK, Role
<1>6. invited \in [People -> Role \cup {NoRole}] /\ linked \in [Links -> Role \cup {NoRole}]
  BY DEF AccessInit
<1>7. left \in [Links -> 0..MaxUses] BY DEF AccessInit
<1> QED BY <1>5, <1>6, <1>7 DEF AccessInit, AccessTypeOK

LEMMA ByManagersTypes ==
  ASSUME AccessTypeOK, NEW a \in People, ByManagers(a)
  PROVE  MembersTypeOK'
<1> USE RightsAssumption, MembersAssumption
<1>1. MembersTypeOK /\ calls' \in 0..MaxCalls
  BY DEF AccessTypeOK, MembersTypeOK, ByManagers, UpdateMember, RemoveMember, Ban, Lift, Acts, Call
<1>2. ASSUME NEW p \in People, NEW r \in live, NEW g \in AdjustChoices \cup {grants[p]},
             NEW v \in AdjustChoices \cup {revokes[p]}, NEW e \in Additional(p, r),
             UpdateMember(a, p, r, e, g, v)
      PROVE  MembersTypeOK'
  <2>1. /\ r \in Role /\ e \in SUBSET Role
        /\ g \in SUBSET Capability /\ v \in SUBSET Capability
    BY <1>1 DEF Additional, MembersTypeOK
  <2>2. MemberTypeOK'
    BY <1>1, <1>2, <2>1 DEF UpdateMember, MembersTypeOK, MemberTypeOK
  <2>3. live' = live /\ content' = content /\ used' = used
    BY <1>2 DEF UpdateMember, roleVars
  <2>4. Rights(p)' \subseteq Capability
    <3>1. \A x \in ({role'[p]} \cup extras'[p]) \cap live' : content'[x] \subseteq Capability
      BY <1>1, <2>3 DEF MembersTypeOK
    <3>2. grants'[p] \subseteq Capability BY <2>2 DEF MemberTypeOK
    <3> QED BY <3>1, <3>2 DEF Rights, Resolve, Adjusted
  <2>5. below' \subseteq Capability
    BY <1>1, <1>2, <2>4, GivesType DEF UpdateMember, MembersTypeOK
  <2>6. cuts' \in [People -> Nat] BY <1>1, <1>2 DEF UpdateMember, MembersTypeOK
  <2> QED BY <1>1, <1>2, <2>2, <2>3, <2>5, <2>6
          DEF UpdateMember, MembersTypeOK, MemberTypeOK, turnVars
<1>3. ASSUME NEW p \in People, RemoveMember(a, p) PROVE MembersTypeOK'
  BY <1>1, <1>3, LeaveTypes DEF RemoveMember, MembersTypeOK, MemberTypeOK, roleVars, turnVars
<1>4. ASSUME NEW p \in People, Ban(a, p) PROVE MembersTypeOK'
  <2>1. MemberTypeOK'
    BY <1>1, <1>4, LeaveTypes DEF Ban, Expel, MembersTypeOK, MemberTypeOK, memberVars
  <2>2. ban' \in [People -> {"none", "active", "lapsed"}] BY <1>1, <1>4 DEF Ban, MembersTypeOK
  <2>3. cuts' \in [People -> Nat] BY <1>1, <1>4 DEF Ban, MembersTypeOK
  <2>4. UNCHANGED <<live, used, content, admitted, author, spared, below>>
    BY <1>4 DEF Ban, roleVars, turnVars
  <2> QED BY <1>1, <2>1, <2>2, <2>3, <2>4 DEF MembersTypeOK, MemberTypeOK
<1>5. ASSUME NEW p \in People, Lift(a, p) PROVE MembersTypeOK'
  BY <1>1, <1>5 DEF Lift, MembersTypeOK, roleVars, turnVars, memberVars
<1> QED BY <1>2, <1>3, <1>4, <1>5 DEF ByManagers

LEMMA ByRoleManagersTypes ==
  ASSUME MembersTypeOK, NEW a \in People,
         ByRoleManagers(a) \/ \E c \in Customs : Acts(a, "roles") /\ DropRole(c)
  PROVE  MembersTypeOK'
<1> USE RightsAssumption, MembersAssumption
<1>1. calls' \in 0..MaxCalls
  BY DEF MembersTypeOK, ByRoleManagers, CreateRole, UpdateRole, Acts, Call
<1>2. UNCHANGED <<memberVars, admitted, author, ban, cuts>>
  BY DEF ByRoleManagers, CreateRole, UpdateRole, DropRole, turnVars
<1>3. spared' \in BOOLEAN
  <2>1. LosesSpeech \in BOOLEAN BY DEF LosesSpeech
  <2> QED BY <2>1 DEF ByRoleManagers, CreateRole, UpdateRole, DropRole, turnVars, MembersTypeOK
<1>4. /\ Builtins \subseteq live' /\ live' \subseteq Role /\ used' \subseteq Customs
      /\ content' \in [Role -> SUBSET Capability] /\ below' \subseteq Capability
  BY DEF ByRoleManagers, CreateRole, UpdateRole, DropRole, MembersTypeOK, Role
<1> QED BY <1>1, <1>2, <1>3, <1>4 DEF memberVars, MembersTypeOK

LEMMA DoorTypes ==
  ASSUME AccessTypeOK, NEW r \in Role, NEW p \in People, NEW l \in Links, NEW n \in 1..MaxUses
  PROVE  /\ [invited EXCEPT ![p] = r] \in [People -> Role \cup {NoRole}]
         /\ [invited EXCEPT ![p] = NoRole] \in [People -> Role \cup {NoRole}]
         /\ [linked EXCEPT ![l] = r] \in [Links -> Role \cup {NoRole}]
         /\ [linked EXCEPT ![l] = NoRole] \in [Links -> Role \cup {NoRole}]
         /\ [left EXCEPT ![l] = n] \in [Links -> 0..MaxUses]
         /\ [left EXCEPT ![l] = 0] \in [Links -> 0..MaxUses]
BY InvitesAssumption DEF AccessTypeOK

\* What the doors leave alone in Members, or may write.
LEMMA ApartTypes ==
  ASSUME MembersTypeOK, UNCHANGED <<roleVars, turnVars, ban, cuts>>, MemberTypeOK',
         calls' \in 0..MaxCalls, below' \subseteq Capability
  PROVE  MembersTypeOK'
BY DEF MembersTypeOK, MemberTypeOK, roleVars, turnVars

LEMMA ByHostsTypes ==
  ASSUME AccessTypeOK, NEW a \in People, ByHosts(a)
  PROVE  AccessTypeOK'
<1> USE RightsAssumption, MembersAssumption, InvitesAssumption
<1>0. MembersTypeOK BY DEF AccessTypeOK
<1>1. calls' \in 0..MaxCalls
  BY <1>0 DEF ByHosts, Invite, Approve, RevokeInvite, Reject, RevokeLink, CreateLink, SetCode,
              Acts, Call, MembersTypeOK
<1>2. ASSUME NEW p \in People, NEW r \in live, Invite(a, p, r) PROVE AccessTypeOK'
  <2>1. r \in Role BY <1>0 DEF MembersTypeOK
  <2>2. below' \subseteq Capability BY <1>0, <1>2, <2>1, OffersType DEF Invite
  <2>3. MemberTypeOK'
    BY <1>0, <1>2, <2>1, EnterTypes DEF Invite, MembersTypeOK, MemberTypeOK, memberVars
  <2>4. MembersTypeOK' BY <1>0, <1>1, <1>2, <2>2, <2>3, ApartTypes DEF Invite, Apart
  <2>5. invited' \in [People -> Role \cup {NoRole}] BY <1>2, <2>1 DEF Invite, AccessTypeOK
  <2> QED BY <1>2, <2>4, <2>5 DEF Invite, AccessTypeOK
<1>3. ASSUME NEW p \in People, NEW r \in live, Approve(a, p, r) PROVE AccessTypeOK'
  <2>1. r \in Role BY <1>0 DEF MembersTypeOK
  <2>2. below' \subseteq Capability BY <1>0, <1>3, <2>1, OffersType DEF Approve
  <2>3. MemberTypeOK'
    BY <1>0, <1>3, <2>1, EnterTypes DEF Approve
  <2>4. MembersTypeOK' BY <1>0, <1>1, <1>3, <2>2, <2>3, ApartTypes DEF Approve, Apart
  <2> QED BY <1>3, <2>4 DEF Approve, AccessTypeOK
<1>4. ASSUME NEW p \in People, RevokeInvite(a, p) \/ Reject(a, p) PROVE AccessTypeOK'
  <2>1. UNCHANGED <<roleVars, memberVars, turnVars, ban, cuts, below>>
    BY <1>4 DEF RevokeInvite, Reject
  <2>2. MembersTypeOK' BY <1>0, <1>1, <2>1 DEF MembersTypeOK, roleVars, memberVars, turnVars
  <2> QED BY <1>4, <2>2 DEF RevokeInvite, Reject, AccessTypeOK
<1>5. ASSUME NEW l \in Links, RevokeLink(a, l) PROVE AccessTypeOK'
  <2>1. UNCHANGED <<roleVars, memberVars, turnVars, ban, cuts, below>>
    BY <1>5 DEF RevokeLink, CloseLink
  <2>2. MembersTypeOK' BY <1>0, <1>1, <2>1 DEF MembersTypeOK, roleVars, memberVars, turnVars
  <2> QED BY <1>5, <2>2 DEF RevokeLink, CloseLink, AccessTypeOK
<1>6. ASSUME NEW l \in Links, NEW r \in live, NEW n \in 1..MaxUses, CreateLink(a, l, r, n)
      PROVE  AccessTypeOK'
  <2>1. r \in Role BY <1>0 DEF MembersTypeOK
  <2>2. below' \subseteq Capability BY <1>0, <1>6, <2>1, OffersType DEF CreateLink
  <2>3. MembersTypeOK'
    BY <1>0, <1>1, <1>6, <2>2 DEF CreateLink, MembersTypeOK, roleVars, memberVars, turnVars
  <2>4. linked' \in [Links -> Role \cup {NoRole}] /\ left' \in [Links -> 0..MaxUses]
    BY <1>6, <2>1, DoorTypes DEF CreateLink, AccessTypeOK
  <2> QED BY <1>6, <2>3, <2>4 DEF CreateLink, AccessTypeOK
<1>7. ASSUME NEW on \in BOOLEAN, SetCode(a, on) PROVE AccessTypeOK'
  <2>1. MembersTypeOK'
    BY <1>0, <1>1, <1>7 DEF SetCode, MembersTypeOK, roleVars, memberVars, turnVars
  <2> QED BY <1>7, <2>1 DEF SetCode, AccessTypeOK
<1> QED BY <1>2, <1>3, <1>4, <1>5, <1>6, <1>7 DEF ByHosts

\* A link that can be used has a use left.
UsesLeft == \A l \in Links : linked[l] # NoRole => left[l] > 0

LEMMA ByAnybodyTypes ==
  ASSUME AccessTypeOK, UsesLeft, NEW p \in People, ByAnybody(p)
  PROVE  AccessTypeOK'
<1> USE RightsAssumption, MembersAssumption, InvitesAssumption
<1>0. MembersTypeOK BY DEF AccessTypeOK
<1>1. calls' \in 0..MaxCalls
  BY <1>0 DEF ByAnybody, SignIn, Ask, JoinByCode, Redeem, Call, MembersTypeOK
<1>2. CASE SignIn(p)
  <2>1. MemberTypeOK'
    <3>1. CASE invited[p] # NoRole
      <4>1. invited[p] \in Role BY <3>1 DEF AccessTypeOK
      <4> QED BY <1>0, <1>2, <3>1, <4>1, EnterTypes DEF SignIn
    <3>2. CASE invited[p] = NoRole
      BY <1>0, <1>2, <3>2 DEF SignIn, MembersTypeOK, MemberTypeOK, memberVars
    <3> QED BY <3>1, <3>2
  <2>2. MembersTypeOK' BY <1>0, <1>1, <1>2, <2>1, ApartTypes DEF SignIn, Apart, MembersTypeOK
  <2>3. invited' \in [People -> Role \cup {NoRole}] BY <1>2 DEF SignIn, AccessTypeOK
  <2> QED BY <1>2, <2>2, <2>3 DEF SignIn, AccessTypeOK
<1>3. CASE Ask(p)
  <2>1. MembersTypeOK'
    BY <1>0, <1>1, <1>3 DEF Ask, MembersTypeOK, roleVars, memberVars, turnVars
  <2> QED BY <1>3, <2>1 DEF Ask, AccessTypeOK
<1>4. CASE JoinByCode(p)
  <2>1. MemberTypeOK' BY <1>0, <1>4, EnterTypes DEF JoinByCode, Role, Builtins
  <2>2. MembersTypeOK' BY <1>0, <1>1, <1>4, <2>1, ApartTypes DEF JoinByCode, Apart, MembersTypeOK
  <2> QED BY <1>4, <2>2 DEF JoinByCode, doorVars, AccessTypeOK
<1>5. ASSUME NEW l \in Links, Redeem(p, l) PROVE AccessTypeOK'
  <2>1. linked[l] \in Role BY <1>5 DEF Redeem, AccessTypeOK
  <2>2. MemberTypeOK' BY <1>0, <1>5, <2>1, EnterTypes DEF Redeem
  <2>3. MembersTypeOK' BY <1>0, <1>1, <1>5, <2>2, ApartTypes DEF Redeem, Apart, MembersTypeOK
  <2>4. linked' \in [Links -> Role \cup {NoRole}] BY <1>5 DEF Redeem, AccessTypeOK
  <2>5. left' \in [Links -> 0..MaxUses]
    <3>1. left[l] \in 1..MaxUses BY <1>5 DEF Redeem, AccessTypeOK, UsesLeft
    <3> QED BY <1>5, <3>1 DEF Redeem, AccessTypeOK
  <2> QED BY <1>5, <2>3, <2>4, <2>5 DEF Redeem, AccessTypeOK
<1> QED BY <1>2, <1>3, <1>4, <1>5 DEF ByAnybody

LEMMA ByTheRoomTypes ==
  ASSUME MembersTypeOK, ByTheRoom
  PROVE  MembersTypeOK'
<1> USE MembersAssumption
<1>1. CASE StartTurn
  <2>1. spared' \in BOOLEAN BY <1>1 DEF StartTurn
  <2> QED BY <1>1, <2>1 DEF StartTurn, MembersTypeOK, roleVars, memberVars
<1>2. CASE EndTurn
  BY <1>2 DEF EndTurn, MembersTypeOK, roleVars, memberVars
<1>3. ASSUME NEW p \in People, Lapse(p) PROVE MembersTypeOK'
  BY <1>3 DEF Lapse, MembersTypeOK, roleVars, memberVars, turnVars
<1>4. ASSUME NEW p \in People, Admit(p) PROVE MembersTypeOK'
  BY <1>4 DEF Admit, MembersTypeOK, roleVars, memberVars
<1>5. ASSUME NEW p \in People, ApplyLive(p, ~archived) PROVE MembersTypeOK'
  <2>1. cuts' \in [People -> Nat] BY <1>5 DEF ApplyLive, MembersTypeOK
  <2>2. author' \in People \cup {NoOne} /\ spared' \in BOOLEAN
    BY <1>5 DEF ApplyLive, MembersTypeOK
  <2> QED BY <1>5, <2>1, <2>2 DEF ApplyLive, MembersTypeOK, roleVars, memberVars
<1> QED BY <1>1, <1>2, <1>3, <1>4, <1>5 DEF ByTheRoom

LEMMA UsesLeftKept ==
  ASSUME AccessTypeOK, UsesLeft, [AccessNext]_accessVars
  PROVE  UsesLeft'
<1> USE RightsAssumption, InvitesAssumption
<1>1. ASSUME linked' = linked, left' = left PROVE UsesLeft' BY <1>1 DEF UsesLeft
<1>2. ASSUME NEW l \in Links, CloseLink(l) PROVE UsesLeft'
  BY <1>2 DEF CloseLink, UsesLeft, AccessTypeOK
<1>3. ASSUME NEW a, NEW l \in Links, NEW r \in live, NEW n \in 1..MaxUses, CreateLink(a, l, r, n)
      PROVE  UsesLeft'
  BY <1>3 DEF CreateLink, UsesLeft, AccessTypeOK
<1>4. ASSUME NEW p, NEW l \in Links, Redeem(p, l) PROVE UsesLeft'
  BY <1>4 DEF Redeem, UsesLeft, AccessTypeOK
<1>5. ASSUME NEW a, ByHosts(a) PROVE UsesLeft'
  BY <1>1, <1>2, <1>3, <1>5 DEF ByHosts, Invite, Approve, RevokeInvite, Reject, RevokeLink, SetCode
<1>6. ASSUME NEW p, ByAnybody(p) PROVE UsesLeft'
  BY <1>1, <1>4, <1>6 DEF ByAnybody, SignIn, Ask, JoinByCode, doorVars
<1>7. CASE ByTime
  BY <1>1, <1>2, <1>7 DEF ByTime, InviteExpires, LinkExpires
<1>8. ASSUME NEW a, Archive(a) PROVE UsesLeft' BY <1>1, <1>8 DEF Archive
<1>9. CASE UNCHANGED doorVars BY <1>1, <1>9 DEF doorVars
<1> QED BY <1>5, <1>6, <1>7, <1>8, <1>9 DEF AccessNext, DeleteRole, accessVars

LEMMA AccessTypesKept ==
  AccessTypeOK /\ UsesLeft /\ [AccessNext]_accessVars => AccessTypeOK'
<1> SUFFICES ASSUME AccessTypeOK, UsesLeft, [AccessNext]_accessVars PROVE AccessTypeOK'
  OBVIOUS
<1> USE RightsAssumption, MembersAssumption, InvitesAssumption
<1>0. MembersTypeOK BY DEF AccessTypeOK
<1>1. ASSUME MembersTypeOK', UNCHANGED doorVars PROVE AccessTypeOK'
  BY <1>1 DEF AccessTypeOK, doorVars
<1>2. CASE UNCHANGED accessVars
  BY <1>0, <1>1, <1>2 DEF accessVars, membersVars, roleVars, memberVars, turnVars, MembersTypeOK
<1>3. ASSUME NEW a \in With("members"), ByManagers(a), UNCHANGED doorVars PROVE AccessTypeOK'
  BY <1>1, <1>3, ByManagersTypes DEF With
<1>4. ASSUME NEW a \in With("roles"), ByRoleManagers(a), UNCHANGED doorVars PROVE AccessTypeOK'
  BY <1>0, <1>1, <1>4, ByRoleManagersTypes DEF With
<1>5. ASSUME NEW a \in With("invite"), ByHosts(a) PROVE AccessTypeOK'
  BY <1>5, ByHostsTypes DEF With
<1>6. ASSUME NEW a \in With("roles"), NEW c \in Customs, DeleteRole(a, c) PROVE AccessTypeOK'
  BY <1>0, <1>1, <1>6, ByRoleManagersTypes DEF DeleteRole, With
<1>7. ASSUME NEW a \in With("delete"), Archive(a) PROVE AccessTypeOK'
  <2>1. calls' \in 0..MaxCalls BY <1>0, <1>7 DEF Archive, Acts, Call, MembersTypeOK
  <2>2. MembersTypeOK' BY <1>0, <1>7, <2>1 DEF Archive, MembersTypeOK, roleVars, memberVars
  <2> QED BY <1>7, <2>2 DEF Archive, AccessTypeOK
<1>8. ASSUME NEW p \in People, ByAnybody(p) PROVE AccessTypeOK'
  BY <1>8, ByAnybodyTypes
<1>9. CASE ByTime
  <2>1. MembersTypeOK'
    BY <1>0, <1>9 DEF ByTime, InviteExpires, LinkExpires, CloseLink, membersVars, roleVars,
                     memberVars, turnVars, MembersTypeOK
  <2> QED BY <1>9, <2>1 DEF ByTime, InviteExpires, LinkExpires, CloseLink, AccessTypeOK
<1>10. CASE ByTheRoom /\ UNCHANGED doorVars
  BY <1>0, <1>1, <1>10, ByTheRoomTypes
<1> QED BY <1>2, <1>3, <1>4, <1>5, <1>6, <1>7, <1>8, <1>9, <1>10 DEF AccessNext

LEMMA AccessTypesInvariant == AccessSpec => [](AccessTypeOK /\ UsesLeft)
<1>1. AccessInit => UsesLeft BY DEF AccessInit, UsesLeft
<1> QED BY <1>1, AccessInitTypes, AccessTypesKept, UsesLeftKept, PTL DEF AccessSpec

\* Every variable keeps its type: a link, among others, is never used more often than
\* its quota (invites.py, redeem).
THEOREM AccessTypeCorrect == AccessSpec => []AccessTypeOK
BY AccessTypesInvariant, PTL

-----------------------------------------------------------------------------
(* The owner a room keeps, the roles in use, the exclusions. *)

Doors == {"invitation", "link", "request"}

\* What a step may do to the memberships: nothing, an entry of somebody who is none, a
\* departure, or a change of role; the two last never of the last owner.
Moves ==
  \/ UNCHANGED <<role, came>>
  \/ \E p \in People, r \in live, door \in Doors \cup {"code"} :
       /\ ~Member(p) /\ Enter(p, r, door)
       /\ door = "code" => ban[p] # "active"
  \/ \E p \in People : Member(p) /\ ~LastOwner(p) /\ Leave(p)
  \/ \E p \in People, r \in live :
       /\ Member(p) /\ (LastOwner(p) => r = "owner")
       /\ role' = [role EXCEPT ![p] = r] /\ came' = came

LEMMA EveryStepMoves ==
  ASSUME AccessTypeOK, RolesInUseExist, [AccessNext]_accessVars
  PROVE  Moves
<1> USE RightsAssumption
<1>0. MembersTypeOK BY DEF AccessTypeOK
<1>1. ASSUME UNCHANGED memberVars PROVE Moves BY <1>1 DEF Moves, memberVars
<1>2. ASSUME NEW p \in People, NEW r \in live, NEW door \in Doors, EnterOnce(p, r, door)
      PROVE  Moves
  BY <1>1, <1>2 DEF EnterOnce, Moves, Doors
<1>3. ASSUME NEW a, ByManagers(a) PROVE Moves
  <2>1. ASSUME NEW p \in People, NEW r \in live, NEW e, NEW g, NEW v, UpdateMember(a, p, r, e, g, v)
        PROVE  Moves
    BY <2>1 DEF UpdateMember, Moves
  <2>2. ASSUME NEW p \in People, RemoveMember(a, p) \/ Ban(a, p) PROVE Moves
    BY <1>1, <2>2 DEF RemoveMember, Ban, Expel, Moves
  <2>3. ASSUME NEW p \in People, Lift(a, p) PROVE Moves BY <1>1, <2>3 DEF Lift
  <2> QED BY <1>3, <2>1, <2>2, <2>3 DEF ByManagers
<1>4. ASSUME NEW a, ByRoleManagers(a) PROVE Moves
  BY <1>1, <1>4 DEF ByRoleManagers, CreateRole, UpdateRole
<1>5. ASSUME NEW a, ByHosts(a) PROVE Moves
  <2>1. ASSUME NEW p \in People, NEW r \in live, Invite(a, p, r) PROVE Moves
    BY <1>1, <1>2, <2>1 DEF Invite, Doors
  <2>2. ASSUME NEW p \in People, NEW r \in live, Approve(a, p, r) PROVE Moves
    BY <1>2, <2>2 DEF Approve, Doors
  <2> QED BY <1>1, <1>5, <2>1, <2>2 DEF ByHosts, RevokeInvite, Reject, RevokeLink, CloseLink,
                                       CreateLink, SetCode
<1>6. ASSUME NEW p \in People, ByAnybody(p) PROVE Moves
  <2>1. CASE SignIn(p)
    <3>1. CASE invited[p] # NoRole
      <4>1. invited[p] \in live BY <3>1 DEF RolesInUseExist
      <4> QED BY <1>2, <2>1, <3>1, <4>1 DEF SignIn, Doors
    <3>2. CASE invited[p] = NoRole BY <1>1, <2>1, <3>2 DEF SignIn
    <3> QED BY <3>1, <3>2
  <2>2. CASE JoinByCode(p)
    <3>1. "writer" \in live BY <1>0 DEF MembersTypeOK, Builtins
    <3> QED BY <2>2, <3>1 DEF JoinByCode, Banned, Moves
  <2>3. ASSUME NEW l \in Links, Redeem(p, l) PROVE Moves
    <3>1. linked[l] \in live BY <2>3 DEF Redeem, RolesInUseExist
    <3> QED BY <2>3, <3>1 DEF Redeem, Moves, Doors
  <2>4. CASE Ask(p) BY <1>1, <2>4 DEF Ask
  <2> QED BY <1>6, <2>1, <2>2, <2>3, <2>4 DEF ByAnybody
<1>7. ASSUME NEW a, NEW c, DeleteRole(a, c) PROVE Moves BY <1>1, <1>7 DEF DeleteRole, DropRole
<1>8. ASSUME NEW a, Archive(a) PROVE Moves BY <1>1, <1>8 DEF Archive
<1>9. CASE ByTime
  BY <1>1, <1>9 DEF ByTime, InviteExpires, LinkExpires, CloseLink, membersVars
<1>10. CASE ByTheRoom
  BY <1>1, <1>10 DEF ByTheRoom, StartTurn, EndTurn, Lapse, Admit, ApplyLive
<1>11. CASE UNCHANGED accessVars BY <1>1, <1>11 DEF accessVars, membersVars
<1> QED BY <1>3, <1>4, <1>5, <1>6, <1>7, <1>8, <1>9, <1>10, <1>11 DEF AccessNext

LEMMA OwnerKept ==
  ASSUME AccessTypeOK, RoomKeepsAnOwner, Moves
  PROVE  RoomKeepsAnOwner'
<1> USE RightsAssumption
<1>0. role \in [People -> Role \cup {NoRole}] /\ "owner" \in Role
  BY DEF AccessTypeOK, MembersTypeOK, Role, Builtins
<1>1. PICK o \in People : role[o] = "owner" BY DEF RoomKeepsAnOwner
<1>2. CASE UNCHANGED <<role, came>> BY <1>1, <1>2 DEF RoomKeepsAnOwner
<1>3. ASSUME NEW p \in People, NEW r \in live, NEW door, ~Member(p), Enter(p, r, door)
      PROVE  RoomKeepsAnOwner'
  <2>1. o # p BY <1>0, <1>1, <1>3 DEF Member
  <2> QED BY <1>0, <1>1, <1>3, <2>1 DEF Enter, RoomKeepsAnOwner
<1>4. ASSUME NEW p \in People, ~LastOwner(p), Leave(p) PROVE RoomKeepsAnOwner'
  <2>1. PICK q \in People : role[q] = "owner" /\ q # p BY <1>1, <1>4 DEF LastOwner
  <2> QED BY <1>0, <1>4, <2>1 DEF Leave, RoomKeepsAnOwner
<1>5. ASSUME NEW p \in People, NEW r \in live, LastOwner(p) => r = "owner",
             role' = [role EXCEPT ![p] = r]
      PROVE  RoomKeepsAnOwner'
  <2>1. CASE LastOwner(p) BY <1>0, <1>5, <2>1 DEF RoomKeepsAnOwner
  <2>2. CASE ~LastOwner(p)
    <3>1. PICK q \in People : role[q] = "owner" /\ q # p BY <1>1, <2>2 DEF LastOwner
    <3> QED BY <1>0, <1>5, <3>1 DEF RoomKeepsAnOwner
  <2> QED BY <2>1, <2>2
<1> QED BY <1>2, <1>3, <1>4, <1>5 DEF Moves

\* What a step may do to the exclusions: only of who is out of the room after it.
LEMMA ExclusionsAreOut ==
  ASSUME AccessTypeOK, [AccessNext]_accessVars
  PROVE  \A p \in People : ban'[p] = "active" => ban[p] = "active" \/ ~Member(p)'
<1> USE RightsAssumption
<1>1. ASSUME ban' = ban
      PROVE  \A p \in People : ban'[p] = "active" => ban[p] = "active" \/ ~Member(p)'
  BY <1>1
<1>2. ASSUME NEW a, NEW q \in People, Ban(a, q), NEW p \in People, ban'[p] = "active"
      PROVE  ban[p] = "active" \/ ~Member(p)'
  <2>1. p # q => ban[p] = "active" BY <1>2 DEF Ban, AccessTypeOK, MembersTypeOK
  <2>2. ~Member(q)'
    BY <1>2 DEF Ban, Expel, Leave, Member, memberVars, AccessTypeOK, MembersTypeOK
  <2> QED BY <2>1, <2>2
<1>3. ASSUME NEW q \in People, NEW a, Lift(a, q) \/ Lapse(q), NEW p \in People, ban'[p] = "active"
      PROVE  ban[p] = "active" \/ ~Member(p)'
  BY <1>3 DEF Lift, Lapse, AccessTypeOK, MembersTypeOK
<1>4. ASSUME NEW a, ByManagers(a), NEW p \in People, ban'[p] = "active"
      PROVE  ban[p] = "active" \/ ~Member(p)'
  BY <1>1, <1>2, <1>3, <1>4 DEF ByManagers, UpdateMember, RemoveMember
<1>5. ASSUME NEW a, ByHosts(a) PROVE ban' = ban
  BY <1>5 DEF ByHosts, Invite, Approve, RevokeInvite, Reject, RevokeLink, CloseLink, CreateLink,
              SetCode, Apart
<1>6. ASSUME NEW p, ByAnybody(p) PROVE ban' = ban
  BY <1>6 DEF ByAnybody, SignIn, Ask, JoinByCode, Redeem, Apart
<1>7. CASE ByTheRoom
  BY <1>1, <1>3, <1>7 DEF ByTheRoom, StartTurn, EndTurn, Admit, ApplyLive
<1>8. ASSUME ByTime \/ UNCHANGED accessVars PROVE ban' = ban
  BY <1>8 DEF ByTime, InviteExpires, LinkExpires, CloseLink, accessVars, membersVars
<1>9. ASSUME NEW a, ByRoleManagers(a) \/ Archive(a) \/ \E c \in Customs : DeleteRole(a, c)
      PROVE  ban' = ban
  BY <1>9 DEF ByRoleManagers, CreateRole, UpdateRole, Archive, DeleteRole, DropRole
<1> QED BY <1>1, <1>4, <1>5, <1>6, <1>7, <1>8, <1>9 DEF AccessNext

LEMMA BannedKept ==
  ASSUME AccessTypeOK, BannedNeedsAnOffer, Moves,
         \A p \in People : ban'[p] = "active" => ban[p] = "active" \/ ~Member(p)'
  PROVE  BannedNeedsAnOffer'
<1> USE RightsAssumption
<1> SUFFICES ASSUME NEW q \in People, ban'[q] = "active", Member(q)'
             PROVE  came'[q] \in Doors
  BY DEF BannedNeedsAnOffer, Doors
<1>0. /\ role \in [People -> Role \cup {NoRole}] /\ ban[q] = "active"
      /\ came \in [People -> {"none", "created", "code", "invitation", "link", "request"}]
  BY DEF AccessTypeOK, MembersTypeOK
<1>1. ASSUME Member(q), came'[q] = came[q] PROVE came'[q] \in Doors
  BY <1>0, <1>1 DEF BannedNeedsAnOffer, Doors
<1>2. CASE UNCHANGED <<role, came>> BY <1>1, <1>2 DEF Member
<1>3. ASSUME NEW p \in People, NEW r \in live, NEW door \in Doors \cup {"code"},
             Enter(p, r, door), door = "code" => ban[p] # "active"
      PROVE  came'[q] \in Doors
  <2>1. CASE q = p BY <1>0, <1>3, <2>1 DEF Enter
  <2>2. CASE q # p BY <1>0, <1>1, <1>3, <2>2 DEF Enter, Member
  <2> QED BY <2>1, <2>2
<1>4. ASSUME NEW p \in People, Leave(p) PROVE came'[q] \in Doors
  BY <1>0, <1>1, <1>4 DEF Leave, Member
<1>5. ASSUME NEW p \in People, NEW r \in live, Member(p),
             role' = [role EXCEPT ![p] = r], came' = came
      PROVE  came'[q] \in Doors
  BY <1>0, <1>1, <1>5 DEF Member
<1> QED BY <1>2, <1>3, <1>4, <1>5 DEF Moves

LEMMA RolesInUseKept ==
  ASSUME AccessTypeOK, RolesInUseExist, [AccessNext]_accessVars
  PROVE  RolesInUseExist'
<1> USE RightsAssumption
<1>0. /\ role \in [People -> Role \cup {NoRole}] /\ live \subseteq Role
      /\ invited \in [People -> Role \cup {NoRole}] /\ linked \in [Links -> Role \cup {NoRole}]
  BY DEF AccessTypeOK, MembersTypeOK
<1>1. Moves BY EveryStepMoves
<1>2. ASSUME NEW a, NEW c, DeleteRole(a, c) PROVE RolesInUseExist'
  <2>1. /\ live' = live \ {c} /\ role' = role /\ invited' = invited /\ linked' = linked
        /\ \A p \in People : role[p] # c /\ invited[p] # c
        /\ \A l \in Links : linked[l] # c
    BY <1>2 DEF DeleteRole, DropRole, Unoffered, memberVars, doorVars
  <2> QED BY <2>1 DEF RolesInUseExist
<1>3. ASSUME live \subseteq live',
             \A p \in People : invited'[p] \in live \cup {NoRole},
             \A l \in Links : linked'[l] \in live \cup {NoRole}
      PROVE  RolesInUseExist'
  <2>1. \A p \in People : role'[p] \in live \cup {NoRole}
    BY <1>0, <1>1 DEF Moves, Enter, Leave, RolesInUseExist
  <2> QED BY <1>3, <2>1 DEF RolesInUseExist
<1>4. ASSUME live \subseteq live', UNCHANGED <<invited, linked>> PROVE RolesInUseExist'
  BY <1>3, <1>4 DEF RolesInUseExist
<1>5. ASSUME NEW a, ByManagers(a) \/ ByRoleManagers(a), UNCHANGED doorVars PROVE RolesInUseExist'
  <2>1. live \subseteq live'
    BY <1>5 DEF ByManagers, UpdateMember, RemoveMember, Ban, Lift, ByRoleManagers, CreateRole,
                UpdateRole, roleVars
  <2> QED BY <1>4, <1>5, <2>1 DEF doorVars
<1>6. ASSUME NEW a, ByHosts(a) PROVE RolesInUseExist'
  <2>1. live' = live
    BY <1>6 DEF ByHosts, Invite, Approve, RevokeInvite, Reject, RevokeLink, CloseLink, CreateLink,
                SetCode, Apart, roleVars
  <2>2. ASSUME NEW p \in People, NEW r \in live, Invite(a, p, r) PROVE RolesInUseExist'
    BY <1>0, <1>3, <2>1, <2>2 DEF Invite, RolesInUseExist
  <2>3. ASSUME NEW p \in People, RevokeInvite(a, p) PROVE RolesInUseExist'
    BY <1>0, <1>3, <2>1, <2>3 DEF RevokeInvite, RolesInUseExist
  <2>4. ASSUME NEW l \in Links, RevokeLink(a, l) PROVE RolesInUseExist'
    BY <1>0, <1>3, <2>1, <2>4 DEF RevokeLink, CloseLink, RolesInUseExist
  <2>5. ASSUME NEW l \in Links, NEW r \in live, NEW n, CreateLink(a, l, r, n)
        PROVE  RolesInUseExist'
    BY <1>0, <1>3, <2>1, <2>5 DEF CreateLink, RolesInUseExist
  <2> QED BY <1>4, <1>6, <2>1, <2>2, <2>3, <2>4, <2>5 DEF ByHosts, Approve, Reject, SetCode
<1>7. ASSUME NEW p \in People, ByAnybody(p) PROVE RolesInUseExist'
  <2>1. live' = live BY <1>7 DEF ByAnybody, SignIn, Ask, JoinByCode, Redeem, Apart, roleVars
  <2>2. CASE SignIn(p) BY <1>0, <1>3, <2>1, <2>2 DEF SignIn, RolesInUseExist
  <2>3. ASSUME NEW l \in Links, Redeem(p, l) PROVE RolesInUseExist'
    BY <1>0, <1>3, <2>1, <2>3 DEF Redeem, RolesInUseExist
  <2> QED BY <1>4, <1>7, <2>1, <2>2, <2>3 DEF ByAnybody, Ask, JoinByCode, doorVars
<1>8. ASSUME NEW a, Archive(a) PROVE RolesInUseExist'
  BY <1>4, <1>8 DEF Archive, roleVars
<1>9. CASE ByTime
  <2>1. live' = live
    BY <1>9 DEF ByTime, InviteExpires, LinkExpires, CloseLink, membersVars, roleVars
  <2>2. ASSUME NEW p \in People, InviteExpires(p) PROVE RolesInUseExist'
    BY <1>0, <1>3, <2>1, <2>2 DEF InviteExpires, RolesInUseExist
  <2>3. ASSUME NEW l \in Links, LinkExpires(l) PROVE RolesInUseExist'
    BY <1>0, <1>3, <2>1, <2>3 DEF LinkExpires, CloseLink, RolesInUseExist
  <2> QED BY <1>9, <2>2, <2>3 DEF ByTime
<1>10. CASE ByTheRoom /\ UNCHANGED doorVars
  BY <1>4, <1>10 DEF ByTheRoom, StartTurn, EndTurn, Lapse, Admit, ApplyLive, roleVars, doorVars
<1>11. CASE UNCHANGED accessVars
  BY <1>4, <1>11 DEF accessVars, membersVars, roleVars, doorVars
<1> QED BY <1>2, <1>5, <1>6, <1>7, <1>8, <1>9, <1>10, <1>11 DEF AccessNext

\* What the three properties rest on: each other's facts, and the types.
MembershipIInv ==
  AccessTypeOK /\ UsesLeft /\ RolesInUseExist /\ RoomKeepsAnOwner /\ BannedNeedsAnOffer

LEMMA MembershipInvariant == AccessSpec => []MembershipIInv
<1>1. AccessInit => MembershipIInv
  <2> SUFFICES ASSUME AccessInit PROVE MembershipIInv OBVIOUS
  <2>1. AccessTypeOK /\ UsesLeft BY AccessInitTypes DEF AccessInit, UsesLeft
  <2>2. RolesInUseExist BY DEF AccessInit, MembersInit, RolesInUseExist, Builtins
  <2>3. RoomKeepsAnOwner
    BY MembersAssumption DEF AccessInit, MembersInit, RoomKeepsAnOwner
  <2>4. BannedNeedsAnOffer BY DEF AccessInit, MembersInit, BannedNeedsAnOffer
  <2> QED BY <2>1, <2>2, <2>3, <2>4 DEF MembershipIInv
<1>2. MembershipIInv /\ [AccessNext]_accessVars => MembershipIInv'
  <2> SUFFICES ASSUME MembershipIInv, [AccessNext]_accessVars PROVE MembershipIInv' OBVIOUS
  <2>1. AccessTypeOK' /\ UsesLeft' BY AccessTypesKept, UsesLeftKept DEF MembershipIInv
  <2>2. RolesInUseExist' BY RolesInUseKept DEF MembershipIInv
  <2>3. Moves BY EveryStepMoves DEF MembershipIInv
  <2>4. RoomKeepsAnOwner' BY <2>3, OwnerKept DEF MembershipIInv
  <2>5. BannedNeedsAnOffer' BY <2>3, ExclusionsAreOut, BannedKept DEF MembershipIInv
  <2> QED BY <2>1, <2>2, <2>4, <2>5 DEF MembershipIInv
<1> QED BY <1>1, <1>2, PTL DEF AccessSpec

\* A room has an owner, however many people demote, expel, exclude and invite each
\* other (members.py, bans.py: the refusals that speak of the last owner).
THEOREM AnOwnerRemains == AccessSpec => []RoomKeepsAnOwner
BY MembershipInvariant, PTL DEF MembershipIInv

\* The role of a member, or of an offer that can be used, is never one that is gone
\* (roles.py:132-134).
THEOREM NoDeadRole == AccessSpec => []RolesInUseExist
BY MembershipInvariant, PTL DEF MembershipIInv

\* Who is a member under exclusion came by an offer made in person, a link or a request,
\* the doors that do not ask (identity.py, invites.py).
THEOREM ExclusionsYieldToOffers == AccessSpec => []BannedNeedsAnOffer
BY MembershipInvariant, PTL DEF MembershipIInv

-----------------------------------------------------------------------------
(* What delegation can spread. *)

\* What an offer that can be used confers was counted when it was made.
OffersAreCounted ==
  /\ \A p \in People : invited[p] \notin {NoRole, "owner"} => content[invited[p]] \subseteq below
  /\ \A l \in Links : linked[l] \notin {NoRole, "owner"} => content[linked[l]] \subseteq below

\* Roles keep to their identifiers: builtin ones never change, one that is gone never
\* returns, ownership is nobody's additional role, who is out keeps nothing.
RolesAreOrderly ==
  /\ \A b \in Builtins : content[b] = Template[b]
  /\ Template["writer"] \subseteq below
  /\ live \subseteq Builtins \cup used
  /\ \A p \in People : extras[p] \subseteq (Builtins \cup used) \ {"owner"}
  /\ \A p \in People : ~Member(p) => extras[p] = {} /\ grants[p] = {}

DelegationIInv == RolesAreOrderly /\ OffersAreCounted /\ NoAccomplice

LEMMA OwnerHasAll ==
  ASSUME MembersTypeOK, NEW p \in People, role[p] = "owner"
  PROVE  Rights(p) = Capability
<1>1. "owner" \in live /\ Member(p)
  BY RightsAssumption DEF MembersTypeOK, Builtins, Member, Role
<1> QED BY <1>1 DEF Rights, Resolve

LEMMA RightsOfOthers ==
  ASSUME MembersTypeOK, RolesAreOrderly, NEW p \in People, role[p] # "owner", Member(p)
  PROVE  Rights(p) = Adjusted(UNION {content[r] : r \in ({role[p]} \cup extras[p]) \cap live},
                              grants[p], revokes[p])
<1>1. "owner" \notin ({role[p]} \cup extras[p]) \cap live BY DEF RolesAreOrderly
<1> QED BY <1>1 DEF Rights, Resolve

\* What somebody gives of what they have is counted.
LEMMA GiftsAreCounted ==
  ASSUME MembersTypeOK, NoAccomplice, NEW a \in People, NEW caps, caps \subseteq Rights(a),
         Gives(a, caps)
  PROVE  caps \subseteq below' /\ below \subseteq below'
<1>1. CASE Rights(a) = Capability BY <1>1 DEF Gives
<1>2. CASE Rights(a) # Capability
  <2>1. Rights(a) \subseteq below BY <1>2, OwnerHasAll DEF NoAccomplice
  <2> QED BY <1>2, <2>1 DEF Gives
<1> QED BY <1>1, <1>2

LEMMA OffersCount ==
  ASSUME MembersTypeOK, NoAccomplice, NEW a \in People, NEW r, Delegable(a, r), Offers(a, r)
  PROVE  below \subseteq below' /\ (r # "owner" => content[r] \subseteq below')
BY GiftsAreCounted DEF Delegable, MayConfer, Offers

\* No membership and no role changes.
LEMMA QuietDelegation ==
  ASSUME MembersTypeOK, DelegationIInv, UNCHANGED <<roleVars, role, extras, grants, revokes>>,
         below \subseteq below', OffersAreCounted'
  PROVE  DelegationIInv'
<1>1. UNCHANGED <<live, used, content>> BY DEF roleVars
<1>2. RolesAreOrderly' BY <1>1 DEF DelegationIInv, RolesAreOrderly, Member
<1>3. \A p \in People : Rights(p)' = Rights(p) BY <1>1 DEF Rights, Resolve, Member
<1>4. NoAccomplice' BY <1>3 DEF DelegationIInv, NoAccomplice
<1> QED BY <1>2, <1>4 DEF DelegationIInv

\* Somebody enters.
LEMMA EnterDelegation ==
  ASSUME MembersTypeOK, DelegationIInv, NEW p \in People, NEW r \in Role, NEW door,
         ~Member(p), Enter(p, r, door), UNCHANGED roleVars, below \subseteq below',
         r # "owner" => content[r] \subseteq below', OffersAreCounted'
  PROVE  DelegationIInv'
<1> USE RightsAssumption
<1>1. /\ UNCHANGED <<live, used, content, extras, grants, revokes>>
      /\ role' = [role EXCEPT ![p] = r]
  BY DEF roleVars, Enter
<1>2. RolesAreOrderly'
  BY <1>1 DEF DelegationIInv, RolesAreOrderly, Member, MembersTypeOK
<1>3. ASSUME NEW q \in People, role'[q] # "owner" PROVE Rights(q)' \subseteq below'
  <2>1. CASE q # p
    <3>1. Rights(q)' = Rights(q) BY <1>1, <2>1 DEF Rights, Resolve, Member, MembersTypeOK
    <3>2. role[q] # "owner" BY <1>1, <1>3, <2>1 DEF MembersTypeOK
    <3> QED BY <3>1, <3>2 DEF DelegationIInv, NoAccomplice
  <2>2. CASE q = p
    <3>1. role'[p] = r /\ r # "owner" BY <1>1, <1>3, <2>2 DEF MembersTypeOK
    <3>2. extras'[p] = {} /\ grants'[p] = {} BY <1>1 DEF DelegationIInv, RolesAreOrderly
    <3>3. ({role'[p]} \cup extras'[p]) \cap live' \subseteq {r} BY <3>1, <3>2
    <3>4. "owner" \notin ({role'[p]} \cup extras'[p]) \cap live' BY <3>1, <3>3
    <3>5. Rights(p)' \subseteq content[r]
      BY <1>1, <3>2, <3>3, <3>4 DEF Rights, Resolve, Adjusted
    <3> QED BY <2>2, <3>1, <3>5
  <2> QED BY <2>1, <2>2
<1> QED BY <1>2, <1>3 DEF DelegationIInv, NoAccomplice

\* Somebody leaves.
LEMMA LeaveDelegation ==
  ASSUME MembersTypeOK, DelegationIInv, NEW p \in People, Leave(p),
         UNCHANGED <<roleVars, below, invited, linked>>
  PROVE  DelegationIInv'
<1> USE RightsAssumption
<1>1. UNCHANGED <<live, used, content>> BY DEF roleVars
<1>2. RolesAreOrderly'
  BY <1>1 DEF DelegationIInv, RolesAreOrderly, Member, Leave, MembersTypeOK
<1>3. ASSUME NEW q \in People, role'[q] # "owner" PROVE Rights(q)' \subseteq below'
  <2>1. CASE q # p
    <3>1. Rights(q)' = Rights(q) BY <1>1, <2>1 DEF Leave, Rights, Resolve, Member, MembersTypeOK
    <3>2. role[q] # "owner" BY <1>3, <2>1 DEF Leave, MembersTypeOK
    <3> QED BY <3>1, <3>2 DEF DelegationIInv, NoAccomplice
  <2>2. CASE q = p
    <3>1. ~Member(p)' BY DEF Leave, Member, MembersTypeOK
    <3> QED BY <2>2, <3>1 DEF Rights
  <2> QED BY <2>1, <2>2
<1>4. OffersAreCounted' BY <1>1 DEF DelegationIInv, OffersAreCounted
<1> QED BY <1>2, <1>3, <1>4 DEF DelegationIInv, NoAccomplice

LEMMA UpdateDelegation ==
  ASSUME MembersTypeOK, DelegationIInv, NEW a \in People, NEW p \in People, NEW r \in live,
         NEW e \in Additional(p, r), NEW g, NEW v, UpdateMember(a, p, r, e, g, v),
         UNCHANGED doorVars
  PROVE  DelegationIInv'
<1> USE RightsAssumption
<1>1. /\ UNCHANGED <<live, used, content, invited, linked>>
      /\ role' = [role EXCEPT ![p] = r] /\ extras' = [extras EXCEPT ![p] = e]
      /\ grants' = [grants EXCEPT ![p] = g] /\ revokes' = [revokes EXCEPT ![p] = v]
      /\ Member(p) /\ Rights(p)' \subseteq Rights(a)
      /\ IF r = "owner" THEN UNCHANGED below ELSE Gives(a, Rights(p)')
  BY DEF UpdateMember, roleVars, doorVars, MayConfer, LeftWith
<1>2. below \subseteq below' /\ (r # "owner" => Rights(p)' \subseteq below')
  BY <1>1, GiftsAreCounted DEF DelegationIInv
<1>3. e \subseteq (Builtins \cup used) \ {"owner"}
  BY DEF Additional, DelegationIInv, RolesAreOrderly
<1>4. Member(p)' BY <1>1 DEF Member, MembersTypeOK
<1>5. RolesAreOrderly'
  BY <1>1, <1>2, <1>3, <1>4 DEF DelegationIInv, RolesAreOrderly, Member, MembersTypeOK
<1>6. ASSUME NEW q \in People, role'[q] # "owner" PROVE Rights(q)' \subseteq below'
  <2>1. CASE q # p
    <3>1. Rights(q)' = Rights(q) BY <1>1, <2>1 DEF Rights, Resolve, Member, MembersTypeOK
    <3>2. role[q] # "owner" BY <1>1, <1>6, <2>1 DEF MembersTypeOK
    <3> QED BY <1>2, <3>1, <3>2 DEF DelegationIInv, NoAccomplice
  <2>2. CASE q = p BY <1>1, <1>2, <1>6, <2>2 DEF MembersTypeOK
  <2> QED BY <2>1, <2>2
<1>7. OffersAreCounted' BY <1>1, <1>2 DEF DelegationIInv, OffersAreCounted
<1> QED BY <1>5, <1>6, <1>7 DEF DelegationIInv, NoAccomplice

\* A custom role is created, changed or deleted: its holders gain at most what it is
\* changed to.
LEMMA RoleDelegation ==
  ASSUME MembersTypeOK, RolesInUseExist, DelegationIInv, UNCHANGED <<memberVars, invited, linked>>,
         NEW c \in Customs, NEW caps,
         \/ /\ c \notin used /\ live' = live \cup {c} /\ used' = used \cup {c}
            /\ content' = [content EXCEPT ![c] = caps] /\ below' = below
         \/ /\ c \in live /\ UNCHANGED <<live, used>>
            /\ content' = [content EXCEPT ![c] = caps] /\ below' = below \cup caps
         \/ /\ live' = live \ {c} /\ UNCHANGED <<used, content, below>>
  PROVE  DelegationIInv'
<1> USE RightsAssumption
<1>1. UNCHANGED <<role, extras, grants, revokes>> BY DEF memberVars
<1>2. /\ \A r \in Role \ {c} : content'[r] = content[r]
      /\ below \subseteq below' /\ live' \subseteq live \cup {c} /\ live \subseteq Role
      /\ used \subseteq used'
  BY DEF MembersTypeOK
<1>3. RolesAreOrderly'
  BY <1>1, <1>2 DEF DelegationIInv, RolesAreOrderly, Member, MembersTypeOK, Role
<1>4. \A r \in Role : r \in live => content'[r] \subseteq content[r] \cup below'
  BY <1>2 DEF DelegationIInv, RolesAreOrderly, MembersTypeOK, Role
<1>5. ASSUME NEW p \in People, role'[p] # "owner" PROVE Rights(p)' \subseteq below'
  <2>1. CASE ~Member(p) BY <1>1, <2>1 DEF Rights, Member
  <2>2. CASE Member(p)
    <3> DEFINE held  == ({role[p]} \cup extras[p]) \cap live
               after == ({role[p]} \cup extras[p]) \cap live'
    <3>1. after \subseteq held
      BY <1>2, <2>2 DEF RolesInUseExist, DelegationIInv, RolesAreOrderly, Member, MembersTypeOK
    <3>2. Rights(p) = Adjusted(UNION {content[r] : r \in held}, grants[p], revokes[p])
      BY <1>1, <1>5, <2>2, RightsOfOthers DEF DelegationIInv
    <3>3. "owner" \notin after BY <1>1, <1>5 DEF DelegationIInv, RolesAreOrderly
    <3>4. Rights(p)' = Adjusted(UNION {content'[r] : r \in after}, grants[p], revokes[p])
      BY <1>1, <2>2, <3>3 DEF Rights, Resolve, Member
    <3>5. \A r \in after : content'[r] \subseteq content[r] \cup below' /\ r \in held
      BY <1>2, <1>4, <3>1
    <3>6. Rights(p) \subseteq below' BY <1>1, <1>2, <1>5 DEF DelegationIInv, NoAccomplice
    <3> HIDE DEF held, after
    <3> QED BY <3>2, <3>4, <3>5, <3>6 DEF Adjusted
  <2> QED BY <2>1, <2>2
<1>6. OffersAreCounted'
  <2>1. \A p \in People : invited[p] # NoRole =>
          content'[invited[p]] \subseteq content[invited[p]] \cup below'
    BY <1>2, <1>4 DEF RolesInUseExist
  <2>2. \A l \in Links : linked[l] # NoRole =>
          content'[linked[l]] \subseteq content[linked[l]] \cup below'
    BY <1>2, <1>4 DEF RolesInUseExist
  <2> QED BY <1>2, <2>1, <2>2 DEF DelegationIInv, OffersAreCounted
<1> QED BY <1>3, <1>5, <1>6 DEF DelegationIInv, NoAccomplice

LEMMA HostsDelegation ==
  ASSUME AccessTypeOK, RolesInUseExist, DelegationIInv, NEW a \in People, ByHosts(a)
  PROVE  DelegationIInv'
<1> USE RightsAssumption
<1>0. MembersTypeOK /\ NoAccomplice BY DEF AccessTypeOK, DelegationIInv
<1>1. ASSUME UNCHANGED <<roleVars, memberVars>>, below \subseteq below', OffersAreCounted'
      PROVE  DelegationIInv'
  BY <1>0, <1>1, QuietDelegation DEF memberVars
<1>2. ASSUME NEW p \in People, NEW r \in Role, NEW door, EnterOnce(p, r, door),
             UNCHANGED roleVars, below \subseteq below', r # "owner" => content[r] \subseteq below',
             OffersAreCounted'
      PROVE  DelegationIInv'
  BY <1>0, <1>1, <1>2, EnterDelegation DEF EnterOnce
<1>3. ASSUME NEW p \in People, NEW r \in live, Invite(a, p, r) PROVE DelegationIInv'
  <2>1. /\ below \subseteq below' /\ (r # "owner" => content[r] \subseteq below')
        /\ r \in Role /\ UNCHANGED roleVars
    BY <1>0, <1>3, OffersCount DEF Invite, Apart, MembersTypeOK
  <2>2. OffersAreCounted'
    BY <1>3, <2>1 DEF Invite, DelegationIInv, OffersAreCounted, AccessTypeOK, roleVars
  <2> QED BY <1>1, <1>2, <1>3, <2>1, <2>2 DEF Invite
<1>4. ASSUME NEW p \in People, NEW r \in live, Approve(a, p, r) PROVE DelegationIInv'
  <2>1. /\ below \subseteq below' /\ (r # "owner" => content[r] \subseteq below')
        /\ r \in Role /\ UNCHANGED roleVars
    BY <1>0, <1>4, OffersCount DEF Approve, Apart, MembersTypeOK
  <2>2. OffersAreCounted'
    BY <1>4, <2>1 DEF Approve, DelegationIInv, OffersAreCounted, roleVars
  <2> QED BY <1>2, <1>4, <2>1, <2>2 DEF Approve
<1>5. ASSUME NEW l \in Links, NEW r \in live, NEW n, CreateLink(a, l, r, n) PROVE DelegationIInv'
  <2>1. below \subseteq below' /\ (r # "owner" => content[r] \subseteq below')
    BY <1>0, <1>5, OffersCount DEF CreateLink
  <2>2. OffersAreCounted'
    BY <1>5, <2>1 DEF CreateLink, DelegationIInv, OffersAreCounted, AccessTypeOK, roleVars
  <2> QED BY <1>1, <1>5, <2>1, <2>2 DEF CreateLink
<1>6. ASSUME NEW p \in People, RevokeInvite(a, p) \/ Reject(a, p) PROVE DelegationIInv'
  <2>1. OffersAreCounted'
    BY <1>6 DEF RevokeInvite, Reject, DelegationIInv, OffersAreCounted, AccessTypeOK, roleVars
  <2> QED BY <1>1, <1>6, <2>1 DEF RevokeInvite, Reject
<1>7. ASSUME NEW l \in Links, RevokeLink(a, l) PROVE DelegationIInv'
  <2>1. OffersAreCounted'
    BY <1>7 DEF RevokeLink, CloseLink, DelegationIInv, OffersAreCounted, AccessTypeOK, roleVars
  <2> QED BY <1>1, <1>7, <2>1 DEF RevokeLink, CloseLink
<1>8. ASSUME NEW on \in BOOLEAN, SetCode(a, on) PROVE DelegationIInv'
  <2>1. OffersAreCounted' BY <1>8 DEF SetCode, DelegationIInv, OffersAreCounted, roleVars
  <2> QED BY <1>1, <1>8, <2>1 DEF SetCode
<1> QED BY <1>3, <1>4, <1>5, <1>6, <1>7, <1>8 DEF ByHosts

LEMMA DelegationStep ==
  ASSUME AccessTypeOK, RolesInUseExist, DelegationIInv, [AccessNext]_accessVars
  PROVE  DelegationIInv'
<1> USE RightsAssumption
<1>0. MembersTypeOK BY DEF AccessTypeOK
<1>1. ASSUME UNCHANGED <<roleVars, memberVars, below, invited, linked>> PROVE DelegationIInv'
  <2>1. OffersAreCounted' BY <1>1 DEF DelegationIInv, OffersAreCounted, roleVars
  <2> QED BY <1>0, <1>1, <2>1, QuietDelegation DEF memberVars
<1>2. ASSUME NEW a \in People, ByManagers(a), UNCHANGED doorVars PROVE DelegationIInv'
  <2>1. ASSUME NEW p \in People, RemoveMember(a, p) \/ Ban(a, p) PROVE DelegationIInv'
    BY <1>0, <1>1, <1>2, <2>1, LeaveDelegation DEF RemoveMember, Ban, Expel, doorVars
  <2>2. ASSUME NEW p \in People, Lift(a, p) PROVE DelegationIInv'
    BY <1>1, <1>2, <2>2 DEF Lift, doorVars
  <2>3. ASSUME NEW p \in People, NEW r \in live, NEW g, NEW v, NEW e \in Additional(p, r),
               UpdateMember(a, p, r, e, g, v)
        PROVE  DelegationIInv'
    BY <1>0, <1>2, <2>3, UpdateDelegation
  <2> QED BY <1>2, <2>1, <2>2, <2>3 DEF ByManagers
<1>3. ASSUME NEW a, ByRoleManagers(a), UNCHANGED doorVars PROVE DelegationIInv'
  <2>1. ASSUME NEW c \in Customs, NEW caps \in RoleChoices, CreateRole(a, c, caps)
        PROVE  DelegationIInv'
    BY <1>0, <1>3, <2>1, RoleDelegation DEF CreateRole, doorVars
  <2>2. ASSUME NEW c \in Customs, NEW caps \in RoleChoices, UpdateRole(a, c, caps)
        PROVE  DelegationIInv'
    BY <1>0, <1>3, <2>2, RoleDelegation DEF UpdateRole, doorVars
  <2> QED BY <1>3, <2>1, <2>2 DEF ByRoleManagers
<1>4. ASSUME NEW a, NEW c \in Customs, DeleteRole(a, c) PROVE DelegationIInv'
  BY <1>0, <1>4, RoleDelegation DEF DeleteRole, DropRole, doorVars
<1>5. ASSUME NEW a \in People, ByHosts(a) PROVE DelegationIInv'
  BY <1>5, HostsDelegation
<1>6. ASSUME NEW p \in People, ByAnybody(p) PROVE DelegationIInv'
  <2>0. UNCHANGED roleVars /\ below' = below
    BY <1>6 DEF ByAnybody, SignIn, Ask, JoinByCode, Redeem, Apart
  <2>1. CASE SignIn(p)
    <3>1. OffersAreCounted'
      BY <2>0, <2>1 DEF SignIn, DelegationIInv, OffersAreCounted, AccessTypeOK, roleVars
    <3>2. CASE invited[p] # NoRole /\ ~Member(p)
      <4>1. invited[p] \in Role BY <3>2 DEF AccessTypeOK
      <4>2. invited[p] # "owner" => content[invited[p]] \subseteq below'
        BY <2>0, <3>2 DEF DelegationIInv, OffersAreCounted
      <4>3. Enter(p, invited[p], "invitation") BY <2>1, <3>2 DEF SignIn, EnterOnce
      <4> QED BY <1>0, <2>0, <3>1, <3>2, <4>1, <4>2, <4>3, EnterDelegation
    <3>3. CASE ~(invited[p] # NoRole /\ ~Member(p))
      BY <1>0, <2>0, <2>1, <3>1, <3>3, QuietDelegation DEF SignIn, EnterOnce, memberVars
    <3> QED BY <3>2, <3>3
  <2>2. CASE Ask(p) BY <1>1, <2>0, <2>2 DEF Ask
  <2>3. CASE JoinByCode(p)
    <3>1. OffersAreCounted'
      BY <2>0, <2>3 DEF JoinByCode, doorVars, DelegationIInv, OffersAreCounted, roleVars
    <3>2. "writer" \in Role /\ content["writer"] \subseteq below'
      BY <2>0 DEF DelegationIInv, RolesAreOrderly, Role, Builtins
    <3> QED BY <1>0, <2>0, <2>3, <3>1, <3>2, EnterDelegation DEF JoinByCode
  <2>4. ASSUME NEW l \in Links, Redeem(p, l) PROVE DelegationIInv'
    <3>1. OffersAreCounted'
      BY <2>0, <2>4 DEF Redeem, DelegationIInv, OffersAreCounted, AccessTypeOK, roleVars
    <3>2. linked[l] \in Role /\ (linked[l] # "owner" => content[linked[l]] \subseteq below')
      BY <2>0, <2>4 DEF Redeem, DelegationIInv, OffersAreCounted, AccessTypeOK
    <3> QED BY <1>0, <2>0, <2>4, <3>1, <3>2, EnterDelegation DEF Redeem
  <2> QED BY <1>6, <2>1, <2>2, <2>3, <2>4 DEF ByAnybody
<1>7. ASSUME NEW a, Archive(a) PROVE DelegationIInv' BY <1>1, <1>7 DEF Archive
<1>8. CASE ByTime
  <2>1. UNCHANGED <<roleVars, memberVars, below>>
    BY <1>8 DEF ByTime, InviteExpires, LinkExpires, CloseLink, membersVars
  <2>2. OffersAreCounted'
    BY <1>8, <2>1 DEF ByTime, InviteExpires, LinkExpires, CloseLink, DelegationIInv,
                      OffersAreCounted, AccessTypeOK, roleVars
  <2> QED BY <1>0, <2>1, <2>2, QuietDelegation DEF memberVars
<1>9. CASE ByTheRoom /\ UNCHANGED doorVars
  BY <1>1, <1>9 DEF ByTheRoom, StartTurn, EndTurn, Lapse, Admit, ApplyLive, doorVars
<1>10. CASE UNCHANGED accessVars BY <1>1, <1>10 DEF accessVars, membersVars, doorVars
<1> QED BY <1>2, <1>3, <1>4, <1>5, <1>6, <1>7, <1>8, <1>9, <1>10 DEF AccessNext, With

LEMMA DelegationInit == AccessInit => DelegationIInv
<1> SUFFICES ASSUME AccessInit PROVE DelegationIInv OBVIOUS
<1> USE RightsAssumption, MembersAssumption
<1>1. RolesAreOrderly
  BY DEF AccessInit, MembersInit, RolesAreOrderly, Role
<1>2. OffersAreCounted BY DEF AccessInit, OffersAreCounted
<1>3. ASSUME NEW p \in People, role[p] # "owner" PROVE Rights(p) \subseteq below
  <2>1. CASE ~Member(p) BY <2>1 DEF Rights
  <2>2. CASE Member(p)
    <3>1. role[p] = "writer" /\ extras[p] = {} /\ grants[p] = {} /\ "writer" \in Builtins
      BY <1>3, <2>2 DEF AccessInit, MembersInit, Member, Builtins
    <3>2. content["writer"] = below
      BY <3>1 DEF AccessInit, MembersInit, Role
    <3>3. ({role[p]} \cup extras[p]) \cap live \subseteq {"writer"} BY <3>1
    <3>4. "owner" \notin ({role[p]} \cup extras[p]) \cap live BY <3>3
    <3> QED BY <3>1, <3>2, <3>3, <3>4 DEF Rights, Resolve, Adjusted
  <2> QED BY <2>1, <2>2
<1> QED BY <1>1, <1>2, <1>3 DEF DelegationIInv, NoAccomplice

\* Nobody below an owner has a capability that no owner gave below themselves, through
\* any chain of gifts (core/permissions.py:101-108, guard_delegation).
THEOREM DelegationIsBounded == AccessSpec => []NoAccomplice
<1>1. MembershipIInv /\ DelegationIInv /\ [AccessNext]_accessVars => DelegationIInv'
  BY DelegationStep DEF MembershipIInv
<1>2. DelegationIInv => NoAccomplice BY DEF DelegationIInv
<1> QED BY <1>1, <1>2, DelegationInit, MembershipInvariant, PTL DEF AccessSpec

-----------------------------------------------------------------------------
(* The turn of who may not speak any more. *)

\* Nothing is lost: neither a cut to come, nor the speech of who had it.
LEMMA SpeechStays ==
  ASSUME MembersTypeOK, RevokedIsCut, UNCHANGED <<author, spared>>, archived => archived',
         \A q \in People : cuts[q] > 0 => cuts'[q] > 0,
         \A q \in People : Speaks(q) /\ ~Speaks(q)' => cuts'[q] > 0
  PROVE  RevokedIsCut'
BY DEF RevokedIsCut, MembersTypeOK

\* What somebody may do follows from their membership and the roles.
LEMMA SameRights ==
  ASSUME NEW q, UNCHANGED <<live, content>>, role'[q] = role[q], extras'[q] = extras[q],
         grants'[q] = grants[q], revokes'[q] = revokes[q]
  PROVE  Speaks(q)' = Speaks(q)
BY DEF Speaks, Rights, Resolve, Member

LEMMA SpeechStep ==
  ASSUME AccessTypeOK, RolesAreOrderly, RevokedIsCut, [AccessNext]_accessVars
  PROVE  RevokedIsCut'
<1> USE RightsAssumption, MembersAssumption
<1>0. MembersTypeOK BY DEF AccessTypeOK
<1>1. ASSUME UNCHANGED <<roleVars, memberVars, author, spared, cuts>>, archived => archived'
      PROVE  RevokedIsCut'
  <2>1. \A q \in People : Speaks(q)' = Speaks(q) BY <1>1, SameRights DEF roleVars, memberVars
  <2> QED BY <1>0, <1>1, <2>1, SpeechStays
<1>2. ASSUME NEW p \in People, NEW r, NEW door, ~Member(p), Enter(p, r, door),
             UNCHANGED <<roleVars, author, spared, cuts, archived>>
      PROVE  RevokedIsCut'
  <2>1. ~Speaks(p) BY <1>2 DEF Speaks, Rights
  <2>2. \A q \in People \ {p} : Speaks(q)' = Speaks(q)
    BY <1>0, <1>2, SameRights DEF Enter, roleVars, MembersTypeOK
  <2> QED BY <1>0, <1>2, <2>1, <2>2, SpeechStays
<1>3. ASSUME NEW a, NEW p \in People, RemoveMember(a, p) \/ Ban(a, p), UNCHANGED doorVars
      PROVE  RevokedIsCut'
  <2>1. UNCHANGED <<roleVars, turnVars>> /\ (Leave(p) \/ UNCHANGED memberVars)
        /\ cuts' = [cuts EXCEPT ![p] = @ + 1]
    BY <1>3 DEF RemoveMember, Ban, Expel
  <2>2. \A q \in People \ {p} : Speaks(q)' = Speaks(q)
    BY <1>0, <2>1, SameRights DEF Leave, memberVars, roleVars, MembersTypeOK
  <2>3. \A q \in People : cuts[q] > 0 => cuts'[q] > 0 BY <1>0, <2>1 DEF MembersTypeOK
  <2>4. cuts'[p] > 0 BY <1>0, <2>1 DEF MembersTypeOK
  <2> QED BY <1>0, <1>3, <2>1, <2>2, <2>3, <2>4, SpeechStays DEF turnVars, doorVars
<1>4. ASSUME NEW a, NEW p \in People, NEW r, NEW e, NEW g, NEW v, UpdateMember(a, p, r, e, g, v),
             UNCHANGED doorVars
      PROVE  RevokedIsCut'
  <2>1. \A q \in People \ {p} : Speaks(q)' = Speaks(q)
    BY <1>0, <1>4, SameRights DEF UpdateMember, roleVars, MembersTypeOK
  <2>2. \A q \in People : cuts[q] > 0 => cuts'[q] > 0
    BY <1>0, <1>4 DEF UpdateMember, MembersTypeOK
  <2>3. Speaks(p) /\ ~Speaks(p)' => cuts'[p] > 0
    <3>1. cuts[p] \in Nat BY <1>0 DEF MembersTypeOK
    <3>2. Speaks(p) /\ ~Speaks(p)' => cuts' = [cuts EXCEPT ![p] = @ + 1]
      BY <1>4 DEF UpdateMember
    <3> QED BY <1>0, <3>1, <3>2 DEF MembersTypeOK
  <2> QED BY <1>0, <1>4, <2>1, <2>2, <2>3, SpeechStays DEF UpdateMember, turnVars, doorVars
<1>5. ASSUME NEW a, NEW c \in Customs, NEW caps, CreateRole(a, c, caps), UNCHANGED doorVars
      PROVE  RevokedIsCut'
  <2>1. c \notin live BY <1>5 DEF CreateRole, RolesAreOrderly
  <2>2. ASSUME NEW q \in People, Speaks(q) PROVE Speaks(q)'
    <3> DEFINE mine == {role[q]} \cup extras[q]
    <3>1. UNCHANGED <<role, extras, grants, revokes>> /\ live' = live \cup {c}
          /\ \A r \in live : content'[r] = content[r]
      BY <1>0, <1>5, <2>1 DEF CreateRole, memberVars, MembersTypeOK
    <3>2. CASE "owner" \in mine \cap live BY <2>2, <3>1, <3>2 DEF Speaks, Rights, Resolve, Member
    <3>3. CASE "owner" \notin mine \cap live
      <4>1. "speak" \in Adjusted(UNION {content[r] : r \in mine \cap live}, grants[q], revokes[q])
        BY <2>2, <3>3 DEF Speaks, Rights, Resolve
      <4>2. UNION {content[r] : r \in mine \cap live} \subseteq UNION {content'[r] : r \in mine \cap live'}
        BY <3>1
      <4>3. "owner" \notin mine \cap live' BY <3>1, <3>3 DEF Role, Builtins
      <4>4. Member(q) BY <2>2 DEF Speaks, Rights
      <4>5. "speak" \in Adjusted(UNION {content'[r] : r \in mine \cap live'}, grants[q], revokes[q])
        BY <4>1, <4>2 DEF Adjusted
      <4> QED BY <3>1, <4>3, <4>4, <4>5 DEF Speaks, Rights, Resolve, Member
    <3> QED BY <3>2, <3>3
  <2> QED BY <1>0, <1>5, <2>2, SpeechStays DEF CreateRole, turnVars, doorVars
<1>6. ASSUME UNCHANGED <<author, cuts>>, archived => archived', spared' = (spared \/ LosesSpeech)
      PROVE  RevokedIsCut'
  <2>1. (spared => spared') /\ (LosesSpeech => spared') BY <1>6
  <2> QED BY <1>0, <1>6, <2>1 DEF RevokedIsCut, LosesSpeech, MembersTypeOK
<1>7. CASE ByTheRoom /\ UNCHANGED doorVars
  <2>0. ASSUME UNCHANGED <<roleVars, memberVars>> PROVE \A q \in People : Speaks(q)' = Speaks(q)
    BY <2>0, SameRights DEF roleVars, memberVars
  <2>1. CASE StartTurn
    <3>1. \A q \in People : Speaks(q)' = Speaks(q) BY <2>0, <2>1 DEF StartTurn
    <3>2. author' = admitted /\ cuts' = cuts /\ admitted \in People
          /\ (~Speaks(admitted) /\ cuts[admitted] = 0 => spared')
      BY <1>0, <2>1 DEF StartTurn, MembersTypeOK
    <3>3. cuts[admitted] \in Nat BY <1>0, <3>2 DEF MembersTypeOK
    <3> QED BY <3>1, <3>2, <3>3 DEF RevokedIsCut
  <2>2. CASE EndTurn BY <2>2 DEF EndTurn, RevokedIsCut
  <2>3. ASSUME NEW p \in People, Lapse(p) \/ Admit(p) PROVE RevokedIsCut'
    BY <1>1, <1>7, <2>3 DEF Lapse, Admit, turnVars, doorVars
  <2>4. ASSUME NEW p \in People, ApplyLive(p, ~archived) PROVE RevokedIsCut'
    <3>0. archived' = archived /\ cuts' = [cuts EXCEPT ![p] = @ - 1]
          /\ UNCHANGED <<roleVars, memberVars>>
      BY <1>7, <2>4 DEF ApplyLive, doorVars
    <3>1. CASE ~archived /\ TurnOf(p) BY <2>4, <3>1 DEF ApplyLive, RevokedIsCut
    <3>2. CASE ~(~archived /\ TurnOf(p))
      <4>1. UNCHANGED <<author, spared>> BY <2>4, <3>2 DEF ApplyLive
      <4>2. author # p => cuts'[author] = cuts[author] BY <1>0, <3>0 DEF MembersTypeOK
      <4>3. author = p => archived \/ author \in Labelled BY <3>2 DEF TurnOf
      <4>4. \A q \in People : Speaks(q)' = Speaks(q) BY <2>0, <3>0
      <4> QED BY <1>0, <3>0, <4>1, <4>2, <4>3, <4>4 DEF RevokedIsCut, MembersTypeOK
    <3> QED BY <3>1, <3>2
  <2> QED BY <1>7, <2>1, <2>2, <2>3, <2>4 DEF ByTheRoom
<1>8. ASSUME NEW a, Archive(a) PROVE RevokedIsCut' BY <1>8 DEF Archive, RevokedIsCut
<1>9. ASSUME NEW a, ByManagers(a), UNCHANGED doorVars PROVE RevokedIsCut'
  <2>1. ASSUME NEW p, Lift(a, p) PROVE RevokedIsCut'
    BY <1>1, <1>9, <2>1 DEF Lift, turnVars, doorVars
  <2> QED BY <1>3, <1>4, <1>9, <2>1 DEF ByManagers
<1>10. ASSUME NEW a, ByRoleManagers(a), UNCHANGED doorVars PROVE RevokedIsCut'
  BY <1>5, <1>6, <1>10 DEF ByRoleManagers, UpdateRole, doorVars
<1>11. ASSUME NEW a, NEW c, DeleteRole(a, c) PROVE RevokedIsCut'
  BY <1>6, <1>11 DEF DeleteRole, DropRole, doorVars
<1>12. ASSUME NEW a, ByHosts(a) PROVE RevokedIsCut'
  <2>1. UNCHANGED <<roleVars, author, spared, cuts, archived>>
    BY <1>12 DEF ByHosts, Invite, Approve, RevokeInvite, Reject, RevokeLink, CloseLink, CreateLink,
                 SetCode, Apart, turnVars
  <2>2. ASSUME NEW p \in People, NEW r, Invite(a, p, r) \/ Approve(a, p, r) PROVE RevokedIsCut'
    <3>1. \/ ~Member(p) /\ Enter(p, r, "invitation")
          \/ ~Member(p) /\ Enter(p, r, "request")
          \/ UNCHANGED memberVars
      BY <2>2 DEF Invite, Approve, EnterOnce
    <3>2. CASE UNCHANGED memberVars BY <1>1, <2>1, <3>2
    <3> QED BY <1>2, <2>1, <3>1, <3>2
  <2> QED BY <1>1, <1>12, <2>1, <2>2 DEF ByHosts, RevokeInvite, Reject, RevokeLink, CloseLink,
                                         CreateLink, SetCode
<1>13. ASSUME NEW p \in People, ByAnybody(p) PROVE RevokedIsCut'
  <2>1. UNCHANGED <<roleVars, author, spared, cuts, archived>>
    BY <1>13 DEF ByAnybody, SignIn, Ask, JoinByCode, Redeem, Apart, turnVars, doorVars
  <2>2. CASE SignIn(p)
    <3>1. \/ ~Member(p) /\ Enter(p, invited[p], "invitation")
          \/ UNCHANGED memberVars
      BY <2>2 DEF SignIn, EnterOnce
    <3>2. CASE UNCHANGED memberVars BY <1>1, <2>1, <3>2
    <3> QED BY <1>2, <2>1, <3>1, <3>2
  <2>3. CASE Ask(p) BY <1>1, <2>1, <2>3 DEF Ask
  <2>4. CASE JoinByCode(p) BY <1>2, <2>1, <2>4 DEF JoinByCode
  <2>5. ASSUME NEW l, Redeem(p, l) PROVE RevokedIsCut' BY <1>2, <2>1, <2>5 DEF Redeem
  <2> QED BY <1>13, <2>2, <2>3, <2>4, <2>5 DEF ByAnybody
<1>14. CASE ByTime
  BY <1>1, <1>14 DEF ByTime, InviteExpires, LinkExpires, CloseLink, membersVars, turnVars
<1>15. CASE UNCHANGED accessVars BY <1>1, <1>15 DEF accessVars, membersVars, turnVars, doorVars
<1> QED BY <1>7, <1>8, <1>9, <1>10, <1>11, <1>12, <1>13, <1>14, <1>15 DEF AccessNext, With

\* A turn whose author may not speak any more is about to be cut, outside of the cases
\* that RevokedIsCut names (members.py:228-231, apply_live).
THEOREM SpeechIsCut == AccessSpec => []RevokedIsCut
<1>1. AccessInit => RevokedIsCut BY DEF AccessInit, MembersInit, RevokedIsCut
<1>2. MembershipIInv /\ DelegationIInv /\ [AccessNext]_accessVars => DelegationIInv'
  BY DelegationStep DEF MembershipIInv
<1>3. MembershipIInv /\ DelegationIInv /\ RevokedIsCut /\ [AccessNext]_accessVars => RevokedIsCut'
  BY SpeechStep DEF MembershipIInv, DelegationIInv
<1> QED BY <1>1, <1>2, <1>3, DelegationInit, MembershipInvariant, PTL DEF AccessSpec

================================================================================
