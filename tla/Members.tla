-------------------------------- MODULE Members --------------------------------
(***************************************************************************)
(* The members of one room and what they may do: roles (server/api/         *)
(* roles.py), members (server/api/members.py), exclusions (server/api/      *)
(* bans.py), and the turn of somebody who loses the right to speak          *)
(* (apply_live, server/room.py, server/agentlink.py).                       *)
(*                                                                         *)
(* A handler reads and writes the database without awaiting, so each is one *)
(* action; what it does after the commit, in apply_live, is another: the    *)
(* publication it awaits first suspends with Redis.  Invites adds the ways  *)
(* in, and composes the two.                                                *)
(***************************************************************************)
EXTENDS Rights

CONSTANTS People, NoOne,
          Creator,        \* who created the room
          Labelled,       \* the people whose label is not their handle
          ExtraChoices,   \* the sets of additional roles a call may name
          AdjustChoices,  \* the sets of grants, and of revokes, a call may name
          RoleChoices,    \* the sets of capabilities a custom role may be given
          MaxCalls        \* calls of the API in a behaviour

ASSUME MembersAssumption ==
  /\ NoOne \notin People /\ Creator \in People /\ Labelled \subseteq People
  /\ ExtraChoices \subseteq SUBSET Role
  /\ AdjustChoices \subseteq SUBSET Capability
  /\ RoleChoices \subseteq SUBSET Capability
  /\ MaxCalls \in Nat

VARIABLES
  live, used,      \* the roles that exist, and the custom ones that ever did
  content,         \* what each holds
  role,            \* the primary role of each person, NoRole outside the room
  extras,          \* the additional roles of each, by identifier, which may be stale
  grants, revokes, \* the adjustments of each
  ban,             \* "none", "active", or "lapsed": the row of a ban outlives it
  admitted,        \* whose prompt was accepted and is not yet with the agent
  author,          \* whose turn the agent runs
  cuts,            \* calls of apply_live that took away the speech of each person,
                   \* suspended before they look at the turn
  calls,           \* calls of the API so far
  came,            \* history: the door each member came through
  below,           \* history: what owners gave to others than owners, what a
                   \* custom role was changed to, and what the code gives
  spared           \* history: the turn was no longer to be found when its author
                   \* lost the right, or nothing looked for it

roleVars == <<live, used, content>>
memberVars == <<role, extras, grants, revokes, came>>
turnVars == <<admitted, author, spared>>
membersVars == <<roleVars, memberVars, turnVars, ban, cuts, calls, below>>

Member(p) == role[p] # NoRole

\* effective: identifiers of roles that are gone are ignored.
Rights(p) ==
  IF Member(p)
    THEN Resolve(content, ({role[p]} \cup extras[p]) \cap live, grants[p], revokes[p])
    ELSE {}

Speaks(p) == "speak" \in Rights(p)

MembersTypeOK ==
  /\ Builtins \subseteq live /\ live \subseteq Role /\ used \subseteq Customs
  /\ content \in [Role -> SUBSET Capability]
  /\ role \in [People -> Role \cup {NoRole}]
  /\ extras \in [People -> SUBSET Role]
  /\ grants \in [People -> SUBSET Capability]
  /\ revokes \in [People -> SUBSET Capability]
  /\ ban \in [People -> {"none", "active", "lapsed"}]
  /\ admitted \in People \cup {NoOne} /\ author \in People \cup {NoOne}
  /\ cuts \in [People -> Nat]
  /\ calls \in 0..MaxCalls
  /\ came \in [People -> {"none", "created", "code", "invitation", "link", "request"}]
  /\ below \subseteq Capability
  /\ spared \in BOOLEAN

\* create_room: the builtin roles, and its creator as owner; some have joined since
\* with the code.
MembersInit ==
  /\ live = Builtins /\ used = {}
  /\ content = [r \in Role |-> IF r \in Builtins THEN Template[r] ELSE {}]
  /\ \E joined \in SUBSET (People \ {Creator}) :
       /\ role = [p \in People |-> IF p = Creator THEN "owner"
                                  ELSE IF p \in joined THEN "writer" ELSE NoRole]
       /\ came = [p \in People |-> IF p = Creator THEN "created"
                                  ELSE IF p \in joined THEN "code" ELSE "none"]
  /\ extras = [p \in People |-> {}]
  /\ grants = [p \in People |-> {}] /\ revokes = [p \in People |-> {}]
  /\ ban = [p \in People |-> "none"]
  /\ admitted = NoOne /\ author = NoOne /\ spared = FALSE
  /\ cuts = [p \in People |-> 0]
  /\ calls = 0
  /\ below = Template["writer"]

-----------------------------------------------------------------------------
(* What the handlers share. *)

\* A call of the API, of which there are MaxCalls.
Call == calls < MaxCalls /\ calls' = calls + 1

\* Who has a capability.
With(capability) == {a \in People : capability \in Rights(a)}

\* room_access: the caller is a member who has the capability.
Acts(a, capability) == Call /\ a \in With(capability)

\* Faulty variant: the last owner is not looked for.
NeverTheLast(p) == FALSE

\* owner_count(...) <= 1 for an owner.
LastOwner(p) == role[p] = "owner" /\ \A q \in People : role[q] = "owner" => q = p

\* What an owner gives to others than owners.
Gives(a, caps) == below' = IF Rights(a) = Capability THEN below \cup caps ELSE below

\* A membership is created: nothing of a former one remains.
Enter(p, r, door) ==
  /\ role' = [role EXCEPT ![p] = r]
  /\ came' = [came EXCEPT ![p] = door]
  /\ UNCHANGED <<extras, grants, revokes>>

\* The membership is deleted.
Leave(p) ==
  /\ role' = [role EXCEPT ![p] = NoRole]
  /\ extras' = [extras EXCEPT ![p] = {}]
  /\ grants' = [grants EXCEPT ![p] = {}]
  /\ revokes' = [revokes EXCEPT ![p] = {}]
  /\ came' = [came EXCEPT ![p] = "none"]

-----------------------------------------------------------------------------
(* Members and exclusions. *)

\* Faulty variant: only the role that is asked for has to be delegable.
RoleAskedFor(p, r) == content[r]

\* What a call leaves a person with, grants included.
LeftWith(p, r) == Rights(p)'

\* _resoudre_extras: the additional roles exist, ownership is none, and the primary
\* role is left out; those that are not given stay as they are.
Additional(p, r) == {extras[p]} \cup {e \ {r} : e \in {x \in ExtraChoices : x \subseteq live \ {"owner"}}}

\* update_member: a change of role, additional roles and adjustments, judged by
\* what it leaves the person with.  A field that is not given keeps its value
\* (Additional has what the additional roles may become).
UpdateMember(a, p, r, e, g, v) ==
  /\ Acts(a, "members")
  /\ Member(p) /\ MayTouch(Rights(a), Rights(p))
  /\ LastOwner(p) => r = "owner"
  /\ UNCHANGED <<roleVars, turnVars, ban, came>>
  /\ role' = [role EXCEPT ![p] = r]
  /\ extras' = [extras EXCEPT ![p] = e]
  /\ grants' = [grants EXCEPT ![p] = g]
  /\ revokes' = [revokes EXCEPT ![p] = v]
  /\ MayConfer(Rights(a), LeftWith(p, r))
  /\ IF r = "owner" THEN UNCHANGED below ELSE Gives(a, Rights(p)')
  /\ cuts' = IF Speaks(p) /\ ~Speaks(p)' THEN [cuts EXCEPT ![p] = @ + 1] ELSE cuts

\* remove_member: expels somebody, or leaves.
RemoveMember(a, p) ==
  /\ Acts(a, "members")
  /\ Member(p) /\ MayTouch(Rights(a), Rights(p))
  /\ ~LastOwner(p)
  /\ Leave(p)
  /\ cuts' = [cuts EXCEPT ![p] = @ + 1]
  /\ UNCHANGED <<roleVars, turnVars, ban, below>>

\* Faulty variant: a ban leaves the membership.
Stay(a, p) == UNCHANGED memberVars

\* Who is a member is expelled by their ban.
Expel(a, p) ==
  IF Member(p)
    THEN MayTouch(Rights(a), Rights(p)) /\ ~LastOwner(p) /\ Leave(p)
    ELSE UNCHANGED memberVars

\* bannir: writes the exclusion, or renews it.
Ban(a, p) ==
  /\ Acts(a, "members") /\ a # p
  /\ Expel(a, p)
  /\ ban' = [ban EXCEPT ![p] = "active"]
  /\ cuts' = [cuts EXCEPT ![p] = @ + 1]
  /\ UNCHANGED <<roleVars, turnVars, below>>

\* lever: deletes the row; the person has to come back by a door.
Lift(a, p) ==
  /\ Acts(a, "members")
  /\ ban[p] # "none"
  /\ ban' = [ban EXCEPT ![p] = "none"]
  /\ UNCHANGED <<roleVars, memberVars, turnVars, cuts, below>>

\* The end of a temporary ban passes.
Lapse(p) ==
  /\ ban[p] = "active"
  /\ ban' = [ban EXCEPT ![p] = "lapsed"]
  /\ UNCHANGED <<roleVars, memberVars, turnVars, cuts, calls, below>>

-----------------------------------------------------------------------------
(* Roles. *)

\* A change of role takes their speech from whose turn runs: nothing cuts it.
LosesSpeech == author # NoOne /\ Speaks(author) /\ ~Speaks(author)'

\* create_role.
CreateRole(a, c, caps) ==
  /\ Acts(a, "roles")
  /\ c \in Customs \ used
  /\ live' = live \cup {c} /\ used' = used \cup {c}
  /\ content' = [content EXCEPT ![c] = caps]
  /\ UNCHANGED <<memberVars, turnVars, ban, cuts, below>>

\* update_role: nobody looks at what its holders gain or lose.
UpdateRole(a, c, caps) ==
  /\ Acts(a, "roles")
  /\ c \in live \ Builtins
  /\ content' = [content EXCEPT ![c] = caps]
  /\ below' = below \cup caps
  /\ UNCHANGED <<live, used, memberVars, admitted, author, ban, cuts>>
  /\ spared' = (spared \/ LosesSpeech)

\* delete_role: not while it is somebody's primary role; what offers it is looked
\* at by Invites.  Who has it as an additional role keeps a stale identifier.
DropRole(c) ==
  /\ c \in live \ Builtins
  /\ \A p \in People : role[p] # c
  /\ live' = live \ {c}
  /\ UNCHANGED <<used, content, memberVars, admitted, author, ban, cuts, below>>
  /\ spared' = (spared \/ LosesSpeech)

-----------------------------------------------------------------------------
(* The turn of a member. *)

\* A prompt is received: the rights are read, the floor begins its turn, and the
\* announcement of that is awaited.
Admit(p) ==
  /\ Speaks(p) /\ admitted = NoOne /\ author = NoOne
  /\ admitted' = p
  /\ UNCHANGED <<roleVars, memberVars, author, spared, ban, cuts, calls, below>>

\* The task of the turn gives it to the agent, under the label of its author.
StartTurn ==
  /\ admitted # NoOne
  /\ author' = admitted /\ admitted' = NoOne
  /\ spared' = (~Speaks(admitted) /\ cuts[admitted] = 0)
  /\ UNCHANGED <<roleVars, memberVars, ban, cuts, calls, below>>

EndTurn ==
  /\ author # NoOne
  /\ author' = NoOne /\ spared' = FALSE
  /\ UNCHANGED <<roleVars, memberVars, admitted, ban, cuts, calls, below>>

\* Faulty variant: the author of the turn is never recognised.
NoTurnOf(p) == FALSE

\* The turn that apply_live finds is one of this person's: the label the agent was
\* given is compared with the handle.
TurnOf(p) == author = p /\ p \notin Labelled

\* apply_live, after its publication: the turn is cut; a room that is not mounted
\* is left alone.
ApplyLive(p, mounted) ==
  /\ cuts[p] > 0
  /\ cuts' = [cuts EXCEPT ![p] = @ - 1]
  /\ IF mounted /\ TurnOf(p)
       THEN author' = NoOne /\ spared' = FALSE
       ELSE UNCHANGED <<author, spared>>
  /\ UNCHANGED <<roleVars, memberVars, admitted, ban, calls, below>>

=============================================================================
