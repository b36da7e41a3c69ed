---------------------------- MODULE ChannelAccess ----------------------------
(***************************************************************************)
(* The pure rules of onboarding's channel visibility (src/domain/            *)
(* channel-access.ts): the entries a channel should have for its audience,   *)
(* which channels count as private, and the writes that take a channel from  *)
(* its entries to the desired ones.                                         *)
(*                                                                         *)
(* A channel's overwrites give every role and member an entry; an entry      *)
(* without bits is an absent one.  "send" stands for Send Messages, Read      *)
(* Message History and Use Application Commands, "threads" for the two        *)
(* thread permissions, "attach" for Embed Links and Attach Files, and         *)
(* "manage" for Manage Permissions, Manage Channels and Connect, which        *)
(* TaruBot lifts together.                                                   *)
(***************************************************************************)
EXTENDS Naturals, FiniteSets

CONSTANTS
  Everyone,   \* the @everyone role
  Self,       \* TaruBot's own member entry
  Roles,      \* the other roles an entry may be for
  People      \* members other than TaruBot with an entry of their own

PartiesOK ==
  Everyone # Self /\ {Everyone, Self} \cap (Roles \cup People) = {} /\ Roles \cap People = {}

Ids == {Everyone, Self} \cup Roles \cup People
Bits == {"view", "send", "threads", "attach", "manage", "mention"}
Entry == [allow : SUBSET Bits, deny : SUBSET Bits]
Overwrites == [Ids -> Entry]
Neutral == [allow |-> {}, deny |-> {}]

\* accessRoles(): four distinct roles.
Access == {a \in [member : Roles, guest : Roles, officer : Roles, leader : Roles] :
             /\ a.member # a.guest /\ a.member # a.officer /\ a.member # a.leader
             /\ a.guest # a.officer /\ a.guest # a.leader /\ a.officer # a.leader}
Staff(a) == {a.officer, a.leader}
Joined(a) == {a.member, a.guest}
Audiences == {"lobby", "members", "officers"}

-----------------------------------------------------------------------------
(* Discord's arithmetic, for a member with the roles held and the entry own *)

Over(bits, entry) == (bits \ entry.deny) \cup entry.allow
RolesEntry(held, ows) ==
  [allow |-> UNION {ows[r].allow : r \in held}, deny |-> UNION {ows[r].deny : r \in held}]
Permissions(base, held, own, ows) ==
  Over(Over(Over(base, ows[Everyone]), RolesEntry(held, ows)), ows[own])
Sees(base, held, own, ows) == "view" \in Permissions(base, held, own, ows)
\* permissionsFor(role): what a holder of just that role sees.
RoleSees(base, held, ows) ==
  "view" \in Over(Over(base, ows[Everyone]), RolesEntry(held, ows))

-----------------------------------------------------------------------------
(* channelAccessOverwrites() *)

Set(entry, allow, deny) ==
  [allow |-> (entry.allow \ deny) \cup allow, deny |-> (entry.deny \ allow) \cup deny]
Hidden(entry) == [allow |-> entry.allow \ {"view"}, deny |-> entry.deny \ {"view"}]
LobbyChat == {"view", "send"}
Granted(a, audience, id) ==
  IF id = Everyone THEN IF audience = "lobby" THEN LobbyChat ELSE {}
  ELSE IF id \in Joined(a) THEN IF audience = "members" THEN {"view"} ELSE {}
  ELSE IF id \in Staff(a) THEN IF audience = "members" THEN {"view"} ELSE LobbyChat
  ELSE IF id = Self THEN {"view", "send", "attach"}
  ELSE {}
Refused(a, audience, id) ==
  IF id = Everyone THEN IF audience = "lobby" THEN {"threads"} ELSE {"view"}
  ELSE IF id \in Joined(a) /\ audience # "members" THEN {"view"}
  ELSE {}
Lift(id, entry) == IF id = Self THEN [allow |-> entry.allow, deny |-> entry.deny \ {"manage"}] ELSE entry
DesiredEntry(a, audience, id, entry) ==
  Lift(id, Set(Hidden(entry), Granted(a, audience, id), Refused(a, audience, id)))
Desired(a, audience, ows) == [id \in Ids |-> DesiredEntry(a, audience, id, ows[id])]
Settled(a, audience, ows) == ows = Desired(a, audience, ows)

-----------------------------------------------------------------------------
(* initiallyStaffOnly() *)

VisibleTo(a, base, ows) ==
  RoleSees(base, {}, ows) \/ RoleSees(base, {a.member}, ows) \/ RoleSees(base, {a.guest}, ows)
Marked(ows) == \E id \in Ids : "view" \in ows[id].allow \cup ows[id].deny
InitiallyStaffOnly(a, base, ows, alreadyEnabled, staffParent) ==
  staffParent \/ (~VisibleTo(a, base, ows) /\ (~alreadyEnabled \/ Marked(ows)))

-----------------------------------------------------------------------------
(* overwriteWrites(): TaruBot's own entry, then the meets, then the rest *)

Meet(x, y) ==
  LET allow == x.allow \cap y.allow
  IN  [allow |-> allow, deny |-> (x.deny \cup y.deny) \ allow]
Changed(from, to) == {id \in Ids : from[id] # to[id]}
\* What is written, one entry at a time and by ID within each step.
OwnWrites(from, to) == Changed(from, to) \cap {Self}
MeetWrites(from, to) == {id \in Changed(from, to) \ {Self} : Meet(from[id], to[id]) # from[id]}
FinalWrites(from, to) == {id \in Changed(from, to) \ {Self} : Meet(from[id], to[id]) # to[id]}
\* The channel after the writes of done, in the second and in the third step.
Closing(from, to, done) ==
  [id \in Ids |-> IF id = Self THEN to[id] ELSE IF id \in done THEN Meet(from[id], to[id]) ELSE from[id]]
Opening(from, to, done) ==
  [id \in Ids |-> IF id \in done \cup {Self} THEN to[id] ELSE Meet(from[id], to[id])]

=============================================================================
