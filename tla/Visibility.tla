------------------------------ MODULE Visibility ------------------------------
(***************************************************************************)
(* The pure rules of src/domain/visibility.ts and src/domain/permissions.ts: *)
(* what TaruBot could see once Administrator is off, how each channel is     *)
(* judged, what the report counts, and which entries /setup overrides would  *)
(* write.                                                                    *)
(*                                                                         *)
(* A permission is a member of Bits.  "send" stands for the posting          *)
(* permissions besides viewing and history, "manage" for Manage Permissions, *)
(* Manage Channels and Create Invite, which always go together in a mask.    *)
(* Overwrites are a function from the roles and members with an entry to the *)
(* entry.  Display order, names and voice channels are left out: every       *)
(* channel is a category or a text channel.                                  *)
(***************************************************************************)
EXTENDS Naturals, FiniteSets

CONSTANTS
  Self,      \* TaruBot's own member entry
  Everyone,  \* the @everyone role
  None       \* no parent, no role, no target

Apart == Self # Everyone

Bits == {"view", "send", "history", "manage", "connect", "mention"}
Neutral == [allow |-> {}, deny |-> {}]
Synthetic == [p \in {Everyone} |-> [allow |-> {}, deny |-> {"view"}]]
PostingBits == {"view", "send", "history"}
CoreBits == {"view", "send", "history", "manage"}
OnboardingBits == {"manage", "connect"}
DenyMask == {"history", "manage"}
VoiceMask == DenyMask \cup {"connect"}

-----------------------------------------------------------------------------
(* Discord's permission arithmetic, as if Administrator were off *)

EntryOf(ows, p) == IF p \in DOMAIN ows THEN ows[p] ELSE Neutral
Over(bits, entry) == (bits \ entry.deny) \cup entry.allow
\* asIfRoles(): a shared role granting Administrator is dropped whole.
AsIfRoles(g) == {r \in g.held : r = g.botRole \/ "administrator" \notin g.perms[r]}
GuildBits(g, roles) == UNION {g.perms[r] : r \in roles \cup {Everyone}} \ {"administrator"}
RolesEntry(g, ows) ==
  [allow |-> UNION {EntryOf(ows, r).allow : r \in AsIfRoles(g) \ {Everyone}},
   deny |-> UNION {EntryOf(ows, r).deny : r \in AsIfRoles(g) \ {Everyone}}]
ChannelBits(g, base, ows) ==
  Over(Over(Over(base, EntryOf(ows, Everyone)), RolesEntry(g, ows)), EntryOf(ows, Self))
Perms(g, ows) == ChannelBits(g, GuildBits(g, AsIfRoles(g)), ows)

-----------------------------------------------------------------------------
(* judge(): one channel's state *)

Unreadable(ch) == ch.obfuscated \/ (~ch.fetched /\ ch.overwrites = Synthetic)
Category(g, k) == k \in DOMAIN g.channels /\ g.channels[k].category
Need(s, c) == IF c \in s.posting THEN PostingBits ELSE {"view"}
Deliberate(g, s, c, ch) ==
  IF Unreadable(ch) THEN c \in s.recorded
  ELSE /\ "view" \notin Perms(g, ch.overwrites)
       /\ \E p \in {Self, g.botRole} : "view" \in EntryOf(ch.overwrites, p).deny
OwnState(g, s, c, ch) ==
  IF ~Unreadable(ch) /\ Need(s, c) \subseteq Perms(g, ch.overwrites)
  THEN IF c \in s.configured /\ "history" \in EntryOf(ch.overwrites, Self).deny THEN "masked" ELSE "visible"
  ELSE IF Deliberate(g, s, c, ch) THEN IF c \in s.configured THEN "denied" ELSE "hidden"
  ELSE "missing"
\* A category's deny reaches the unconfigured children with no TaruBot entry.
ViaCategory(g, s, c, ch) ==
  /\ c \notin s.configured /\ {Self, g.botRole} \cap DOMAIN ch.overwrites = {}
  /\ ~ch.category /\ Category(g, ch.parent)
  /\ OwnState(g, s, ch.parent, g.channels[ch.parent]) = "hidden"
State(g, s, c, ch) ==
  LET own == OwnState(g, s, c, ch)
  IN  IF own = "missing" /\ ViaCategory(g, s, c, ch) THEN "hidden" ELSE own
StateIn(g, s, c) == State(g, s, c, g.channels[c])

-----------------------------------------------------------------------------
(* analyseVisibility(): the report *)

\* A missing category that holds a configured channel is left to the owner.
Private(g, s) ==
  IF s.onboarding THEN {}
  ELSE {k \in DOMAIN g.channels :
          /\ Category(g, k) /\ StateIn(g, s, k) = "missing"
          /\ \E c \in s.configured \cap DOMAIN g.channels : g.channels[c].parent = k}
InPrivate(g, s) == {c \in DOMAIN g.channels : g.channels[c].parent \in Private(g, s)}
Being(g, s, states) == {c \in DOMAIN g.channels \ Private(g, s) : StateIn(g, s, c) \in states}
HiddenOnPurpose(g, s) == Being(g, s, {"hidden"})
DeniedSet(g, s) == Being(g, s, {"denied"})
MissingCount(g, s) ==
  IF s.onboarding THEN 0
  ELSE Cardinality(Being(g, s, {"missing", "masked", "denied"})) + Cardinality(Private(g, s))

\* Onboarding's own pass writes every channel but the updates channel and its category.
Excluded(g) ==
  IF g.updates \notin DOMAIN g.channels THEN {g.updates} ELSE {g.updates, g.channels[g.updates].parent}
BlocksOnboarding(ch) == "manage" \in EntryOf(ch.overwrites, Self).deny
Unreached(g, s) == {c \in DOMAIN g.channels : StateIn(g, s, c) \notin {"visible", "masked"}}
Pending(g, s) ==
  LET managed == {c \in DOMAIN g.channels \ Excluded(g) : c \in Unreached(g, s) \/ BlocksOnboarding(g.channels[c])}
  IN  IF s.onboarding THEN managed \cup (Unreached(g, s) \cap Excluded(g) \cap s.configured) ELSE {}

\* roleOrder(): the roles TaruBot must manage and does not stand above.
Highest(g, roles) == {r \in roles \cup {Everyone} : \A q \in roles \cup {Everyone} : g.rank[q] <= g.rank[r]}
NotBelow(g, s, roles) ==
  {r \in (s.access \cup (s.retired \cap g.heldByOthers)) \cap DOMAIN g.rank :
     \A h \in Highest(g, roles) : g.rank[r] >= g.rank[h]}
ThroughShared(g, s) == NotBelow(g, s, AsIfRoles(g)) \ NotBelow(g, s, g.held)
AdministratorHeld(g) == \E r \in g.held \cup {Everyone} : "administrator" \in g.perms[r]
RoleProblem(g, s) ==
  \/ ~((CoreBits \cup IF s.onboarding THEN OnboardingBits ELSE {}) \subseteq GuildBits(g, AsIfRoles(g)))
  \/ ThroughShared(g, s) # {}
AdministratorNeeded(g, s) ==
  AdministratorHeld(g) /\ (MissingCount(g, s) > 0 \/ Pending(g, s) # {} \/ RoleProblem(g, s))

\* officerPing(): whether mod mail's mention of the Officer role notifies anyone.
OfficerPing(g, c, mentionable) ==
  LET ch == g.channels[c]
      base == GuildBits(g, AsIfRoles(g))
      bits == Perms(g, ch.overwrites)
  IN  CASE c \notin DOMAIN g.channels -> "missing"
        [] Unreadable(ch) \/ ~(PostingBits \subseteq bits) ->
             IF AdministratorHeld(g) THEN "administrator" ELSE "cannot_post"
        [] mentionable -> "mentionable"
        [] "mention" \in ChannelBits(g, base \ {"mention"}, ch.overwrites) -> "allowed"
        [] "mention" \in bits -> "server_wide"
        [] OTHER -> IF AdministratorHeld(g) THEN "administrator" ELSE "silent"

-----------------------------------------------------------------------------
(* targetOf() and planOverrides(): the entries to write *)

NoInherit == [parent |-> None, before |-> Synthetic, after |-> Neutral]
\* sameOverwriteSet(): an @everyone entry with no bits counts as none.
Shown(ows) == [p \in {p \in DOMAIN ows : ~(p = Everyone /\ ows[p] = Neutral)} |-> ows[p]]
SameOverwrites(a, b) == Shown(a) = Shown(b)

Untouchable(g, s, c, ch) ==
  \/ Unreadable(ch) \/ State(g, s, c, ch) \notin {"missing", "masked"}
  \/ {c, ch.parent} \cap Private(g, s) # {}
Copies(s, c, ch, inherit) ==
  inherit.parent # None /\ inherit.parent = ch.parent /\ c \notin s.configured /\ SameOverwrites(ch.overwrites, inherit.before)
OwnWrite(g, s, c, ch) ==
  LET b == EntryOf(ch.overwrites, Self)
      granted == IF State(g, s, c, ch) = "masked" THEN {} ELSE Need(s, c) \ Perms(g, ch.overwrites)
      mask == IF ch.category THEN VoiceMask ELSE DenyMask
  IN  IF c \in s.configured
      THEN [allow |-> b.allow \cup granted, deny |-> (b.deny \ granted) \ {"history"}]
      ELSE [allow |-> (b.allow \cup granted) \ mask, deny |-> (b.deny \ granted) \cup mask]
Target(g, s, c, ch, inherit) ==
  IF Copies(s, c, ch, inherit) THEN inherit.after ELSE OwnWrite(g, s, c, ch)
With(ows, entry) == [p \in DOMAIN ows \cup {Self} |-> IF p = Self THEN entry ELSE ows[p]]
Written(ch, entry) ==
  [category |-> ch.category, parent |-> ch.parent, overwrites |-> With(ch.overwrites, entry),
   obfuscated |-> ch.obfuscated, fetched |-> ch.fetched]

\* resumeInherit(): a category an interrupted run wrote lends its entry again.
Without(ows, p) == [q \in DOMAIN ows \ {p} |-> ows[q]]
\* A mutant: nothing is resumed.
ResumeNothing(g, s, k, ch) == NoInherit
Resume(g, s, k, ch) ==
  LET e == EntryOf(ch.overwrites, Self)
  IN  IF /\ ch.category /\ ~Unreadable(ch) /\ State(g, s, k, ch) = "visible"
         /\ Self \in DOMAIN ch.overwrites /\ "view" \in e.allow /\ VoiceMask \subseteq e.deny
      THEN [parent |-> k, before |-> Without(ch.overwrites, Self), after |-> e]
      ELSE NoInherit

Wanted(g, s) == {c \in DOMAIN g.channels : ~Untouchable(g, s, c, g.channels[c])}
InheritFor(g, s, c) ==
  LET k == g.channels[c].parent
  IN  IF g.channels[c].category \/ k \notin DOMAIN g.channels THEN NoInherit
      ELSE IF k \in Wanted(g, s)
           THEN [parent |-> k, before |-> g.channels[k].overwrites, after |-> OwnWrite(g, s, k, g.channels[k])]
           ELSE Resume(g, s, k, g.channels[k])
Planned(g, s) ==
  [c \in Wanted(g, s) |->
     [after |-> Target(g, s, c, g.channels[c], InheritFor(g, s, c)),
      copies |-> Copies(s, c, g.channels[c], InheritFor(g, s, c))]]

\* readBack(): what Discord stored against what was sent.
ReadBack(after, got) ==
  IF ~(after.allow \subseteq got.allow) \/ got.deny \cap after.allow # {} \/ got.allow \cap after.deny # {} THEN "fail"
  ELSE IF got = after THEN "pass" ELSE "normalized"
===============================================================================
