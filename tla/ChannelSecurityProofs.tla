------------------------ MODULE ChannelSecurityProofs ------------------------
(***************************************************************************)
(* Proofs about ChannelAccess and ChannelSecurity: the rules of channel    *)
(* visibility and the writes that carry them out, type correctness, and    *)
(* that a pass that succeeded left nothing open and wrote nothing that was *)
(* more open than before or after.  Then about Visibility and Overrides:   *)
(* what one write of /setup overrides achieves, and what whole runs of it  *)
(* do among the edits of others: denies stand and stay recorded, and what  *)
(* a successful run leaves is synced and repaired.  At the end, about      *)
(* RosterSync as MCOverridesRoster runs it: who an accepted roster says is *)
(* missing.                                                                *)
(***************************************************************************)
EXTENDS MCOverridesRoster, WellFoundedInduction, SequenceTheorems, TLAPS

-----------------------------------------------------------------------------
(* What the rules promise *)

\* x grants nothing that y does not.
Tighter(x, y) == x.allow \subseteq y.allow /\ y.deny \subseteq x.deny \cup x.allow

\* Between two entries the meet grants no more than either.
LEMMA MeetIsTighter ==
  ASSUME NEW x \in Entry, NEW y \in Entry
  PROVE  Meet(x, y) \in Entry /\ Tighter(Meet(x, y), x) /\ Tighter(Meet(x, y), y)
BY DEF Meet, Tighter, Entry

\* Discord's arithmetic is monotone: tighter entries grant fewer permissions.
LEMMA TighterGrantsLess ==
  ASSUME PartiesOK, NEW tight \in Overwrites, NEW wide \in Overwrites, NEW held \in SUBSET Roles,
         NEW own \in Ids, NEW base \in SUBSET Bits,
         \A id \in Ids \ {Self} : Tighter(tight[id], wide[id]), own # Self
  PROVE  Permissions(base, held, own, tight) \subseteq Permissions(base, held, own, wide)
<1>0. Everyone # Self /\ Everyone \in Ids /\ held \subseteq Ids \ {Self}
  BY DEF PartiesOK, Ids
<1>1. \A id \in Ids : tight[id].allow \subseteq Bits /\ tight[id].deny \subseteq Bits
                      /\ wide[id].allow \subseteq Bits /\ wide[id].deny \subseteq Bits
  BY DEF Overwrites, Entry
<1>2. \A few, many \in SUBSET Bits : few \subseteq many =>
        \A id \in Ids \ {Self} : Over(few, tight[id]) \subseteq Over(many, wide[id])
  BY DEF Over, Tighter
<1>3. \A id \in Ids, bits \in SUBSET Bits :
        Over(bits, tight[id]) \in SUBSET Bits /\ Over(bits, wide[id]) \in SUBSET Bits
  BY <1>1 DEF Over
<1>4. \A few, many \in SUBSET Bits : few \subseteq many =>
        /\ Over(few, RolesEntry(held, tight)) \subseteq Over(many, RolesEntry(held, wide))
        /\ Over(few, RolesEntry(held, tight)) \in SUBSET Bits
        /\ Over(many, RolesEntry(held, wide)) \in SUBSET Bits
  <2> TAKE few, many \in SUBSET Bits
  <2> HAVE few \subseteq many
  <2>1. /\ \A p : p \in RolesEntry(held, tight).allow <=> \E r \in held : p \in tight[r].allow
        /\ \A p : p \in RolesEntry(held, tight).deny <=> \E r \in held : p \in tight[r].deny
        /\ \A p : p \in RolesEntry(held, wide).allow <=> \E r \in held : p \in wide[r].allow
        /\ \A p : p \in RolesEntry(held, wide).deny <=> \E r \in held : p \in wide[r].deny
    BY DEF RolesEntry
  <2>2. /\ RolesEntry(held, tight).allow \subseteq RolesEntry(held, wide).allow
        /\ RolesEntry(held, wide).deny \subseteq RolesEntry(held, tight).deny \cup RolesEntry(held, tight).allow
    BY <1>0, <2>1 DEF Tighter
  <2>3. RolesEntry(held, tight).allow \subseteq Bits /\ RolesEntry(held, wide).allow \subseteq Bits
    BY <1>0, <1>1, <2>1
  <2> QED BY <2>2, <2>3 DEF Over
<1> DEFINE few == Over(base, tight[Everyone])
           many == Over(base, wide[Everyone])
<1>5. few \in SUBSET Bits /\ many \in SUBSET Bits /\ few \subseteq many
  BY <1>0, <1>2, <1>3
<1> DEFINE less == Over(few, RolesEntry(held, tight))
           more == Over(many, RolesEntry(held, wide))
<1>6. less \in SUBSET Bits /\ more \in SUBSET Bits /\ less \subseteq more
  BY <1>4, <1>5
<1>7. Over(less, tight[own]) \subseteq Over(more, wide[own])
  <2> HIDE DEF less, more
  <2> QED BY <1>2, <1>6
<1> QED BY <1>7 DEF Permissions

\* "No state in between is more open than the channel before or after the pass", for
\* every member but TaruBot: while the entries are closed nobody gets what they had
\* not before, and while they are opened nobody gets what they will not have after.
THEOREM NeverMoreOpen ==
  ASSUME PartiesOK, NEW from \in Overwrites, NEW to \in Overwrites, NEW done \in SUBSET Ids,
         NEW base \in SUBSET Bits, NEW held \in SUBSET Roles, NEW own \in People
  PROVE  /\ Permissions(base, held, own, Closing(from, to, done)) \subseteq Permissions(base, held, own, from)
         /\ Permissions(base, held, own, Opening(from, to, done)) \subseteq Permissions(base, held, own, to)
<1>1. \A id \in Ids : from[id] \in Entry /\ to[id] \in Entry
  BY DEF Overwrites
<1>2. Closing(from, to, done) \in Overwrites /\ Opening(from, to, done) \in Overwrites
  BY <1>1, MeetIsTighter DEF Closing, Opening, Overwrites
<1>3. \A x \in Entry : Tighter(x, x)
  BY DEF Tighter
<1>4. \A id \in Ids \ {Self} : /\ Tighter(Closing(from, to, done)[id], from[id])
                               /\ Tighter(Opening(from, to, done)[id], to[id])
  BY <1>1, <1>3, MeetIsTighter DEF Closing, Opening
<1>5. own \in Ids /\ own # Self
  BY DEF PartiesOK, Ids
<1> QED BY <1>2, <1>4, <1>5, TighterGrantsLess

\* A pass over a channel that is as desired changes nothing, so the readback and the
\* pass that TaruBot's own channel events queue come to rest.
THEOREM DesiredIsStable ==
  ASSUME PartiesOK, NEW a \in Access, NEW audience \in Audiences, NEW ows \in Overwrites
  PROVE  Desired(a, audience, ows) \in Overwrites /\ Settled(a, audience, Desired(a, audience, ows))
<1>1. \A id \in Ids : /\ Granted(a, audience, id) \in SUBSET Bits /\ Refused(a, audience, id) \in SUBSET Bits
                      /\ Granted(a, audience, id) \cap Refused(a, audience, id) = {}
                      /\ "view" \in Refused(a, audience, id) => "view" \notin Granted(a, audience, id)
  BY DEF PartiesOK, Granted, Refused, LobbyChat, Bits, Access, Audiences, Joined, Staff
<1>2. \A id \in Ids : ows[id].allow \in SUBSET Bits /\ ows[id].deny \in SUBSET Bits
  BY DEF Overwrites, Entry
<1>3. ASSUME NEW id \in Ids, NEW x \in Entry
      PROVE  /\ DesiredEntry(a, audience, id, x) \in Entry
             /\ DesiredEntry(a, audience, id, DesiredEntry(a, audience, id, x)) = DesiredEntry(a, audience, id, x)
  <2> DEFINE g == Granted(a, audience, id)
             r == Refused(a, audience, id)
             y == Set(Hidden(x), g, r)
  <2>1. g \in SUBSET Bits /\ r \in SUBSET Bits /\ g \cap r = {}
    BY <1>1
  <2> HIDE DEF g, r
  <2>2. /\ y.allow = ((x.allow \ {"view"}) \ r) \cup g /\ y.deny = ((x.deny \ {"view"}) \ g) \cup r
        /\ y \in Entry
    BY <2>1 DEF Set, Hidden, Entry
  <2>3. Set(Hidden(y), g, r) = y
    BY <2>1, <2>2 DEF Set, Hidden, Entry
  <2>4. CASE id # Self
    BY <2>2, <2>3, <2>4 DEF DesiredEntry, Lift, g, r
  <2>5. CASE id = Self
    <3>1. r = {}
      BY <2>5 DEF PartiesOK, r, Refused, Joined, Access
    <3> DEFINE z == [allow |-> y.allow, deny |-> y.deny \ {"manage"}]
    <3>2. z \in Entry /\ DesiredEntry(a, audience, id, x) = z
      BY <2>2, <2>5 DEF DesiredEntry, Lift, Entry, g, r
    <3>3. Set(Hidden(z), g, r) = z
      BY <2>1, <2>2, <3>1 DEF Set, Hidden, Entry
    <3>4. DesiredEntry(a, audience, id, z) = [allow |-> z.allow, deny |-> z.deny \ {"manage"}]
      BY <2>5, <3>3 DEF DesiredEntry, Lift, g, r
    <3> QED BY <3>2, <3>4
  <2> QED BY <2>4, <2>5
<1> QED BY <1>3 DEF Desired, Settled, Overwrites

\* The table of site/src/content/docs/admin/setup.md, whatever entries custom roles and
\* single members had: once a channel is as desired, an ordinary member sees it exactly
\* when it is the lobby and they are a newcomer or staff, an ordinary channel and they
\* hold an access role, or a staff room and they are staff.
THEOREM AudienceSeesIt ==
  ASSUME PartiesOK, NEW a \in Access, NEW audience \in Audiences, NEW ows \in Overwrites,
         NEW base \in SUBSET Bits, NEW held \in SUBSET Roles, NEW own \in People
  PROVE  Sees(base, held, own, Desired(a, audience, ows)) <=>
           \/ held \cap Staff(a) # {}
           \/ audience = "members" /\ held \cap Joined(a) # {}
           \/ audience = "lobby" /\ held \cap Joined(a) = {}
<1> DEFINE to == Desired(a, audience, ows)
<1>0. /\ \A r \in held : r \in Ids /\ r # Self /\ r # Everyone
      /\ own \in Ids /\ own # Self /\ own # Everyone /\ own \notin Roles
      /\ Everyone \in Ids /\ Everyone # Self /\ Everyone \notin Roles
      /\ Joined(a) \subseteq Roles /\ Staff(a) \subseteq Roles /\ Joined(a) \cap Staff(a) = {}
  BY DEF PartiesOK, Ids, Joined, Staff, Access
<1>1. \A id \in Ids : /\ "view" \in to[id].allow <=> "view" \in Granted(a, audience, id)
                      /\ "view" \in to[id].deny <=> "view" \in Refused(a, audience, id)
  <2> TAKE id \in Ids
  <2>1. "view" \in Granted(a, audience, id) => "view" \notin Refused(a, audience, id)
    BY <1>0 DEF Granted, Refused, LobbyChat
  <2>2. /\ to[id].allow = Set(Hidden(ows[id]), Granted(a, audience, id), Refused(a, audience, id)).allow
        /\ "view" \in to[id].deny <=>
             "view" \in Set(Hidden(ows[id]), Granted(a, audience, id), Refused(a, audience, id)).deny
    BY DEF Desired, DesiredEntry, Lift, Set
  <2> QED BY <2>1, <2>2 DEF Set, Hidden
<1>2. /\ \A id \in Ids \ {Self} : "view" \in Granted(a, audience, id) <=>
           \/ id = Everyone /\ audience = "lobby"
           \/ id \in Joined(a) /\ audience = "members"
           \/ id \in Staff(a)
      /\ \A id \in Ids : "view" \in Refused(a, audience, id) <=>
           \/ id = Everyone /\ audience # "lobby"
           \/ id \in Joined(a) /\ audience # "members"
  BY <1>0 DEF Granted, Refused, LobbyChat
<1> HIDE DEF to
<1>3. "view" \in Over(base, to[Everyone]) <=> audience = "lobby"
  BY <1>0, <1>1, <1>2 DEF Over
<1>4. /\ "view" \in RolesEntry(held, to).allow <=>
           held \cap Staff(a) # {} \/ (audience = "members" /\ held \cap Joined(a) # {})
      /\ "view" \in RolesEntry(held, to).deny <=> audience # "members" /\ held \cap Joined(a) # {}
  <2>1. /\ "view" \in RolesEntry(held, to).allow <=> \E r \in held : "view" \in to[r].allow
        /\ "view" \in RolesEntry(held, to).deny <=> \E r \in held : "view" \in to[r].deny
    BY DEF RolesEntry
  <2> QED BY <1>0, <1>1, <1>2, <2>1
<1>5. "view" \notin to[own].allow /\ "view" \notin to[own].deny
  BY <1>0, <1>1, <1>2
<1> QED BY <1>3, <1>4, <1>5 DEF Sees, Permissions, Over, to, Audiences

\* Once TaruBot's own entry is as it should be, no other write of the pass takes away
\* what its remaining writes need.
LEMMA OwnEntrySuffices ==
  ASSUME PartiesOK, NEW a \in Access, NEW audience \in Audiences, NEW from \in Overwrites,
         NEW base \in SUBSET Bits, NEW held \in SUBSET Roles, NEW ows,
         "manage" \in Permissions(base, held, Self, from),
         ows[Self] = Desired(a, audience, from)[Self],
         \A id \in Ids \ {Self} : LET wanted == Desired(a, audience, from)[id]
                                 IN  ows[id] \in {from[id], wanted, Meet(from[id], wanted)}
  PROVE  {"view", "manage"} \subseteq Permissions(base, held, Self, ows)
<1> DEFINE to == Desired(a, audience, from)
<1>0. Self \in Ids /\ Everyone \in Ids /\ Everyone # Self /\ \A r \in held : r \in Ids /\ r # Self
  BY DEF PartiesOK, Ids
<1>1. "view" \in to[Self].allow /\ "manage" \notin to[Self].deny
      /\ ("manage" \in from[Self].allow => "manage" \in to[Self].allow)
  <2>1. Self # Everyone /\ Self \notin Joined(a) /\ Self \notin Staff(a)
    BY DEF PartiesOK, Joined, Staff, Access
  <2>2. Granted(a, audience, Self) = {"view", "send", "attach"} /\ Refused(a, audience, Self) = {}
    BY <2>1 DEF Granted, Refused
  <2> QED BY <2>2 DEF Desired, DesiredEntry, Lift, Set, Hidden, Ids
<1>2. \A id \in Ids \ {Self} : /\ "manage" \in to[id].allow <=> "manage" \in from[id].allow
                               /\ "manage" \in to[id].deny <=> "manage" \in from[id].deny
  <2> TAKE id \in Ids \ {Self}
  <2>1. "manage" \notin Granted(a, audience, id) /\ "manage" \notin Refused(a, audience, id)
    BY DEF Granted, Refused, LobbyChat
  <2> QED BY <2>1 DEF Desired, DesiredEntry, Lift, Set, Hidden
<1>3. \A id \in Ids \ {Self} : /\ "manage" \in ows[id].allow <=> "manage" \in from[id].allow
                               /\ "manage" \in ows[id].deny => "manage" \in from[id].deny
  <2>1. \A id \in Ids \ {Self} : ows[id] \in {from[id], to[id], Meet(from[id], to[id])}
    OBVIOUS
  <2> HIDE DEF to
  <2>2. \A id \in Ids \ {Self} :
          /\ "manage" \in Meet(from[id], to[id]).allow <=> "manage" \in from[id].allow
          /\ "manage" \in Meet(from[id], to[id]).deny => "manage" \in from[id].deny
    BY <1>2 DEF Meet
  <2> QED BY <1>2, <2>1, <2>2
<1>4. ows[Self] = to[Self]
  OBVIOUS
<1> HIDE DEF to
<1>5. "view" \in Permissions(base, held, Self, ows)
  BY <1>1, <1>4 DEF Permissions, Over
<1>6. CASE "manage" \in from[Self].allow
  BY <1>1, <1>4, <1>5, <1>6 DEF Permissions, Over
<1>7. CASE "manage" \notin from[Self].allow
  <2>1. "manage" \in Over(Over(base, from[Everyone]), RolesEntry(held, from))
    BY <1>7 DEF Permissions, Over
  <2>2. /\ "manage" \in RolesEntry(held, from).allow <=> "manage" \in RolesEntry(held, ows).allow
        /\ "manage" \in RolesEntry(held, ows).deny => "manage" \in RolesEntry(held, from).deny
    BY <1>0, <1>3 DEF RolesEntry
  <2>3. "manage" \in Over(base, from[Everyone]) => "manage" \in Over(base, ows[Everyone])
    BY <1>0, <1>3 DEF Over
  <2>4. "manage" \in Over(Over(base, ows[Everyone]), RolesEntry(held, ows))
    BY <2>1, <2>2, <2>3 DEF Over
  <2> QED BY <1>1, <1>4, <1>5, <2>4 DEF Permissions, Over
<1> QED BY <1>6, <1>7

\* TaruBot's own entry comes first, and then no write of the pass takes away what its
\* remaining writes need.
THEOREM PassKeepsItsAccess ==
  ASSUME PartiesOK, NEW a \in Access, NEW audience \in Audiences, NEW from \in Overwrites,
         NEW base \in SUBSET Bits, NEW held \in SUBSET Roles, NEW done \in SUBSET Ids,
         "manage" \in Permissions(base, held, Self, from)
  PROVE  LET to == Desired(a, audience, from)
         IN  /\ {"view", "manage"} \subseteq Permissions(base, held, Self, Closing(from, to, done))
             /\ {"view", "manage"} \subseteq Permissions(base, held, Self, Opening(from, to, done))
<1> DEFINE to == Desired(a, audience, from)
<1>1. /\ Closing(from, to, done)[Self] = to[Self] /\ Opening(from, to, done)[Self] = to[Self]
      /\ \A id \in Ids \ {Self} : /\ Closing(from, to, done)[id] \in {from[id], to[id], Meet(from[id], to[id])}
                                 /\ Opening(from, to, done)[id] \in {from[id], to[id], Meet(from[id], to[id])}
  BY DEF Closing, Opening, Ids
<1> QED BY <1>1, OwnEntrySuffices

-----------------------------------------------------------------------------
(* The invariant of a pass *)

Working == pass.step # "idle"
\* The row runs while its attempt holds it; a pass works for an onboarded server and
\* knows its access roles as of the revision it read.
Ownership ==
  /\ row = "running" <=> pass.owner
  /\ newer => pass.owner
  /\ pass.owner => Working
  /\ Working => /\ guild.enabled /\ row \in {"queued", "running"} /\ setup.step = "idle"
                /\ pass.access \in Bindings /\ pass.revision <= guild.revision
                /\ pass.revision = guild.revision => pass.access = guild.access

Secured ==
  /\ open => Preserved(chan)
  /\ \A c \in Managed : policy[c] # "unseen" /\ Settled(guild.access, Audience(c), chan[c])
\* What verification found stays so until an event is on its way or the row is queued again.
Finished ==
  /\ row = "ended" /\ ~news /\ guild.enabled => Secured
  /\ pass.step = "ending" /\ pass.owner /\ ~newer /\ ~news => Secured

Position == Min(pass.todo)
AtChannel == pass.step \in {"fetch", "plan", "write", "readback"}
AtDefault == pass.step \in {"refresh", "close", "closed"}
Writing == pass.step \in {"write", "readback"}
\* A pass goes through channels that exist, and the default is its second target.
OnCourse ==
  /\ {Lobby, Room, Updates} \subseteq There
  /\ \A n \in pass.todo \ {2} : Course[n] \in There
  /\ pass.step = "persist" => \A c \in Channels : pass.seen.seen[c] # None => c \in There
  /\ AtChannel => pass.todo # {} /\ Position # 2
  /\ AtDefault => pass.todo # {} /\ Position = 2
  /\ pass.step \in {"plan", "write", "readback"} => pass.from # None

Before(v, w) == v[1] < w[1] \/ (v[1] = w[1] /\ Rank[v[2]] < Rank[w[2]])
\* Writes still to come, with none of those behind them done.
InTurn(from, to, left) ==
  /\ left \subseteq Writes(from, to)
  /\ \A v \in left, w \in Writes(from, to) \ left : Before(w, v)

\* A channel's entries with the writes of left still to come.
After(from, to, left) ==
  [id \in Ids |-> IF <<1, id>> \in left \/ <<2, id>> \in left THEN from[id]
                  ELSE IF <<3, id>> \in left THEN Meet(from[id], to[id]) ELSE to[id]]
\* A channel nobody else touched is as far as its writes, which go in their order.
InWriting ==
  /\ pass.step = "write" => pass.left # {}
  /\ pass.step = "readback" => pass.left = {}
  /\ pass.step = "plan" /\ Target \notin meddled => chan[Target] = pass.from
  /\ Writing =>
       /\ InTurn(pass.from, Goal, pass.left)
       /\ Target \notin meddled => chan[Target] = After(pass.from, Goal, pass.left)

\* The lobby is open to newcomers before the default closes, and what others see of the
\* updates channel does not hang on the default.
BehindTheLobby ==
  /\ pass.step \in {"persist", "check"} /\ (pass.step = "check" => 1 \in pass.todo) /\ Lobby \notin meddled =>
       cache.seen[Lobby] = chan[Lobby]
  /\ pass.step \in {"check", "refresh", "close"} /\ pass.todo # {} /\ Position = 2 /\ Lobby \notin meddled =>
       Settled(pass.access, "lobby", chan[Lobby])
  /\ pass.step = "close" /\ Updates \notin meddled => ~Preserved(chan)

Inv == TypeOK /\ Ownership /\ Finished /\ OnCourse /\ InWriting /\ BehindTheLobby

-----------------------------------------------------------------------------
(* Lemmas *)

\* A set of numbers has a least one.
LEMMA LeastExists ==
  ASSUME NEW S, S \subseteq Nat, S # {}
  PROVE  /\ Min(S) \in S
         /\ \A n \in S : Min(S) <= n
<1>1. PICK n \in S : \A m \in S : ~ (<<m, n>> \in OpToRel(<, Nat))
  BY NatLessThanWellFounded, WFMin
<1>2. \A m \in S : ~ (m < n)
  BY <1>1 DEF OpToRel
<1>3. \E k \in S : \A m \in S : k =< m
  BY <1>2
<1> QED BY <1>3 DEF Min

LEMMA LeastIsFirst ==
  ASSUME NEW S, S \subseteq Nat, S # {}
  PROVE  \A n \in S \ {Min(S)} : Min(S) < n
<1> DEFINE least == Min(S)
<1>1. least \in S /\ \A n \in S : least <= n
  BY LeastExists
<1> HIDE DEF least
<1>2. \A n \in S \ {least} : least < n
  BY <1>1
<1> QED BY <1>2 DEF least

\* The lobby, the default, then channels that onboarding manages.
LEMMA CourseIs ==
  /\ DOMAIN Course \subseteq Nat \ {0} /\ {1, 2} \subseteq DOMAIN Course
  /\ Course[1] = Lobby /\ Course[2] = Default
  /\ \A n \in DOMAIN Course \ {2} : Course[n] \in Channels \ {Updates}
<1>1. /\ Lobby \in Channels \ {Updates} /\ Ordered \in Seq(Channels \ {Updates})
  BY SecurityAssumption DEF ConstantsOK, PlacesOK
<1>2. /\ Course \in Seq((Channels \ {Updates}) \cup {Default}) /\ Len(Course) = Len(Ordered) + 2
      /\ Course[1] = Lobby /\ Course[2] = Default
      /\ \A n \in 3..Len(Course) : Course[n] = Ordered[n - 2]
  BY <1>1 DEF Course
<1>3. Len(Ordered) \in Nat /\ DOMAIN Course = 1..Len(Course)
  BY <1>1, <1>2
<1>4. \A n \in 3..Len(Course) : Course[n] \in Channels \ {Updates}
  BY <1>1, <1>2, <1>3
<1> QED BY <1>1, <1>2, <1>3, <1>4

LEMMA TargetIs ==
  ASSUME pass.todo \subseteq DOMAIN Course, pass.todo # {}
  PROVE  /\ Position \in pass.todo /\ \A n \in pass.todo : Position <= n
         /\ \A n \in pass.todo \ {Position} : Position < n
         /\ Position \in DOMAIN Course
         /\ Position = 2 => Target = Default
         /\ Position # 2 => Target \in Channels \ {Updates}
         /\ 1 \in pass.todo => Position = 1
         /\ Position = 1 => Target = Lobby
BY CourseIs, LeastExists, LeastIsFirst DEF Position, Target

LEMMA DesiredTyped ==
  ASSUME NEW a, NEW audience, NEW ows \in Overwrites
  PROVE  Desired(a, audience, ows) \in Overwrites
<1>1. \A id \in Ids : Granted(a, audience, id) \subseteq Bits /\ Refused(a, audience, id) \subseteq Bits
  BY DEF Granted, Refused, Bits, LobbyChat
<1>2. \A entry \in Entry : Hidden(entry) \in Entry
  BY DEF Hidden, Entry
<1>3. \A entry \in Entry, allow, deny \in SUBSET Bits : Set(entry, allow, deny) \in Entry
  BY DEF Set, Entry
<1>4. \A entry \in Entry, id \in Ids : Lift(id, entry) \in Entry
  BY DEF Lift, Entry
<1>5. \A id \in Ids : ows[id] \in Entry
  BY DEF Overwrites
<1> QED BY <1>1, <1>2, <1>3, <1>4, <1>5 DEF Desired, DesiredEntry, Overwrites

\* A write changes one entry of a channel and of those synced with it.
LEMMA WrittenIs ==
  ASSUME chan \in [Channels -> Overwrites \cup {None}], NEW c \in There, NEW id \in Ids, NEW entry \in Entry
  PROVE  /\ Written(c, id, entry) \in [Channels -> Overwrites \cup {None}]
         /\ Written(c, id, entry)[c] = [chan[c] EXCEPT ![id] = entry]
<1>1. c \in Channels /\ \A d \in There : d \in Channels /\ chan[d] \in Overwrites
  BY DEF There
<1>2. \A ows \in Overwrites : [ows EXCEPT ![id] = entry] \in Overwrites
  BY DEF Overwrites
<1> QED BY <1>1, <1>2 DEF Written, There
\* Other channels stay as they are.
LEMMA WrittenElsewhere ==
  ASSUME NEW c, NEW id, NEW entry
  PROVE  \A d \in Channels : Parent[d] # c /\ d # c => Written(c, id, entry)[d] = chan[d]
BY DEF Written
\* It makes no channel go away.
LEMMA WrittenStays ==
  ASSUME chan \in [Channels -> Overwrites \cup {None}], NEW c \in There, NEW id \in Ids, NEW entry \in Entry
  PROVE  \A d \in There : Written(c, id, entry)[d] # None
<1>1. \A d \in There : d \in Channels /\ chan[d] \in Overwrites
  BY DEF There
<1>2. \A ows \in Overwrites : [ows EXCEPT ![id] = entry] \in Overwrites
  BY DEF Overwrites
<1>3. None \notin Overwrites
  BY SecurityAssumption DEF ConstantsOK
<1> QED BY <1>1, <1>2, <1>3 DEF Written

LEMMA RememberTyped ==
  ASSUME NEW known \in [Channels -> {"unseen", "staff", "open"}], NEW access, NEW seen, NEW isOpen, NEW already
  PROVE  Remember(known, access, seen, isOpen, already) \in [Channels -> {"unseen", "staff", "open"}]
<1>1. \A staff : Word(staff) \in {"unseen", "staff", "open"}
  BY DEF Word
<1> QED BY <1>1 DEF Remember

\* The writes go by step and then by ID.
LEMMA NextWriteIs ==
  ASSUME pass.left \subseteq (1..3) \X Ids, pass.left # {}
  PROVE  /\ NextWrite \in pass.left
         /\ \A v \in pass.left \ {NextWrite} : Before(NextWrite, v)
<1> DEFINE ranks(k) == {Rank[w[2]] : w \in {v \in pass.left : v[1] = k}}
           steps == {w[1] : w \in pass.left}
           first == Min(steps)
           least == Min(ranks(first))
<1>1. Rank \in [Ids -> Nat] /\ \A id, other \in Ids : Rank[id] = Rank[other] => id = other
  BY SecurityAssumption DEF ConstantsOK
<1>2. first \in steps /\ \A k \in steps : first <= k
  <2>1. steps \subseteq Nat /\ steps # {}
    OBVIOUS
  <2> HIDE DEF steps
  <2> QED BY <2>1, LeastExists
<1>3. ranks(first) \subseteq Nat /\ ranks(first) # {}
  <2>1. PICK w \in pass.left : w[1] = first
    BY <1>2
  <2>2. Rank[w[2]] \in ranks(first)
    BY <2>1
  <2> QED BY <1>1, <2>2
<1>4. least \in ranks(first) /\ \A n \in ranks(first) : least <= n
  <2> HIDE DEF ranks, first
  <2> QED BY <1>3, LeastExists
<1>5. PICK w \in pass.left : w[1] = first /\ Rank[w[2]] = least
  BY <1>4
<1> HIDE DEF first, least
<1>6. \A v \in pass.left : first <= v[1] /\ (v[1] = first => least <= Rank[v[2]]) /\ v[1] \in Nat
  BY <1>2, <1>4
<1>7. \A v \in pass.left : w[1] < v[1] \/ (w[1] = v[1] /\ Rank[w[2]] <= Rank[v[2]])
  BY <1>5, <1>6
<1>8. /\ NextWrite \in pass.left
      /\ \A v \in pass.left : NextWrite[1] < v[1] \/ (NextWrite[1] = v[1] /\ Rank[NextWrite[2]] <= Rank[v[2]])
  BY <1>7 DEF NextWrite
<1>9. \A v \in pass.left \ {NextWrite} : NextWrite[1] = v[1] => Rank[NextWrite[2]] # Rank[v[2]]
  BY <1>1, <1>8
<1>10. \A v \in pass.left : Rank[v[2]] \in Nat
  BY <1>1
<1> QED BY <1>8, <1>9, <1>10 DEF Before

-----------------------------------------------------------------------------
(* Type correctness *)

PassType == [step : Steps, revision : Nat, access : Bindings \cup {None}, owner : BOOLEAN,
             seen : Snapshot \cup {None}, todo : SUBSET DOMAIN Course,
             from : Overwrites \cup {None}, left : SUBSET ((1..3) \X Ids)]
RowType == {"none", "queued", "running", "ended", "blocked"}
\* Between a pass and its end nothing but these change.
Left == Leaves("queued") \/ Leaves("ended") \/ Leaves("blocked")

LEMMA LeavingTyped ==
  ASSUME TypeOK, Left
  PROVE  /\ pass' = NoPass /\ NoPass \in PassType
         /\ row' \in RowType /\ newer' \in BOOLEAN
BY DEF TypeOK, Left, Leaves, NoPass, PassType, RowType, Steps

LEMMA QueueTyped ==
  ASSUME TypeOK, Queued \/ QueuedIfOn
  PROVE  row' \in RowType /\ newer' \in BOOLEAN
BY DEF TypeOK, Queued, QueuedIfOn, RowType

\* A step of a pass that goes on.
LEMMA ContinuingTyped ==
  ASSUME NEW p \in PassType
  PROVE  /\ \A s \in Steps : [p EXCEPT !.step = s] \in PassType
         /\ \A s \in Steps, shot \in Snapshot : [p EXCEPT !.step = s, !.seen = shot] \in PassType
         /\ \A s \in Steps, ows \in Overwrites : [p EXCEPT !.step = s, !.from = ows] \in PassType
         /\ \A s \in Steps, ws \in SUBSET ((1..3) \X Ids) : [p EXCEPT !.step = s, !.left = ws] \in PassType
         /\ \A ws \in SUBSET ((1..3) \X Ids), s \in Steps : [p EXCEPT !.left = ws, !.step = s] \in PassType
         /\ \A s \in Steps, todo \in SUBSET DOMAIN Course :
              [p EXCEPT !.step = s, !.seen = None, !.todo = todo] \in PassType
         /\ \A s \in Steps, todo \in SUBSET DOMAIN Course :
              [p EXCEPT !.step = s, !.todo = todo, !.from = None, !.left = {}] \in PassType
BY DEF PassType

LEMMA NextTargetIs ==
  ASSUME TypeOK, NextTarget
  PROVE  /\ pass' \in PassType /\ row' = row /\ newer' = newer
         /\ pass'.step = "check" /\ pass'.todo = pass.todo \ {Position}
         /\ pass'.owner = pass.owner /\ pass'.revision = pass.revision /\ pass'.access = pass.access
         /\ pass'.seen = pass.seen
<1>1. pass \in PassType
  BY DEF TypeOK, PassType
<1>2. pass' = [pass EXCEPT !.step = "check", !.todo = pass.todo \ {Position}, !.from = None, !.left = {}]
      /\ row' = row /\ newer' = newer
  BY DEF NextTarget, Continues, Position
<1>3. "check" \in Steps /\ pass.todo \ {Position} \in SUBSET DOMAIN Course
  BY <1>1 DEF Steps, PassType
<1>4. pass' \in PassType
  BY <1>1, <1>2, <1>3, ContinuingTyped
<1> QED BY <1>1, <1>2, <1>4 DEF PassType

LEMMA WritesTyped ==
  ASSUME NEW from, NEW to
  PROVE  Writes(from, to) \subseteq (1..3) \X Ids
BY DEF Writes, OwnWrites, MeetWrites, FinalWrites, Changed

LEMMA ValueTyped ==
  ASSUME pass.from \in Overwrites, NEW w, w[2] \in Ids
  PROVE  Goal \in Overwrites /\ Value(w) \in Entry
<1>1. Goal \in Overwrites
  BY DesiredTyped DEF Goal, To
<1>2. pass.from[w[2]] \in Entry /\ Goal[w[2]] \in Entry
  BY <1>1 DEF Overwrites
<1> QED BY <1>1, <1>2, MeetIsTighter DEF Value

LEMMA FetchedTyped ==
  ASSUME chan \in [Channels -> Overwrites \cup {None}], open \in BOOLEAN
  PROVE  Fetched \in Snapshot
BY DEF Fetched, Snapshot

GuildType == [enabled : BOOLEAN, revision : Nat, access : Bindings]
SetupType == [step : {"idle", "reads", "observed"}, revision : Nat, enabled : BOOLEAN, seen : Snapshot \cup {None}]
LEMMA RecordsTyped ==
  /\ \A g \in GuildType, access \in Bindings, n \in Nat :
       [g EXCEPT !.access = access, !.revision = n] \in GuildType
  /\ \A g \in GuildType, n \in Nat : [g EXCEPT !.enabled = TRUE, !.revision = n] \in GuildType
  /\ NoSetup \in SetupType
  /\ \A s \in SetupType, shot \in Snapshot : [s EXCEPT !.step = "observed", !.seen = shot] \in SetupType
  /\ NoPass \in PassType
  /\ \A n \in Nat, access \in Bindings :
       [NoPass EXCEPT !.step = "begin", !.revision = n, !.access = access, !.owner = TRUE] \in PassType
<1>1. \A s \in SetupType, shot \in Snapshot : [s EXCEPT !.step = "observed", !.seen = shot] \in SetupType
  BY DEF SetupType
<1>2. NoSetup \in SetupType
  BY DEF SetupType, NoSetup
<1>3. NoPass \in PassType
  BY DEF NoPass, PassType, Steps
<1>4. \A p \in PassType, n \in Nat, access \in Bindings :
        [p EXCEPT !.step = "begin", !.revision = n, !.access = access, !.owner = TRUE] \in PassType
  BY DEF PassType, Steps
<1> QED BY <1>1, <1>2, <1>3, <1>4 DEF GuildType

\* Each action leaves the state well typed.
LEMMA TypeKept ==
  ASSUME TypeOK, OnCourse, [Next]_vars
  PROVE  TypeOK'
<1> USE DEF discord, histories
<1>0. /\ pass \in PassType /\ row \in RowType
      /\ Bindings \subseteq Access /\ None \notin Overwrites
      /\ edits + 1 \in Nat /\ faults + 1 \in Nat
      /\ guild \in GuildType /\ guild.revision + 1 \in Nat /\ setup \in SetupType
      /\ cache \in Snapshot /\ Fetched \in Snapshot
      /\ \A c \in There : c \in Channels /\ chan[c] \in Overwrites
  BY SecurityAssumption, FetchedTyped DEF TypeOK, PassType, RowType, GuildType, SetupType, ConstantsOK, There
<1>1. ASSUME pass' \in PassType, row' \in RowType, newer' \in BOOLEAN, cache' \in Snapshot,
             chan' \in [Channels -> Overwrites \cup {None}], open' \in BOOLEAN, news' \in BOOLEAN,
             UNCHANGED <<guild, policy, setup, private, given, edits, faults>>, meddled' \subseteq Channels
      PROVE  TypeOK'
  BY <1>1 DEF TypeOK, PassType, RowType
<1>2. \A c \in Channels, ows \in Overwrites :
        [cache EXCEPT !.seen[c] = ows] \in Snapshot
  BY <1>0 DEF Snapshot
<1>3. ASSUME NEW c \in Channels, Edit(c) PROVE TypeOK'
  <2>1. PICK e \in Edits[c] : chan' = Written(c, e.id, e.entry) /\ given' = given \cup Given(chan', open, guild.access)
    BY <1>3 DEF Edit
  <2>2. e.id \in Ids /\ e.entry \in Entry
    BY <2>1, SecurityAssumption DEF ConstantsOK
  <2>3. chan' \in [Channels -> Overwrites \cup {None}]
    BY <1>3, <2>1, <2>2, WrittenIs DEF Edit, TypeOK
  <2>4. given' \subseteq Channels /\ meddled' \subseteq Channels
    BY <1>3, <2>1 DEF Edit, TypeOK, Given, There
  <2> QED BY <1>0, <1>3, <2>3, <2>4 DEF Edit, Meddles, TypeOK
<1>4. ASSUME NEW c \in Channels, Create(c) PROVE TypeOK'
  <2>1. PICK ows \in Made \cup {chan[p] : p \in There \cap {Parent[c]}} :
          /\ chan' = [chan EXCEPT ![c] = ows]
          /\ private' = private \/ private' = private \cup {c}
          /\ given' = given \cup Given(chan', open, guild.access) \cup {d \in {c} : Shares(chan', d)}
    BY <1>4 DEF Create
  <2>2. ows \in Overwrites
    BY <1>0, <2>1, SecurityAssumption DEF ConstantsOK
  <2>3. chan' \in [Channels -> Overwrites \cup {None}]
    BY <2>1, <2>2 DEF TypeOK
  <2>4. given' \subseteq Channels /\ meddled' \subseteq Channels /\ private' \subseteq Channels
    BY <1>4, <2>1 DEF Create, TypeOK, Given, There
  <2>5. /\ news' = TRUE /\ edits' \in Nat
        /\ UNCHANGED <<open, cache, guild, policy, row, newer, setup, pass, faults>>
    BY <1>0, <1>4 DEF Create, Meddles
  <2> QED BY <2>3, <2>4, <2>5 DEF TypeOK
<1>5. CASE OpenDefault
  <2>1. given' \subseteq Channels /\ meddled' \subseteq Channels
    BY <1>5 DEF OpenDefault, TypeOK, Given, There
  <2>2. /\ news' = TRUE /\ open' = TRUE /\ edits' \in Nat
        /\ UNCHANGED <<chan, cache, guild, policy, row, newer, setup, pass, private, faults>>
    BY <1>0, <1>5 DEF OpenDefault, Meddles
  <2> QED BY <2>1, <2>2 DEF TypeOK
<1>6. CASE Configure
  <2>1. PICK access \in Bindings :
          /\ guild' = [guild EXCEPT !.access = access, !.revision = guild.revision + 1]
          /\ given' = given \cup Given(chan, open, access)
    BY <1>6 DEF Configure
  <2>2. guild' \in GuildType
    BY <1>0, <2>1, RecordsTyped
  <2>3. given' \subseteq Channels /\ row' \in RowType /\ newer' \in BOOLEAN
    BY <1>6, <2>1, QueueTyped DEF Configure, TypeOK, Given, There
  <2> QED BY <1>0, <1>6, <2>2, <2>3 DEF Configure, TypeOK, RowType, GuildType
<1>7. CASE Event
  BY <1>0, <1>7, QueueTyped DEF Event, TypeOK, RowType
<1>8. CASE SetupReads
  BY <1>0, <1>8 DEF SetupReads, TypeOK
<1>9. CASE SetupObserves
  <2>1. setup' = NoSetup \/ setup' = [setup EXCEPT !.step = "observed", !.seen = Fetched]
    BY <1>9 DEF SetupObserves
  <2>2. setup' \in [step : {"idle", "reads", "observed"}, revision : Nat, enabled : BOOLEAN, seen : Snapshot \cup {None}]
    BY <1>0, <2>1, RecordsTyped DEF SetupType
  <2>3. cache' \in Snapshot
    BY <1>0, <1>9 DEF SetupObserves
  <2> QED BY <1>9, <2>2, <2>3 DEF SetupObserves, TypeOK
<1>10. CASE SetupCommits
  <2>1. setup' \in [step : {"idle", "reads", "observed"}, revision : Nat, enabled : BOOLEAN, seen : Snapshot \cup {None}]
    BY <1>0, <1>10, RecordsTyped DEF SetupCommits, SetupType
  <2>2. guild' = guild \/ guild' = [guild EXCEPT !.enabled = TRUE, !.revision = guild.revision + 1]
    BY <1>10 DEF SetupCommits
  <2>3. guild' \in GuildType
    <3>1. CASE guild' = guild
      BY <1>0, <3>1
    <3>2. CASE guild' = [guild EXCEPT !.enabled = TRUE, !.revision = guild.revision + 1]
      BY <1>0, <3>2, RecordsTyped
    <3> QED BY <2>2, <3>1, <3>2
  <2>4. policy' \in [Channels -> {"unseen", "staff", "open"}]
    BY <1>10, RememberTyped DEF SetupCommits, TypeOK
  <2>5. row' \in RowType /\ newer' \in BOOLEAN
    BY <1>0, <1>10, QueueTyped DEF SetupCommits, TypeOK
  <2> QED BY <1>10, <2>1, <2>3, <2>4, <2>5 DEF SetupCommits, TypeOK, RowType, GuildType
<1>11. CASE Claim
  <2>1. pass' \in PassType /\ row' \in RowType /\ newer' \in BOOLEAN
    <3>1. CASE guild.enabled
      <4>1. /\ pass' = [NoPass EXCEPT !.step = "begin", !.revision = guild.revision, !.access = guild.access,
                                    !.owner = TRUE]
            /\ row' = "running" /\ newer' = FALSE
        BY <1>11, <3>1 DEF Claim
      <4>2. guild.revision \in Nat /\ guild.access \in Bindings
        BY DEF TypeOK
      <4> QED BY <4>1, <4>2, RecordsTyped DEF RowType
    <3>2. CASE ~guild.enabled
      BY <1>0, <1>11, <3>2 DEF Claim, RowType, TypeOK
    <3> QED BY <3>1, <3>2
  <2> QED BY <1>0, <1>1, <1>11, <2>1 DEF Claim, Quiet, TypeOK
<1>12. ASSUME Left, cache' \in Snapshot, chan' = chan, open' \in BOOLEAN, news' \in BOOLEAN, Quiet,
              meddled' \subseteq Channels
       PROVE TypeOK'
  BY <1>1, <1>12, LeavingTyped DEF Quiet, TypeOK
<1>13. ASSUME NextTarget, cache' \in Snapshot, chan' = chan, open' \in BOOLEAN, news' \in BOOLEAN, Quiet,
              meddled' \subseteq Channels
       PROVE TypeOK'
  BY <1>0, <1>1, <1>13, NextTargetIs DEF Quiet, TypeOK
<1>14. ASSUME NEW s \in Steps, Continues([pass EXCEPT !.step = s]), cache' \in Snapshot, chan' = chan,
              open' \in BOOLEAN, news' \in BOOLEAN, Quiet, meddled' \subseteq Channels
       PROVE TypeOK'
  <2>1. pass' \in PassType /\ row' = row /\ newer' = newer
    BY <1>0, <1>14, ContinuingTyped DEF Continues
  <2> QED BY <1>0, <1>1, <1>14, <2>1 DEF Quiet, TypeOK
<1>15. /\ TriedAgain => Left
       /\ Blocked => Left
       /\ Leaves("ended") => Left
  BY DEF TriedAgain, Blocked, Left
<1> USE DEF Steps
<1>16. CASE Begin
  <2>1. CASE ~Guarded \/ \E c \in Managed : ~Manages(chan[c])
    BY <1>0, <1>12, <1>15, <1>16, <2>1 DEF Begin, TypeOK
  <2>2. CASE Guarded /\ ~ \E c \in Managed : ~Manages(chan[c])
    <3>1. pass' = [pass EXCEPT !.step = "persist", !.seen = Fetched] /\ row' = row /\ newer' = newer
      BY <1>16, <2>2 DEF Begin, Continues
    <3>2. pass' \in PassType
      BY <1>0, <3>1, ContinuingTyped
    <3> QED BY <1>0, <1>1, <1>16, <2>2, <3>1, <3>2 DEF Begin, Quiet, TypeOK
  <2> QED BY <2>1, <2>2
<1>17. CASE Persist
  <2>1. CASE guild.revision = pass.revision
    <3>1. pass' = [pass EXCEPT !.step = "check", !.seen = None, !.todo = Targets(pass.seen.seen)]
          /\ row' = row /\ newer' = newer
      BY <1>17, <2>1 DEF Persist, Continues
    <3>2. Targets(pass.seen.seen) \in SUBSET DOMAIN Course
      BY DEF Targets
    <3>3. pass' \in PassType
      BY <1>0, <3>1, <3>2, ContinuingTyped
    <3>4. policy' \in [Channels -> {"unseen", "staff", "open"}]
      <4>1. policy' = Remember(policy, pass.access, pass.seen.seen, pass.seen.open, TRUE)
        BY <1>17, <2>1 DEF Persist
      <4> QED BY <4>1, RememberTyped DEF TypeOK
    <3> QED BY <1>17, <3>1, <3>3, <3>4 DEF Persist, TypeOK, PassType
  <2>2. CASE guild.revision # pass.revision
    BY <1>12, <1>15, <1>17, <2>2 DEF Persist, Quiet, TypeOK
  <2> QED BY <2>1, <2>2
<1>18. CASE Check
  BY <1>0, <1>13, <1>14, <1>18 DEF Check, TypeOK
<1>19. CASE CheckDefault
  BY <1>0, <1>12, <1>13, <1>14, <1>15, <1>19 DEF CheckDefault, TypeOK
<1>20. CASE Fetch
  <2>1. Target \in Channels /\ Target \in There /\ chan[Target] \in Overwrites
    BY <1>0, <1>20, TargetIs DEF Fetch, OnCourse, AtChannel, TypeOK, Target, Position
  <2>2. CASE Guarded /\ "view" \in OwnBits(chan[Target])
    <3>1. pass' = [pass EXCEPT !.step = "plan", !.from = chan[Target]] /\ row' = row /\ newer' = newer
          /\ cache' = [cache EXCEPT !.seen[Target] = chan[Target]]
      BY <1>20, <2>2 DEF Fetch, Continues
    <3>2. pass' \in PassType
      BY <1>0, <2>1, <3>1, ContinuingTyped
    <3>3. cache' \in Snapshot
      BY <1>2, <2>1, <3>1
    <3> QED BY <1>0, <1>1, <1>20, <2>2, <3>1, <3>2, <3>3 DEF Fetch, Quiet, TypeOK
  <2>3. CASE ~(Guarded /\ "view" \in OwnBits(chan[Target]))
    BY <1>0, <1>12, <1>15, <1>20, <2>3 DEF Fetch, TypeOK
  <2> QED BY <2>2, <2>3
<1>21. CASE Plan
  <2>1. CASE Guarded /\ pass.from # Goal
    <3>1. pass' = [pass EXCEPT !.step = "write", !.left = Writes(pass.from, Goal)] /\ row' = row /\ newer' = newer
      BY <1>21, <2>1 DEF Plan, Continues
    <3>2. pass' \in PassType
      BY <1>0, <3>1, WritesTyped, ContinuingTyped
    <3> QED BY <1>0, <1>1, <1>21, <3>1, <3>2 DEF Plan, Quiet, TypeOK
  <2>2. CASE ~(Guarded /\ pass.from # Goal)
    BY <1>0, <1>12, <1>13, <1>15, <1>21, <2>2 DEF Plan, TypeOK
  <2> QED BY <2>1, <2>2
<1>22. CASE Write
  <2>1. CASE Manages(chan[Target])
    <3>1. Target \in There /\ pass.from \in Overwrites
      BY <1>0, <1>22, TargetIs DEF Write, OnCourse, AtChannel, TypeOK, Target, Position
    <3>2. NextWrite \in pass.left /\ NextWrite[2] \in Ids
      BY <1>22, NextWriteIs DEF Write, TypeOK
    <3>3. chan' \in [Channels -> Overwrites \cup {None}]
      <4>1. Value(NextWrite) \in Entry
        BY <3>1, <3>2, ValueTyped
      <4>2. chan' = Written(Target, NextWrite[2], Value(NextWrite))
        BY <1>22, <2>1 DEF Write
      <4> QED BY <3>1, <3>2, <4>1, <4>2, WrittenIs DEF TypeOK
    <3>4. PICK s \in {"readback", pass.step} : pass' = [pass EXCEPT !.left = pass.left \ {NextWrite}, !.step = s]
      BY <1>22, <2>1 DEF Write, Continues
    <3>5. pass.left \ {NextWrite} \in SUBSET ((1..3) \X Ids) /\ s \in Steps
      BY <1>0 DEF PassType
    <3>6. pass' \in PassType /\ row' = row /\ newer' = newer
      BY <1>0, <1>22, <2>1, <3>4, <3>5, ContinuingTyped DEF Write, Continues
    <3> QED BY <1>0, <1>1, <1>22, <2>1, <3>3, <3>6 DEF Write, Quiet, TypeOK
  <2>2. CASE ~Manages(chan[Target])
    BY <1>0, <1>12, <1>15, <1>22, <2>2 DEF Write, TypeOK
  <2> QED BY <2>1, <2>2
<1>23. CASE Readback
  <2>1. Target \in Channels /\ chan[Target] \in Overwrites
    BY <1>0, <1>23, TargetIs DEF Readback, OnCourse, AtChannel, TypeOK, Target, Position
  <2>2. cache' \in Snapshot
    BY <1>2, <1>23, <2>1 DEF Readback
  <2> QED BY <1>0, <1>12, <1>13, <1>15, <1>23, <2>2 DEF Readback, TypeOK
<1>24. CASE Refresh
  BY <1>0, <1>13, <1>14, <1>24 DEF Refresh, TypeOK
<1>25. CASE Close
  BY <1>0, <1>12, <1>13, <1>14, <1>15, <1>25 DEF Close, TypeOK
<1>26. CASE Closed
  <2>1. cache' \in Snapshot
    BY <1>26 DEF Closed, TypeOK, Snapshot
  <2> QED BY <1>0, <1>12, <1>13, <1>15, <1>26, <2>1 DEF Closed, TypeOK
<1>27. CASE Verify
  BY <1>0, <1>12, <1>14, <1>15, <1>27 DEF Verify, TypeOK
<1>28. CASE Ends
  BY <1>0, <1>12, <1>15, <1>28 DEF Ends, TypeOK
<1>29. CASE Lapse
  <2>1. pass' = [pass EXCEPT !.owner = FALSE]
    BY <1>29 DEF Lapse
  <2>2. pass' \in PassType
    BY <1>0, <2>1 DEF PassType
  <2> QED BY <1>0, <1>29, <2>2 DEF Lapse, TypeOK, PassType
<1>30. CASE Restart
  <2>1. pass' \in PassType
    BY <1>30 DEF Restart, NoPass, PassType
  <2>2. setup' \in [step : {"idle", "reads", "observed"}, revision : Nat, enabled : BOOLEAN, seen : Snapshot \cup {None}]
    BY <1>30 DEF Restart, NoSetup
  <2> QED BY <1>0, <1>30, <2>1, <2>2 DEF Restart, TypeOK, PassType
<1>31. CASE UNCHANGED vars
  BY <1>31 DEF vars, TypeOK
<1> QED BY <1>3, <1>4, <1>5, <1>6, <1>7, <1>8, <1>9, <1>10, <1>11, <1>16, <1>17, <1>18, <1>19, <1>20, <1>21,
         <1>22, <1>23, <1>24, <1>25, <1>26, <1>27, <1>28, <1>29, <1>30, <1>31 DEF Next, Others, Reconcile

-----------------------------------------------------------------------------
(* What a pass leaves behind *)

LEMMA LeavingIs ==
  ASSUME Left
  PROVE  /\ pass' = NoPass /\ pass'.step = "idle" /\ ~pass'.owner
         /\ ~pass.owner => row' = row /\ newer' = newer
         /\ pass.owner => newer' = FALSE /\ row' \in {"queued", "ended", "blocked"}
<1>1. pass' = NoPass /\ pass'.step = "idle" /\ ~pass'.owner
  <2>1. pass' = NoPass
    BY Zenon DEF Left, Leaves
  <2> QED BY <2>1 DEF NoPass
<1>2. PICK status \in {"queued", "ended", "blocked"} : Leaves(status)
  BY DEF Left
<1>3. CASE pass.owner
  <2>1. newer' = FALSE /\ row' = IF newer THEN "queued" ELSE status
    BY <1>2, <1>3, Zenon DEF Leaves
  <2> QED BY <1>1, <1>3, <2>1
<1>4. CASE ~pass.owner
  <2>1. row' = row /\ newer' = newer
    BY <1>2, <1>4, Zenon DEF Leaves
  <2> QED BY <1>1, <1>4, <2>1
<1> QED BY <1>3, <1>4

\* A step that goes on keeps what the pass works from.
Goes ==
  /\ row' = row /\ newer' = newer /\ pass'.step # "idle"
  /\ pass'.owner = pass.owner /\ pass'.access = pass.access /\ pass'.revision = pass.revision
\* What a step of a pass may do to the row.
LEMMA ReconcileIs ==
  ASSUME TypeOK, Reconcile, ~Claim
  PROVE  /\ TriedAgain \/ Blocked \/ Ends \/ Goes
         /\ Left \/ Goes
         /\ Working
         /\ UNCHANGED <<guild, setup, edits, faults, private, given>>
         /\ pass'.step = "ending" /\ Goes => pass.step = "check" /\ pass.todo = {}
<1>1. pass \in PassType
  BY DEF TypeOK, PassType
<1>2. /\ TriedAgain => Left
      /\ Blocked => Left
      /\ Leaves("ended") => Left
      /\ Left => ~Goes
  BY LeavingIs DEF TriedAgain, Blocked, Left, Goes
<1>3. NextTarget => Goes /\ pass'.step = "check"
  BY NextTargetIs DEF Goes
<1>4. \A s \in Steps \ {"idle"} : Continues([pass EXCEPT !.step = s]) => Goes /\ pass'.step = s
  BY <1>1 DEF Continues, Goes, PassType
<1> USE DEF Steps, Working, Quiet, histories
<1>5. CASE Begin
  <2>1. Continues([pass EXCEPT !.step = "persist", !.seen = Fetched]) => Goes /\ pass'.step = "persist"
    BY <1>1 DEF Continues, Goes, PassType
  <2> QED BY <1>2, <1>5, <2>1 DEF Begin
<1>6. CASE Persist
  <2>1. Continues([pass EXCEPT !.step = "check", !.seen = None, !.todo = Targets(pass.seen.seen)])
          => Goes /\ pass'.step = "check"
    BY <1>1 DEF Continues, Goes, PassType
  <2> QED BY <1>2, <1>6, <2>1 DEF Persist
<1>7. CASE Check
  BY <1>2, <1>3, <1>4, <1>7 DEF Check
<1>8. CASE CheckDefault
  BY <1>2, <1>3, <1>4, <1>8 DEF CheckDefault
<1>9. CASE Fetch
  <2>1. Continues([pass EXCEPT !.step = "plan", !.from = chan[Target]]) => Goes /\ pass'.step = "plan"
    BY <1>1 DEF Continues, Goes, PassType
  <2> QED BY <1>2, <1>9, <2>1 DEF Fetch
<1>10. CASE Plan
  <2>1. Continues([pass EXCEPT !.step = "write", !.left = Writes(pass.from, Goal)]) => Goes /\ pass'.step = "write"
    BY <1>1 DEF Continues, Goes, PassType
  <2> QED BY <1>2, <1>3, <1>10, <2>1 DEF Plan
<1>11. CASE Write
  <2>1. ASSUME Manages(chan[Target]) PROVE Goes /\ pass'.step \in {"write", "readback"}
    <3>1. /\ pass' = [pass EXCEPT !.left = pass.left \ {NextWrite},
                                  !.step = IF pass.left \ {NextWrite} = {} THEN "readback" ELSE pass.step]
          /\ row' = row /\ newer' = newer /\ pass.step = "write"
      BY <1>11, <2>1 DEF Write, Continues
    <3> QED BY <1>1, <3>1 DEF Goes, PassType
  <2> QED BY <1>2, <1>11, <2>1 DEF Write
<1>12. CASE Readback
  BY <1>2, <1>3, <1>12 DEF Readback
<1>13. CASE Refresh
  BY <1>2, <1>3, <1>4, <1>13 DEF Refresh
<1>14. CASE Close
  BY <1>2, <1>3, <1>4, <1>14 DEF Close
<1>15. CASE Closed
  BY <1>2, <1>3, <1>15 DEF Closed
<1>16. CASE Verify
  BY <1>2, <1>4, <1>16 DEF Verify
<1>17. CASE Ends
  BY <1>2, <1>17, LeavingIs DEF Ends, Goes
<1> QED BY <1>5, <1>6, <1>7, <1>8, <1>9, <1>10, <1>11, <1>12, <1>13, <1>14, <1>15, <1>16, <1>17, LeavingIs
        DEF Reconcile, Goes

\* The row is running exactly while its attempt holds it, and a pass knows the settings
\* of its revision.
LEMMA OwnershipKept ==
  ASSUME TypeOK, Ownership, [Next]_vars
  PROVE  Ownership'
<1> USE DEF Ownership, Working
<1>1. guild.revision \in Nat /\ pass.revision \in Nat /\ guild.access \in Bindings /\ guild.enabled \in BOOLEAN
  BY DEF TypeOK
<1>2. CASE \E c \in Channels : Edit(c) \/ Create(c)
  <2>1. UNCHANGED <<row, newer, guild, pass, setup>>
    BY <1>2 DEF Edit, Create
  <2> QED BY <2>1
<1>3. CASE OpenDefault
  BY <1>3 DEF OpenDefault
<1>4. CASE Configure
  <2>1. PICK access \in Bindings : guild' = [guild EXCEPT !.access = access, !.revision = guild.revision + 1]
    BY <1>4 DEF Configure
  <2>2. guild'.revision = guild.revision + 1 /\ guild'.enabled = guild.enabled
    BY <2>1 DEF TypeOK
  <2>3. UNCHANGED <<setup, pass>>
    BY <1>4 DEF Configure
  <2>4. /\ row' = "running" <=> row = "running"
        /\ newer' => newer \/ row = "running"
        /\ row \in {"queued", "running"} => row' \in {"queued", "running"}
    BY <1>4 DEF Configure, QueuedIfOn, Queued
  <2> QED BY <1>1, <2>2, <2>3, <2>4
<1>5. CASE Event
  <2>1. /\ row' = "running" <=> row = "running"
        /\ newer' => newer \/ row = "running"
        /\ row \in {"queued", "running"} => row' \in {"queued", "running"}
    BY <1>5 DEF Event, QueuedIfOn, Queued
  <2> QED BY <1>5, <2>1 DEF Event
<1>6. CASE SetupReads
  BY <1>6 DEF SetupReads, LockFree
<1>7. CASE SetupObserves
  BY <1>7 DEF SetupObserves
<1>8. CASE SetupCommits
  <2>1. ~Working
    BY <1>8 DEF SetupCommits
  <2>2. /\ row' = "running" <=> row = "running"
        /\ newer' => newer \/ row = "running"
    BY <1>8 DEF SetupCommits, Queued
  <2> QED BY <1>8, <2>1, <2>2 DEF SetupCommits
<1>9. CASE Claim
  <2>1. CASE guild.enabled
    <3>1. /\ pass'.step = "begin" /\ pass'.owner /\ pass'.revision = guild.revision /\ pass'.access = guild.access
          /\ row' = "running" /\ newer' = FALSE
      BY <1>9, <2>1 DEF Claim, NoPass
    <3>2. setup.step = "idle" /\ UNCHANGED <<guild, setup>>
      BY <1>9 DEF Claim, LockFree, Quiet
    <3> QED BY <1>1, <2>1, <3>1, <3>2
  <2>2. CASE ~guild.enabled
    <3>1. row' = "ended" /\ UNCHANGED <<newer, pass, guild, setup>> /\ row = "queued"
      BY <1>9, <2>2 DEF Claim, Quiet
    <3> QED BY <2>2, <3>1
  <2> QED BY <2>1, <2>2
<1>10. CASE Reconcile /\ ~Claim
  <2>1. Left => pass'.step = "idle" /\ ~pass'.owner
                /\ (~pass.owner => row' = row /\ newer' = newer)
                /\ (pass.owner => newer' = FALSE /\ row' # "running")
    BY LeavingIs
  <2>2. (Left \/ Goes) /\ UNCHANGED <<guild, setup>> /\ Working
    BY <1>10, ReconcileIs
  <2>3. CASE Left
    BY <2>1, <2>2, <2>3
  <2>4. CASE Goes
    BY <2>2, <2>4 DEF Goes
  <2> QED BY <2>2, <2>3, <2>4
<1>11. CASE Lapse
  <2>1. pass'.owner = FALSE /\ pass'.step = pass.step /\ pass'.access = pass.access /\ pass'.revision = pass.revision
    BY <1>11 DEF Lapse, TypeOK
  <2> QED BY <1>11, <2>1 DEF Lapse
<1>12. CASE Restart
  <2>1. pass'.step = "idle" /\ ~pass'.owner /\ ~newer' /\ row' # "running"
    BY <1>12 DEF Restart, NoPass
  <2> QED BY <2>1
<1>13. CASE UNCHANGED vars
  BY <1>13 DEF vars
<1> QED BY <1>2, <1>3, <1>4, <1>5, <1>6, <1>7, <1>8, <1>9, <1>10, <1>11, <1>12, <1>13 DEF Next, Others

\* "Secured" depends on the channels, the default, the policy and the settings alone.
LEMMA SecuredStays ==
  ASSUME UNCHANGED <<chan, open, policy, guild>>, Secured
  PROVE  Secured'
BY DEF Secured, Preserved, Managed, There, Settled, Audience, Desired

LEMMA VerifiedIsSecured ==
  ASSUME TypeOK, Ownership, Verify, pass'.step = "ending"
  PROVE  Secured /\ UNCHANGED <<chan, open, policy, guild>>
<1>1. pass' # NoPass
  BY DEF NoPass
<1>2. ~TriedAgain /\ ~Blocked
  BY <1>1, LeavingIs DEF TriedAgain, Blocked, Left
<1>3. Guarded /\ AllSettled /\ UNCHANGED <<chan, open, policy, guild>>
  BY <1>2 DEF Verify, Quiet
<1>4. pass.access = guild.access
  BY <1>3 DEF Ownership, Guarded, Working, Verify
<1> QED BY <1>3, <1>4 DEF AllSettled, Secured, To, Settled

\* What a pass verified is still so when its row ends, until an event is on its way.
LEMMA FinishedKept ==
  ASSUME TypeOK, Ownership, Finished, [Next]_vars
  PROVE  Finished'
<1> USE DEF Finished
<1>1. Working => row \in {"queued", "running"} /\ guild.enabled /\ setup.step = "idle"
  BY DEF Ownership
<1>2. row = "ended" => ~pass.owner /\ ~Working
  BY <1>1 DEF Ownership
<1>3. ASSUME news' = TRUE PROVE Finished'
  BY <1>3
<1>4. CASE Others
  <2>1. CASE (\E c \in Channels : Edit(c) \/ Create(c)) \/ OpenDefault
    <3>1. news' = TRUE
      BY <2>1 DEF Edit, Create, OpenDefault, Meddles
    <3> QED BY <1>3, <3>1
  <2>2. CASE Configure
    <3>1. pass' = pass /\ news' = news /\ QueuedIfOn
      BY <2>2 DEF Configure, discord
    <3>2. guild'.enabled = guild.enabled
      BY <2>2 DEF Configure, TypeOK
    <3>3. CASE guild.enabled
      <4>1. Queued
        BY <3>1, <3>3 DEF QueuedIfOn
      <4>2. row' # "ended" /\ (row = "running" => newer' = TRUE)
        BY <4>1 DEF Queued
      <4>3. pass.owner => row = "running"
        BY DEF Ownership
      <4> QED BY <3>1, <4>2, <4>3
    <3>4. CASE ~guild.enabled
      <4>1. ~Working
        BY <1>1, <3>4
      <4> QED BY <3>1, <3>2, <3>4, <4>1 DEF Working
    <3> QED BY <3>3, <3>4
  <2> QED BY <1>4, <2>1, <2>2 DEF Others
<1>5. CASE Event
  <2>1. UNCHANGED <<chan, open, policy, guild, pass>> /\ news /\ QueuedIfOn
    BY <1>5 DEF Event
  <2>2. CASE guild.enabled
    <3>1. Queued
      BY <2>1, <2>2 DEF QueuedIfOn
    <3>2. row' # "ended" /\ (row = "running" => newer' = TRUE)
      BY <3>1 DEF Queued
    <3>3. pass.owner => row = "running"
      BY DEF Ownership
    <3> QED BY <2>1, <3>2, <3>3
  <2>3. CASE ~guild.enabled
    BY <1>1, <2>1, <2>3 DEF Working
  <2> QED BY <2>2, <2>3
<1>6. ASSUME UNCHANGED <<chan, open, policy, guild, row, newer, news, pass>> PROVE Finished'
  BY <1>6, SecuredStays
<1>7. CASE SetupReads \/ SetupObserves
  BY <1>6, <1>7 DEF SetupReads, SetupObserves, discord
<1>8. CASE SetupCommits
  <2>1. ~Working
    BY <1>1, <1>8 DEF SetupCommits
  <2>2. UNCHANGED <<pass, news, chan, open>>
    BY <1>8 DEF SetupCommits, discord
  <2>3. CASE guild.revision = setup.revision
    <3>1. row' # "ended"
      BY <1>8, <2>3 DEF SetupCommits, Queued
    <3> QED BY <2>1, <2>2, <3>1 DEF Working
  <2>4. CASE guild.revision # setup.revision
    <3>1. UNCHANGED <<guild, policy, row, newer>>
      BY <1>8, <2>4 DEF SetupCommits
    <3> QED BY <1>6, <2>2, <3>1
  <2> QED BY <2>3, <2>4
<1>9. CASE Claim
  <2>1. CASE guild.enabled
    <3>1. row' = "running" /\ pass'.step = "begin"
      BY <1>9, <2>1 DEF Claim, NoPass
    <3> QED BY <3>1
  <2>2. CASE ~guild.enabled
    <3>1. pass' = pass /\ guild' = guild /\ pass.step = "idle"
      BY <1>9, <2>2 DEF Claim, Quiet, LockFree
    <3> QED BY <2>2, <3>1
  <2> QED BY <2>1, <2>2
<1>10. CASE Reconcile /\ ~Claim
  <2>1. /\ TriedAgain \/ Blocked \/ Ends \/ Goes
        /\ Left \/ Goes
        /\ Working
        /\ pass'.step = "ending" /\ Goes => pass.step = "check" /\ pass.todo = {}
    BY <1>10, ReconcileIs
  <2>2. row \in {"queued", "running"}
    BY <1>1, <2>1
  <2>3. ASSUME row' = "ended" PROVE Ends /\ pass.owner /\ ~newer
    <3>1. ~Goes
      BY <2>2, <2>3 DEF Goes
    <3>2. pass.owner
      BY <2>1, <2>2, <2>3, <3>1, LeavingIs
    <3>3. ~newer /\ ~TriedAgain /\ ~Blocked
      BY <2>1, <2>3, <3>1, <3>2, Zenon DEF TriedAgain, Blocked, Ends, Leaves
    <3> QED BY <2>1, <3>1, <3>2, <3>3
  <2>4. row' = "ended" /\ ~news' /\ guild'.enabled => Secured'
    <3>1. SUFFICES ASSUME row' = "ended", ~news' PROVE Secured'
      OBVIOUS
    <3>2. Ends /\ pass.owner /\ ~newer /\ pass.step = "ending"
      BY <2>3, <3>1 DEF Ends
    <3>3. UNCHANGED <<chan, open, policy, guild, news>>
      BY <3>2 DEF Ends, Quiet, discord
    <3> QED BY <3>1, <3>2, <3>3, SecuredStays
  <2>5. pass'.step = "ending" => Secured'
    <3>1. SUFFICES ASSUME pass'.step = "ending" PROVE Secured'
      OBVIOUS
    <3>2. Goes
      BY <2>1, <3>1, LeavingIs
    <3>3. pass.step = "check" /\ pass.todo = {}
      BY <2>1, <3>1, <3>2
    <3>4. Verify
      BY <1>10, <3>3 DEF Reconcile, Begin, Persist, Check, CheckDefault, Fetch, Plan, Write, Readback,
                         Refresh, Close, Closed, Ends
    <3> QED BY <3>1, <3>4, VerifiedIsSecured, SecuredStays
  <2> QED BY <2>4, <2>5
<1>11. CASE Lapse
  <2>1. pass'.owner = FALSE
    BY <1>11 DEF Lapse, TypeOK
  <2>2. row' = "queued"
    BY <1>11 DEF Lapse
  <2> QED BY <2>1, <2>2
<1>12. CASE Restart
  <2>1. pass'.step = "idle" /\ guild' = guild /\ row' = IF guild.enabled \/ row = "running" THEN "queued" ELSE row
    BY <1>12 DEF Restart, NoPass
  <2> QED BY <2>1
<1>13. CASE UNCHANGED vars
  BY <1>6, <1>13 DEF vars, discord
<1> QED BY <1>4, <1>5, <1>7, <1>8, <1>9, <1>10, <1>11, <1>12, <1>13 DEF Next

-----------------------------------------------------------------------------
(* The course of a pass *)

\* Nobody deletes a channel.
LEMMA ThereStays ==
  ASSUME TypeOK, OnCourse, [Next]_vars
  PROVE  There \subseteq There'
<1>1. chan \in [Channels -> Overwrites \cup {None}]
  BY DEF TypeOK
<1>2. ASSUME chan' = chan PROVE There \subseteq There'
  BY <1>2 DEF There
<1>3. ASSUME NEW c \in Channels, Edit(c) PROVE There \subseteq There'
  <2>1. PICK e \in Edits[c] : chan' = Written(c, e.id, e.entry)
    BY <1>3 DEF Edit
  <2>2. e.id \in Ids /\ e.entry \in Entry
    BY <2>1, SecurityAssumption DEF ConstantsOK
  <2>3. \A d \in There : chan'[d] # None
    <3>1. c \in There
      BY <1>3 DEF Edit
    <3>2. \A d \in There : Written(c, e.id, e.entry)[d] # None
      BY <1>1, <2>2, <3>1, WrittenStays
    <3> QED BY <2>1, <3>2
  <2> QED BY <2>3 DEF There
<1>4. ASSUME NEW c \in Channels, Create(c) PROVE There \subseteq There'
  <2>1. PICK ows : chan' = [chan EXCEPT ![c] = ows]
    BY <1>4 DEF Create
  <2>2. c \notin There
    BY <1>4 DEF Create
  <2> QED BY <1>1, <2>1, <2>2 DEF There
<1>5. CASE Write
  <2>1. CASE Manages(chan[Target])
    <3>1. Target \in There /\ pass.from \in Overwrites
      BY <1>5, TargetIs DEF Write, OnCourse, AtChannel, TypeOK, Target, Position
    <3>2. NextWrite \in pass.left /\ NextWrite[2] \in Ids
      BY <1>5, NextWriteIs DEF Write, TypeOK
    <3>3. Value(NextWrite) \in Entry
      BY <3>1, <3>2, ValueTyped
    <3>4. chan' = Written(Target, NextWrite[2], Value(NextWrite))
      BY <1>5, <2>1 DEF Write
    <3>5. \A d \in There : chan'[d] # None
      <4>1. \A d \in There : Written(Target, NextWrite[2], Value(NextWrite))[d] # None
        BY <1>1, <3>1, <3>2, <3>3, WrittenStays
      <4> QED BY <3>4, <4>1
    <3> QED BY <3>5 DEF There
  <2>2. CASE ~Manages(chan[Target])
    BY <1>2, <1>5, <2>2 DEF Write
  <2> QED BY <2>1, <2>2
<1>6. CASE OpenDefault \/ Configure \/ Event \/ SetupReads \/ SetupObserves \/ SetupCommits
  BY <1>2, <1>6 DEF OpenDefault, Configure, Event, SetupReads, SetupObserves, SetupCommits, discord
<1>7. CASE Reconcile /\ ~Write
  BY <1>2, <1>7 DEF Reconcile, Claim, Begin, Persist, Check, CheckDefault, Fetch, Plan, Readback,
                    Refresh, Close, Closed, Verify, Ends, discord
<1>8. CASE Lapse \/ Restart \/ UNCHANGED vars
  BY <1>2, <1>8 DEF Lapse, Restart, vars, discord
<1> QED BY <1>3, <1>4, <1>5, <1>6, <1>7, <1>8 DEF Next, Others

\* The first target of a pass's course that is left.
LEMMA TargetThere ==
  ASSUME TypeOK, OnCourse, pass.todo # {}
  PROVE  /\ Position = 2 <=> Target = Default
         /\ Position # 2 => Target \in There /\ Target \in Channels \ {Updates} /\ chan[Target] \in Overwrites
<1>1. Default \notin Channels
  BY SecurityAssumption DEF ConstantsOK, PlacesOK
<1>2. pass.todo \subseteq DOMAIN Course
  BY DEF TypeOK
<1>3. /\ Position \in pass.todo
      /\ Position = 2 => Target = Default
      /\ Position # 2 => Target \in Channels \ {Updates}
      /\ Target = Course[Position]
  BY <1>2, TargetIs DEF Target, Position
<1>4. Position # 2 => Target \in There
  BY <1>3 DEF OnCourse
<1>5. \A c \in There : chan[c] \in Overwrites
  BY DEF There, TypeOK
<1> QED BY <1>1, <1>3, <1>4, <1>5

LEMMA OnCourseKept ==
  ASSUME TypeOK, OnCourse, [Next]_vars
  PROVE  OnCourse'
<1>0. pass \in PassType /\ There \subseteq There' /\ {Lobby, Room, Updates} \subseteq There'
  BY ThereStays DEF TypeOK, PassType, OnCourse
<1> USE DEF AtChannel, AtDefault
<1>1. ASSUME pass'.step \notin {"persist", "fetch", "plan", "write", "readback", "refresh", "close", "closed"},
             pass'.todo \subseteq pass.todo
      PROVE  OnCourse'
  BY <1>0, <1>1 DEF OnCourse
<1>2. ASSUME pass'.step = pass.step, pass'.todo = pass.todo, pass'.seen = pass.seen, pass'.from = pass.from
      PROVE  OnCourse'
  BY <1>0, <1>2 DEF OnCourse, Position
<1>3. Left => OnCourse'
  <2>1. Left => pass'.step = "idle" /\ pass'.todo = {}
    BY LeavingIs DEF NoPass
  <2> QED BY <1>1, <2>1
<1>4. NextTarget => OnCourse'
  BY <1>1, NextTargetIs
<1>5. /\ TriedAgain => OnCourse'
      /\ Blocked => OnCourse'
      /\ Leaves("ended") => OnCourse'
  BY <1>3 DEF TriedAgain, Blocked, Left
<1>6. \A s \in Steps : Continues([pass EXCEPT !.step = s]) =>
        /\ pass'.step = s /\ pass'.todo = pass.todo /\ pass'.from = pass.from
  BY <1>0 DEF Continues, PassType
<1>7. \A s \in Steps : Continues([pass EXCEPT !.step = s]) /\ s \in {"fetch", "refresh", "close", "closed", "ending"}
        /\ (s = "fetch" => pass.todo # {} /\ Position # 2)
        /\ (s \in {"refresh", "close", "closed"} => pass.todo # {} /\ Position = 2) => OnCourse'
  BY <1>0, <1>6 DEF OnCourse, Position
<1>8. CASE Others
  <2>1. pass' = pass
    BY <1>8 DEF Others, Edit, Create, OpenDefault, Configure
  <2> QED BY <1>2, <2>1
<1>9. CASE Event \/ SetupReads \/ SetupObserves \/ SetupCommits \/ UNCHANGED vars
  <2>1. pass' = pass
    BY <1>9 DEF Event, SetupReads, SetupObserves, SetupCommits, vars
  <2> QED BY <1>2, <2>1
<1>10. CASE Claim
  <2>1. pass' = pass \/ (pass'.step = "begin" /\ pass'.todo = {})
    BY <1>10 DEF Claim, NoPass
  <2> QED BY <1>1, <1>2, <2>1
<1>11. CASE Begin
  <2>1. CASE Continues([pass EXCEPT !.step = "persist", !.seen = Fetched])
    <3>1. pass'.step = "persist" /\ pass'.todo = pass.todo /\ pass'.seen = Fetched
      BY <1>0, <2>1 DEF Continues, PassType
    <3>2. \A c \in Channels : Fetched.seen[c] # None => c \in There
      BY DEF Fetched, There
    <3> QED BY <1>0, <3>1, <3>2 DEF OnCourse
  <2> QED BY <1>5, <1>11, <2>1 DEF Begin
<1>12. CASE Persist
  <2>1. CASE guild.revision = pass.revision
    <3>1. pass'.step = "check" /\ pass'.todo = Targets(pass.seen.seen)
      BY <1>0, <1>12, <2>1 DEF Persist, Continues, PassType
    <3>2. \A n \in Targets(pass.seen.seen) \ {2} : Course[n] \in There
      <4> TAKE n \in Targets(pass.seen.seen) \ {2}
      <4>1. n \in DOMAIN Course /\ (n <= 2 \/ pass.seen.seen[Course[n]] # None)
        BY DEF Targets
      <4>2. n = 1 \/ pass.seen.seen[Course[n]] # None
        BY <4>1, CourseIs
      <4>3. Course[n] \in Channels
        BY <4>1, CourseIs
      <4> QED BY <1>12, <4>2, <4>3, CourseIs DEF OnCourse, Persist
    <3> QED BY <1>0, <3>1, <3>2 DEF OnCourse
  <2>2. CASE guild.revision # pass.revision
    BY <1>5, <1>12, <2>2 DEF Persist
  <2> QED BY <2>1, <2>2
<1> USE DEF Steps
<1>13. CASE Check
  <2>1. Position # 2 /\ pass.todo # {}
    BY <1>13, TargetThere DEF Check
  <2> QED BY <1>4, <1>7, <1>13, <2>1 DEF Check
<1>14. CASE CheckDefault
  <2>1. Position = 2 /\ pass.todo # {}
    BY <1>14, TargetThere DEF CheckDefault
  <2> QED BY <1>4, <1>5, <1>7, <1>14, <2>1 DEF CheckDefault
<1>15. CASE Fetch
  <2>1. pass.todo # {} /\ Position # 2 /\ chan[Target] # None
    BY <1>15, TargetThere, SecurityAssumption DEF Fetch, OnCourse, ConstantsOK
  <2>2. CASE Continues([pass EXCEPT !.step = "plan", !.from = chan[Target]])
    <3>1. pass'.step = "plan" /\ pass'.todo = pass.todo /\ pass'.from = chan[Target]
      BY <1>0, <2>2 DEF Continues, PassType
    <3> QED BY <1>0, <2>1, <3>1 DEF OnCourse, Position
  <2> QED BY <1>5, <1>15, <2>2 DEF Fetch
<1>16. CASE Plan
  <2>1. CASE Continues([pass EXCEPT !.step = "write", !.left = Writes(pass.from, Goal)])
    <3>1. pass'.step = "write" /\ pass'.todo = pass.todo /\ pass'.from = pass.from
      BY <1>0, <2>1 DEF Continues, PassType
    <3> QED BY <1>0, <1>16, <3>1 DEF OnCourse, Position, Plan
  <2> QED BY <1>4, <1>5, <1>16, <2>1 DEF Plan
<1>17. CASE Write
  <2>1. CASE Manages(chan[Target])
    <3>1. PICK s \in {"write", "readback"} : pass' = [pass EXCEPT !.left = pass.left \ {NextWrite}, !.step = s]
      BY <1>17, <2>1 DEF Write, Continues
    <3>2. pass'.step = s /\ pass'.todo = pass.todo /\ pass'.from = pass.from
      BY <1>0, <3>1 DEF PassType
    <3> QED BY <1>0, <1>17, <3>2 DEF OnCourse, Position, Write
  <2>2. CASE ~Manages(chan[Target])
    BY <1>5, <1>17, <2>2 DEF Write
  <2> QED BY <2>1, <2>2
<1>18. CASE Readback
  BY <1>4, <1>5, <1>18 DEF Readback
<1>19. CASE Refresh \/ Close
  BY <1>4, <1>5, <1>7, <1>19 DEF Refresh, Close, OnCourse
<1>20. CASE Closed
  BY <1>4, <1>5, <1>20 DEF Closed
<1>21. CASE Verify
  BY <1>5, <1>7, <1>21 DEF Verify
<1>22. CASE Ends
  BY <1>5, <1>22 DEF Ends
<1>23. CASE Lapse
  <2>1. /\ pass'.step = pass.step /\ pass'.todo = pass.todo /\ pass'.seen = pass.seen /\ pass'.from = pass.from
    BY <1>0, <1>23 DEF Lapse, PassType
  <2> QED BY <1>2, <2>1
<1>24. CASE Restart
  <2>1. pass'.step = "idle" /\ pass'.todo = {}
    BY <1>24 DEF Restart, NoPass
  <2> QED BY <1>1, <2>1
<1> QED BY <1>8, <1>9, <1>10, <1>11, <1>12, <1>13, <1>14, <1>15, <1>16, <1>17, <1>18, <1>19, <1>20, <1>21,
         <1>22, <1>23, <1>24 DEF Next, Reconcile

-----------------------------------------------------------------------------
(* The writes of a channel *)

LEMMA WritesAre ==
  ASSUME NEW from, NEW to, NEW id \in Ids
  PROVE  /\ <<1, id>> \in Writes(from, to) <=> id = Self /\ from[id] # to[id]
         /\ <<2, id>> \in Writes(from, to) <=> id # Self /\ from[id] # to[id] /\ Meet(from[id], to[id]) # from[id]
         /\ <<3, id>> \in Writes(from, to) <=> id # Self /\ from[id] # to[id] /\ Meet(from[id], to[id]) # to[id]
BY DEF Writes, OwnWrites, MeetWrites, FinalWrites, Changed

\* Before the first write the channel is as it was, after the last one as it should be.
LEMMA AfterAll ==
  ASSUME NEW from \in Overwrites, NEW to \in Overwrites
  PROVE  /\ After(from, to, Writes(from, to)) = from
         /\ After(from, to, {}) = to
<1>1. ASSUME NEW id \in Ids PROVE After(from, to, Writes(from, to))[id] = from[id]
  BY WritesAre DEF After
<1>2. \A id \in Ids : After(from, to, {})[id] = to[id]
  BY DEF After
<1> QED BY <1>1, <1>2 DEF After, Overwrites

LEMMA AfterOne ==
  ASSUME NEW from \in Overwrites, NEW to \in Overwrites, NEW left, InTurn(from, to, left), NEW w \in left,
         \A v \in left \ {w} : Before(w, v)
  PROVE  /\ InTurn(from, to, left \ {w})
         /\ \A id \in Ids : After(from, to, left \ {w})[id] =
              IF id # w[2] THEN After(from, to, left)[id]
              ELSE IF w[1] = 2 THEN Meet(from[id], to[id]) ELSE to[id]
<1>1. left \subseteq (1..3) \X Ids /\ left \subseteq Writes(from, to)
  BY WritesTyped DEF InTurn
<1>2. InTurn(from, to, left \ {w})
  BY DEF InTurn
<1>3. PICK k \in 1..3, id \in Ids : w = <<k, id>>
  BY <1>1
<1>4. \A n \in 1..3 : <<n, id>> \in left \ {w} <=> <<n, id>> \in left /\ n # k
  BY <1>3
<1>5. \A other \in Ids \ {id}, n \in 1..3 : <<n, other>> \in left \ {w} <=> <<n, other>> \in left
  BY <1>3
<1>6. \A n \in 1..3 : <<n, id>> \in left /\ n # k => k < n
  <2> SUFFICES ASSUME NEW n \in 1..3, <<n, id>> \in left, n # k PROVE k < n
    OBVIOUS
  <2>1. Before(w, <<n, id>>)
    BY <1>4
  <2>2. Rank[id] \in Nat
    BY SecurityAssumption DEF ConstantsOK
  <2> QED BY <1>3, <2>1, <2>2 DEF Before
<1>7. \A n \in 1..3 : <<n, id>> \in Writes(from, to) /\ <<n, id>> \notin left => n < k
  <2> SUFFICES ASSUME NEW n \in 1..3, <<n, id>> \in Writes(from, to), <<n, id>> \notin left PROVE n < k
    OBVIOUS
  <2>1. Before(<<n, id>>, w)
    BY DEF InTurn
  <2>2. Rank[id] \in Nat
    BY SecurityAssumption DEF ConstantsOK
  <2> QED BY <1>3, <2>1, <2>2 DEF Before
<1> DEFINE value == IF k = 2 THEN Meet(from[id], to[id]) ELSE to[id]
<1>8. After(from, to, left \ {w})[id] = value
  <2>1. CASE k = 1
    <3>1. id = Self
      BY <1>1, <1>3, <2>1, WritesAre
    <3>2. <<2, id>> \notin left /\ <<3, id>> \notin left
      BY <1>1, <3>1, WritesAre
    <3> QED BY <1>4, <2>1, <3>2 DEF After
  <2>2. CASE k = 2
    <3>1. <<1, id>> \notin left \ {w} /\ <<2, id>> \notin left \ {w}
      BY <1>4, <1>6, <2>2
    <3>2. CASE <<3, id>> \in left
      BY <1>4, <2>2, <3>1, <3>2 DEF After
    <3>3. CASE <<3, id>> \notin left
      <4>1. <<3, id>> \notin Writes(from, to)
        BY <1>7, <2>2, <3>3
      <4>2. <<2, id>> \in Writes(from, to)
        BY <1>1, <1>3, <2>2
      <4>3. Meet(from[id], to[id]) = to[id]
        BY <4>1, <4>2, WritesAre
      <4> QED BY <1>4, <2>2, <3>1, <3>3, <4>3 DEF After
    <3> QED BY <3>2, <3>3
  <2>3. CASE k = 3
    <3>1. <<1, id>> \notin left \ {w} /\ <<2, id>> \notin left \ {w} /\ <<3, id>> \notin left \ {w}
      BY <1>4, <1>6, <2>3
    <3> QED BY <2>3, <3>1 DEF After
  <2> QED BY <2>1, <2>2, <2>3
<1>9. ASSUME NEW other \in Ids \ {id}
      PROVE  After(from, to, left \ {w})[other] = After(from, to, left)[other]
  BY <1>5 DEF After
<1> QED BY <1>2, <1>3, <1>8, <1>9

LEMMA InWritingKept ==
  ASSUME TypeOK, Ownership, OnCourse, InWriting, [Next]_vars
  PROVE  InWriting'
<1>0. pass \in PassType /\ chan \in [Channels -> Overwrites \cup {None}]
  BY DEF TypeOK, PassType
<1> DEFINE Planned == pass.step \in {"plan", "write", "readback"}
<1>1. Planned => Target \in Channels /\ Target \in There /\ chan[Target] \in Overwrites /\ pass.from \in Overwrites
  BY <1>0, TargetThere DEF OnCourse, AtChannel, PassType
<1>2. ASSUME pass'.step \notin {"plan", "write", "readback"} PROVE InWriting'
  BY <1>2 DEF InWriting, Writing
<1>3. ASSUME pass'.step = pass.step, pass'.todo = pass.todo, pass'.from = pass.from, pass'.left = pass.left,
             pass'.access = pass.access,
             Planned => policy' = policy,
             Planned /\ Target \notin meddled' => Target \notin meddled /\ chan'[Target] = chan[Target]
      PROVE  InWriting'
  <2>1. CASE ~Planned
    BY <1>2, <1>3, <2>1
  <2>2. CASE Planned
    <3>1. Target' = Target /\ Goal' = Goal
      BY <1>3, <2>2 DEF Target, Goal, To, Audience
    <3> QED BY <1>3, <2>2, <3>1 DEF InWriting, Writing
  <2> QED BY <2>1, <2>2
<1>4. Left => InWriting'
  BY <1>2, LeavingIs
<1>5. NextTarget => InWriting'
  BY <1>2, NextTargetIs
<1>6. /\ TriedAgain => InWriting'
      /\ Blocked => InWriting'
      /\ Leaves("ended") => InWriting'
  BY <1>4 DEF TriedAgain, Blocked, Left
<1>7. \A s \in Steps \ {"plan", "write", "readback"} : Continues([pass EXCEPT !.step = s]) => InWriting'
  BY <1>0, <1>2 DEF Continues, PassType
<1>8. ASSUME NEW c \in Channels, Edit(c) PROVE InWriting'
  <2>1. pass' = pass /\ policy' = policy /\ meddled' = meddled \cup {d \in Channels : chan'[d] # chan[d]}
    BY <1>8 DEF Edit
  <2> QED BY <1>1, <1>3, <2>1
<1>9. ASSUME NEW c \in Channels, Create(c) PROVE InWriting'
  <2>1. pass' = pass /\ policy' = policy /\ meddled' = meddled \cup {c} /\ \A d \in Channels \ {c} : chan'[d] = chan[d]
    BY <1>0, <1>9 DEF Create
  <2> QED BY <1>1, <1>3, <2>1
<1>10. CASE OpenDefault
  <2>1. pass' = pass /\ policy' = policy /\ meddled' = There
    BY <1>10 DEF OpenDefault
  <2> QED BY <1>1, <1>3, <2>1
<1>11. CASE Configure \/ Event \/ SetupReads \/ SetupObserves \/ UNCHANGED vars
  <2>1. UNCHANGED <<pass, policy, meddled, chan>>
    BY <1>11 DEF Configure, Event, SetupReads, SetupObserves, vars, discord, histories
  <2> QED BY <1>3, <2>1
<1>12. CASE SetupCommits
  <2>1. ~Planned
    BY <1>12 DEF SetupCommits, Ownership, Working
  <2>2. pass' = pass
    BY <1>12 DEF SetupCommits
  <2> QED BY <1>3, <2>1, <2>2
<1>13. CASE Claim
  <2>1. pass'.step \in {"idle", "begin"}
    BY <1>13 DEF Claim, NoPass, LockFree
  <2> QED BY <1>2, <2>1
<1>14. CASE Begin
  <2>1. Continues([pass EXCEPT !.step = "persist", !.seen = Fetched]) => pass'.step = "persist"
    BY <1>0 DEF Continues, PassType
  <2> QED BY <1>2, <1>6, <1>14, <2>1 DEF Begin
<1>15. CASE Persist
  <2>1. Continues([pass EXCEPT !.step = "check", !.seen = None, !.todo = Targets(pass.seen.seen)])
          => pass'.step = "check"
    BY <1>0 DEF Continues, PassType
  <2> QED BY <1>2, <1>6, <1>15, <2>1 DEF Persist
<1> USE DEF Steps
<1>16. CASE Check \/ CheckDefault
  BY <1>5, <1>6, <1>7, <1>16 DEF Check, CheckDefault
<1>17. CASE Fetch
  <2>1. CASE Continues([pass EXCEPT !.step = "plan", !.from = chan[Target]])
    <3>1. pass' = [pass EXCEPT !.step = "plan", !.from = chan[Target]]
      BY <2>1 DEF Continues
    <3>2. pass'.step = "plan" /\ pass'.todo = pass.todo /\ pass'.from = chan[Target]
      BY <1>0, <3>1 DEF PassType
    <3>3. Target' = Target /\ chan' = chan
      BY <1>17, <3>2 DEF Fetch, Target
    <3> QED BY <3>2, <3>3 DEF InWriting, Writing
  <2> QED BY <1>6, <1>17, <2>1 DEF Fetch
<1>18. CASE Plan
  <2>1. CASE Continues([pass EXCEPT !.step = "write", !.left = Writes(pass.from, Goal)]) /\ pass.from # Goal
    <3>1. /\ pass'.step = "write" /\ pass'.todo = pass.todo /\ pass'.from = pass.from
          /\ pass'.left = Writes(pass.from, Goal) /\ pass'.access = pass.access
      BY <1>0, <2>1 DEF Continues, PassType
    <3>2. Goal \in Overwrites /\ pass.from \in Overwrites
      BY <1>1, <1>18, DesiredTyped DEF Plan, Goal, To
    <3>3. UNCHANGED <<policy, chan, meddled>>
      BY <1>18 DEF Plan, Quiet, discord
    <3>4. Target' = Target /\ Goal' = Goal
      BY <3>1, <3>3 DEF Target, Goal, To, Audience
    <3>5. InTurn(pass.from, Goal, Writes(pass.from, Goal))
      BY DEF InTurn
    <3>6. After(pass.from, Goal, Writes(pass.from, Goal)) = pass.from
      BY <3>2, AfterAll
    <3>7. Writes(pass.from, Goal) # {}
      <4>1. After(pass.from, Goal, {}) = Goal
        BY <3>2, AfterAll
      <4> QED BY <2>1, <3>6, <4>1
    <3>8. Target \notin meddled => chan[Target] = pass.from
      BY <1>18 DEF InWriting, Plan
    <3> QED BY <3>1, <3>3, <3>4, <3>5, <3>6, <3>7, <3>8 DEF InWriting, Writing
  <2> QED BY <1>5, <1>6, <1>18, <2>1 DEF Plan
<1>19. CASE Write
  <2>1. CASE Manages(chan[Target])
    <3> DEFINE left == pass.left \ {NextWrite}
    <3>1. pass' = [pass EXCEPT !.left = left, !.step = IF left = {} THEN "readback" ELSE pass.step]
          /\ chan' = Written(Target, NextWrite[2], Value(NextWrite)) /\ pass.step = "write" /\ pass.left # {}
      BY <1>19, <2>1 DEF Write, Continues
    <3>2. /\ pass'.step \in {"write", "readback"} /\ pass'.todo = pass.todo /\ pass'.from = pass.from
          /\ pass'.left = left /\ pass'.access = pass.access
          /\ pass'.step = "write" <=> left # {}
      BY <1>0, <3>1 DEF PassType
    <3>3. UNCHANGED <<policy, meddled>>
      BY <1>19 DEF Write, Quiet
    <3>4. Target' = Target /\ Goal' = Goal
      BY <3>2, <3>3 DEF Target, Goal, To, Audience
    <3>5. Goal \in Overwrites /\ pass.from \in Overwrites
      BY <1>1, <3>1, DesiredTyped DEF Goal, To
    <3>6. InTurn(pass.from, Goal, pass.left)
      BY <3>1 DEF InWriting, Writing
    <3>7. pass.left \subseteq (1..3) \X Ids
      BY <1>0 DEF PassType
    <3>8. NextWrite \in pass.left /\ \A v \in left : Before(NextWrite, v)
      BY <3>1, <3>7, NextWriteIs
    <3>9. InTurn(pass.from, Goal, left)
      BY <3>5, <3>6, <3>8, AfterOne
    <3>10. \A id \in Ids : After(pass.from, Goal, left)[id] =
             IF id # NextWrite[2] THEN After(pass.from, Goal, pass.left)[id] ELSE Value(NextWrite)
      <4> DEFINE w == NextWrite
      <4>1. w \in pass.left /\ \A v \in pass.left \ {w} : Before(w, v)
        BY <3>8
      <4> HIDE DEF w
      <4>2. \A id \in Ids : After(pass.from, Goal, pass.left \ {w})[id] =
              IF id # w[2] THEN After(pass.from, Goal, pass.left)[id]
              ELSE IF w[1] = 2 THEN Meet(pass.from[id], Goal[id]) ELSE Goal[id]
        BY <3>5, <3>6, <4>1, AfterOne
      <4> QED BY <4>2 DEF Value, w
    <3>11. Target \notin meddled => chan[Target] = After(pass.from, Goal, pass.left)
      BY <3>1 DEF InWriting, Writing
    <3>12. chan'[Target] = [chan[Target] EXCEPT ![NextWrite[2]] = Value(NextWrite)]
      <4>1. NextWrite[2] \in Ids
        BY <3>7, <3>8
      <4>2. Value(NextWrite) \in Entry
        BY <3>5, <4>1, ValueTyped
      <4>3. Target \in There
        BY <1>1, <3>1
      <4>4. Written(Target, NextWrite[2], Value(NextWrite))[Target]
              = [chan[Target] EXCEPT ![NextWrite[2]] = Value(NextWrite)]
        BY <1>0, <4>1, <4>2, <4>3, WrittenIs
      <4> QED BY <3>1, <4>4
    <3>13. Target \notin meddled => chan'[Target] = After(pass.from, Goal, left)
      <4>1. \A rest : After(pass.from, Goal, rest) = [id \in Ids |-> After(pass.from, Goal, rest)[id]]
        BY DEF After
      <4>2. Target \notin meddled =>
              chan'[Target] = [id \in Ids |-> IF id # NextWrite[2] THEN After(pass.from, Goal, pass.left)[id]
                                             ELSE Value(NextWrite)]
        <5> DEFINE old == After(pass.from, Goal, pass.left)
                   key == NextWrite[2]
                   value == Value(NextWrite)
        <5>1. old = [id \in Ids |-> old[id]]
          BY <4>1
        <5>2. (Target \notin meddled => chan[Target] = old) /\ chan'[Target] = [chan[Target] EXCEPT ![key] = value]
          BY <3>11, <3>12
        <5> HIDE DEF old, key, value
        <5>3. [old EXCEPT ![key] = value] = [id \in Ids |-> IF id # key THEN old[id] ELSE value]
          BY <5>1
        <5>4. Target \notin meddled => chan'[Target] = [id \in Ids |-> IF id # key THEN old[id] ELSE value]
          BY <5>2, <5>3
        <5> QED BY <5>4 DEF old, key, value
      <4> DEFINE next == [id \in Ids |-> IF id # NextWrite[2] THEN After(pass.from, Goal, pass.left)[id]
                                        ELSE Value(NextWrite)]
      <4>3. After(pass.from, Goal, left) = next
        <5> DEFINE after == After(pass.from, Goal, left)
        <5>1. \A id \in Ids : after[id] = next[id]
          BY <3>10
        <5>2. after = [id \in Ids |-> after[id]]
          BY <4>1
        <5>3. next = [id \in Ids |-> next[id]]
          OBVIOUS
        <5> HIDE DEF after, next
        <5> QED BY <5>1, <5>2, <5>3 DEF after
      <4> QED BY <4>2, <4>3
    <3> HIDE DEF left
    <3> QED BY <3>2, <3>3, <3>4, <3>9, <3>13 DEF InWriting, Writing
  <2>2. CASE ~Manages(chan[Target])
    BY <1>6, <1>19, <2>2 DEF Write
  <2> QED BY <2>1, <2>2
<1>20. CASE Readback
  BY <1>5, <1>6, <1>20 DEF Readback
<1>21. CASE Refresh \/ Close \/ Closed
  BY <1>5, <1>6, <1>7, <1>21 DEF Refresh, Close, Closed
<1>22. CASE Verify \/ Ends
  BY <1>6, <1>7, <1>22 DEF Verify, Ends
<1>23. CASE Lapse
  <2>1. /\ pass'.step = pass.step /\ pass'.todo = pass.todo /\ pass'.from = pass.from /\ pass'.left = pass.left
        /\ pass'.access = pass.access
    BY <1>0, <1>23 DEF Lapse, PassType
  <2>2. UNCHANGED <<policy, meddled, chan>>
    BY <1>23 DEF Lapse, discord, histories
  <2> QED BY <1>3, <2>1, <2>2
<1>24. CASE Restart
  <2>1. pass'.step = "idle"
    BY <1>24 DEF Restart, NoPass
  <2> QED BY <1>2, <2>1
<1> QED BY <1>8, <1>9, <1>10, <1>11, <1>12, <1>13, <1>14, <1>15, <1>16, <1>17, <1>18, <1>19, <1>20, <1>21,
         <1>22, <1>23, <1>24 DEF Next, Others, Reconcile

-----------------------------------------------------------------------------
(* The lobby and the default *)

LEMMA BehindTheLobbyKept ==
  ASSUME TypeOK, Ownership, OnCourse, InWriting, BehindTheLobby, [Next]_vars
  PROVE  BehindTheLobby'
<1>0. /\ pass \in PassType /\ chan \in [Channels -> Overwrites \cup {None}]
      /\ {Lobby, Updates} \subseteq Channels /\ Lobby # Updates /\ {Lobby, Updates} \subseteq There
  BY SecurityAssumption DEF TypeOK, PassType, ConstantsOK, PlacesOK, OnCourse
<1>1. ASSUME pass'.step \notin {"persist", "check", "refresh", "close"} PROVE BehindTheLobby'
  BY <1>1 DEF BehindTheLobby
<1>2. ASSUME pass'.step = pass.step, pass'.todo = pass.todo, pass'.access = pass.access,
             cache' = cache \/ cache' = Fetched,
             \A c \in {Lobby, Updates} : c \notin meddled' => c \notin meddled /\ chan'[c] = chan[c]
      PROVE  BehindTheLobby'
  <2>1. Position' = Position
    BY <1>2 DEF Position
  <2>2. Updates \notin meddled' => (Preserved(chan') <=> Preserved(chan))
    BY <1>2 DEF Preserved, Inherits
  <2>3. Lobby \notin meddled' => Lobby \notin meddled /\ chan'[Lobby] = chan[Lobby]
    BY <1>2
  <2>4. cache' = cache \/ cache'.seen[Lobby] = chan[Lobby]
    BY <1>2 DEF Fetched
  <2>5. Updates \notin meddled' => Updates \notin meddled
    BY <1>2
  <2> QED BY <1>2, <2>1, <2>2, <2>3, <2>4, <2>5 DEF BehindTheLobby
<1>3. Left => BehindTheLobby'
  BY <1>1, LeavingIs
<1>4. /\ TriedAgain => BehindTheLobby'
      /\ Blocked => BehindTheLobby'
      /\ Leaves("ended") => BehindTheLobby'
  BY <1>3 DEF TriedAgain, Blocked, Left
<1>5. ASSUME NextTarget, pass.todo # {},
             Position = 1 /\ Lobby \notin meddled' => Settled(pass.access, "lobby", chan'[Lobby])
      PROVE  BehindTheLobby'
  <2>1. /\ pass'.step = "check" /\ pass'.todo = pass.todo \ {Position} /\ pass'.access = pass.access
    BY <1>5, NextTargetIs
  <2>2. /\ pass.todo \subseteq Nat \ {0} /\ Position \in pass.todo
        /\ \A n \in pass.todo \ {Position} : Position < n
        /\ 1 \in pass.todo => Position = 1
    BY <1>0, <1>5, CourseIs, TargetIs DEF PassType
  <2>3. 1 \notin pass'.todo
    BY <2>1, <2>2
  <2>4. pass'.todo # {} => Position' \in pass'.todo
    BY <2>1, <2>2, LeastExists DEF Position
  <2>5. pass'.todo # {} /\ Position' = 2 => Position = 1
    BY <2>1, <2>2, <2>4
  <2> QED BY <1>5, <2>1, <2>3, <2>5 DEF BehindTheLobby
<1>6. \A s \in Steps \ {"persist", "check", "refresh", "close"} : Continues([pass EXCEPT !.step = s]) => BehindTheLobby'
  BY <1>0, <1>1 DEF Continues, PassType
<1>7. \A s \in Steps : Continues([pass EXCEPT !.step = s]) =>
        pass'.step = s /\ pass'.todo = pass.todo /\ pass'.access = pass.access /\ Position' = Position
  BY <1>0 DEF Continues, PassType, Position
<1>8. ASSUME NEW c \in Channels, Edit(c) PROVE BehindTheLobby'
  <2>1. pass' = pass /\ cache' = cache /\ meddled' = meddled \cup {d \in Channels : chan'[d] # chan[d]}
    BY <1>8 DEF Edit
  <2> QED BY <1>0, <1>2, <2>1
<1>9. ASSUME NEW c \in Channels, Create(c) PROVE BehindTheLobby'
  <2>1. pass' = pass /\ cache' = cache /\ meddled' = meddled \cup {c} /\ \A d \in Channels \ {c} : chan'[d] = chan[d]
    BY <1>0, <1>9 DEF Create
  <2> QED BY <1>0, <1>2, <2>1
<1>10. CASE OpenDefault
  <2>1. pass' = pass /\ cache' = cache /\ meddled' = There
    BY <1>10 DEF OpenDefault
  <2> QED BY <1>0, <1>2, <2>1
<1>11. CASE Configure \/ Event \/ SetupReads \/ SetupObserves \/ SetupCommits \/ UNCHANGED vars
  <2>1. UNCHANGED <<pass, meddled, chan>> /\ (cache' = cache \/ cache' = Fetched)
    BY <1>11 DEF Configure, Event, SetupReads, SetupObserves, SetupCommits, vars, discord, histories
  <2> QED BY <1>2, <2>1
<1>12. CASE Claim
  <2>1. pass'.step \in {"idle", "begin"}
    BY <1>12 DEF Claim, NoPass, LockFree
  <2> QED BY <1>1, <2>1
<1>13. CASE Begin
  <2>1. CASE Continues([pass EXCEPT !.step = "persist", !.seen = Fetched]) /\ cache' = Fetched
    <3>1. pass'.step = "persist" /\ chan' = chan /\ cache'.seen = chan
      BY <1>0, <1>13, <2>1 DEF Begin, Continues, PassType, Fetched
    <3> QED BY <3>1 DEF BehindTheLobby
  <2> QED BY <1>4, <1>13, <2>1 DEF Begin
<1>14. CASE Persist
  <2>1. CASE guild.revision = pass.revision
    <3>1. pass'.step = "check" /\ pass'.todo = Targets(pass.seen.seen)
      BY <1>0, <1>14, <2>1 DEF Persist, Continues, PassType
    <3>2. UNCHANGED <<chan, cache, meddled>> /\ pass.step = "persist"
      BY <1>14 DEF Persist, discord, histories
    <3>3. pass'.todo \subseteq DOMAIN Course /\ 1 \in pass'.todo
      BY <3>1, CourseIs DEF Targets
    <3>4. Position' = 1
      <4>1. pass'.todo \subseteq Nat \ {0}
        BY <3>3, CourseIs
      <4> QED BY <3>3, <4>1, LeastExists DEF Position
    <3> QED BY <3>1, <3>2, <3>4 DEF BehindTheLobby
  <2>2. CASE guild.revision # pass.revision
    BY <1>4, <1>14, <2>2 DEF Persist
  <2> QED BY <2>1, <2>2
<1> USE DEF Steps
<1>15. \A ows : To(Lobby, ows) = Desired(pass.access, "lobby", ows)
  BY DEF To, Audience
<1>16. Position = 1 => Target = Lobby
  BY CourseIs DEF Position, Target
<1>17. CASE Check
  <2>1. CASE NextTarget /\ cache.seen[Target] = To(Target, cache.seen[Target])
    <3>1. UNCHANGED <<chan, meddled>> /\ pass.step = "check" /\ pass.todo # {}
      BY <1>17 DEF Check, discord
    <3>2. Position \in pass.todo
      BY <1>0, <3>1, TargetIs DEF PassType
    <3>3. Position = 1 /\ Lobby \notin meddled => cache.seen[Lobby] = chan[Lobby]
      BY <3>1, <3>2 DEF BehindTheLobby
    <3>4. Position = 1 /\ Lobby \notin meddled => Settled(pass.access, "lobby", chan[Lobby])
      BY <1>15, <1>16, <2>1, <3>3 DEF Settled
    <3> QED BY <1>5, <2>1, <3>1, <3>4
  <2>2. CASE Continues([pass EXCEPT !.step = "fetch"])
    BY <1>6, <2>2
  <2> QED BY <1>17, <2>1, <2>2 DEF Check
<1>18. CASE Fetch
  <2>1. Continues([pass EXCEPT !.step = "plan", !.from = chan[Target]]) => pass'.step = "plan"
    BY <1>0 DEF Continues, PassType
  <2> QED BY <1>1, <1>4, <1>18, <2>1 DEF Fetch
<1>19. CASE Plan
  <2>1. CASE NextTarget /\ pass.from = Goal
    <3>1. UNCHANGED <<chan, meddled>> /\ pass.step = "plan" /\ pass.todo # {}
      BY <1>19 DEF Plan, discord, OnCourse, AtChannel
    <3>2. Target \notin meddled => chan[Target] = pass.from
      BY <3>1 DEF InWriting
    <3>3. Position = 1 /\ Lobby \notin meddled => Settled(pass.access, "lobby", chan[Lobby])
      BY <1>15, <1>16, <2>1, <3>2 DEF Settled, Goal
    <3> QED BY <1>5, <2>1, <3>1, <3>3
  <2>2. Continues([pass EXCEPT !.step = "write", !.left = Writes(pass.from, Goal)]) => pass'.step = "write"
    BY <1>0 DEF Continues, PassType
  <2> QED BY <1>1, <1>4, <1>19, <2>1, <2>2 DEF Plan
<1>20. CASE Write
  <2>1. CASE Manages(chan[Target])
    <3>1. PICK s \in {"write", "readback"} : pass' = [pass EXCEPT !.left = pass.left \ {NextWrite}, !.step = s]
      BY <1>20, <2>1 DEF Write, Continues
    <3>2. pass'.step = s
      BY <1>0, <3>1 DEF PassType
    <3> QED BY <1>1, <3>2
  <2>2. CASE ~Manages(chan[Target])
    BY <1>4, <1>20, <2>2 DEF Write
  <2> QED BY <2>1, <2>2
<1>21. CASE Readback
  <2>1. CASE NextTarget /\ chan[Target] = To(Target, chan[Target])
    <3>1. UNCHANGED <<chan, meddled>> /\ pass.todo # {}
      BY <1>21 DEF Readback, OnCourse, AtChannel
    <3>2. Position = 1 => Settled(pass.access, "lobby", chan[Lobby])
      BY <1>15, <1>16, <2>1 DEF Settled
    <3> QED BY <1>5, <2>1, <3>1, <3>2
  <2> QED BY <1>4, <1>21, <2>1 DEF Readback
<1>22. CASE CheckDefault
  <2>1. pass.todo # {} /\ Position = 2 /\ UNCHANGED <<chan, cache, meddled>> /\ pass.step = "check"
    BY <1>22, TargetThere DEF CheckDefault, discord
  <2>2. CASE Continues([pass EXCEPT !.step = "refresh"])
    BY <1>7, <2>1, <2>2 DEF BehindTheLobby
  <2> QED BY <1>4, <1>5, <1>22, <2>1, <2>2 DEF CheckDefault
<1>23. CASE Refresh
  <2>1. pass.todo # {} /\ Position = 2 /\ chan' = chan /\ meddled' = meddled \ {Updates} /\ pass.step = "refresh"
    BY <1>23 DEF Refresh, OnCourse, AtDefault
  <2>2. CASE Continues([pass EXCEPT !.step = "close"]) /\ ~Preserved(chan)
    <3>1. pass'.step = "close" /\ pass'.todo = pass.todo /\ pass'.access = pass.access /\ Position' = Position
      BY <1>7, <2>2
    <3>2. ~Preserved(chan')
      BY <2>1, <2>2
    <3>3. Lobby \notin meddled' => Settled(pass.access, "lobby", chan[Lobby])
      BY <1>0, <2>1 DEF BehindTheLobby
    <3> QED BY <2>1, <3>1, <3>2, <3>3 DEF BehindTheLobby
  <2> QED BY <1>5, <1>23, <2>1, <2>2 DEF Refresh
<1>24. CASE Close
  <2>1. pass.todo # {} /\ Position = 2
    BY <1>24 DEF Close, OnCourse, AtDefault
  <2> QED BY <1>4, <1>5, <1>6, <1>24, <2>1 DEF Close
<1>25. CASE Closed
  <2>1. pass.todo # {} /\ Position = 2
    BY <1>25 DEF Closed, OnCourse, AtDefault
  <2> QED BY <1>4, <1>5, <1>25, <2>1 DEF Closed
<1>26. CASE Verify \/ Ends
  BY <1>4, <1>6, <1>26 DEF Verify, Ends
<1>27. CASE Lapse
  <2>1. /\ pass'.step = pass.step /\ pass'.todo = pass.todo /\ pass'.access = pass.access
    BY <1>0, <1>27 DEF Lapse, PassType
  <2>2. UNCHANGED <<meddled, chan, cache>>
    BY <1>27 DEF Lapse, discord, histories
  <2> QED BY <1>2, <2>1, <2>2
<1>28. CASE Restart
  <2>1. pass'.step = "idle"
    BY <1>28 DEF Restart, NoPass
  <2> QED BY <1>1, <2>1
<1> QED BY <1>8, <1>9, <1>10, <1>11, <1>12, <1>13, <1>14, <1>17, <1>18, <1>19, <1>20, <1>21, <1>22, <1>23,
         <1>24, <1>25, <1>26, <1>27, <1>28 DEF Next, Others, Reconcile

LEMMA InitHolds ==
  ASSUME Init
  PROVE  Inv
<1> USE DEF Init
<1>1. /\ chan \in [Channels -> Overwrites \cup {None}] /\ Bindings \subseteq Access
      /\ \A c \in {Lobby, Room, Updates} : c \in Channels /\ chan[c] # None
  BY SecurityAssumption DEF ConstantsOK, PlacesOK
<1>2. pass = NoPass /\ pass.step = "idle" /\ ~pass.owner /\ setup.step = "reads" /\ pass.todo = {}
  BY DEF NoPass, NoSetup
<1>3. TypeOK
  <2>1. NoPass \in PassType /\ setup \in SetupType
    BY DEF NoPass, PassType, Steps, NoSetup, SetupType
  <2>2. Fetched \in Snapshot
    BY <1>1 DEF Fetched, Snapshot
  <2>3. guild \in GuildType /\ policy \in [Channels -> {"unseen", "staff", "open"}]
    BY DEF GuildType
  <2>4. private \subseteq Channels
    BY DEF Managed, There
  <2>5. pass \in PassType
    BY <1>2, <2>1
  <2>6. open \in BOOLEAN /\ cache \in Snapshot /\ news \in BOOLEAN /\ newer \in BOOLEAN /\ row \in RowType
    BY <2>2 DEF RowType
  <2>7. {private, given, meddled} \subseteq SUBSET Channels /\ {edits, faults} \subseteq Nat
    BY <2>4
  <2> QED BY ONLY <1>1, <2>1, <2>3, <2>5, <2>6, <2>7 DEF TypeOK, PassType, SetupType, GuildType, RowType
<1>4. Ownership /\ Finished
  BY <1>2 DEF Ownership, Finished, Working
<1>5. OnCourse
  BY <1>1, <1>2 DEF OnCourse, There, AtChannel, AtDefault
<1>6. InWriting /\ BehindTheLobby
  BY <1>2 DEF InWriting, BehindTheLobby, Writing
<1> QED BY <1>3, <1>4, <1>5, <1>6 DEF Inv

LEMMA InvKept ==
  ASSUME Inv, [Next]_vars
  PROVE  Inv'
BY TypeKept, OwnershipKept, FinishedKept, OnCourseKept, InWritingKept, BehindTheLobbyKept DEF Inv

\* Whatever others do, and wherever TaruBot stops: the row runs exactly while an attempt
\* holds it, a pass works on channels that exist, with the roles of the revision it
\* read, and a channel nobody else touched is exactly as far as the writes done.
THEOREM PassIsSound == Spec => []Inv
BY InitHolds, InvKept, PTL DEF Spec

\* Once the row has succeeded and no event is on its way, every managed channel is as
\* the policy wants it, for any channels, settings and edits of others.
THEOREM LeavesNothingOpen == Spec => []NothingIsLeftOpen
<1>1. Inv => NothingIsLeftOpen
  BY DEF Inv, Finished, Secured, NothingIsLeftOpen
<1> QED BY <1>1, PassIsSound, PTL

-----------------------------------------------------------------------------
(* The writes are safe *)

\* While a channel is being closed nobody may do more than before, and while it is being
\* opened nobody may do more than after.
LEMMA StaysWithin ==
  ASSUME NEW from \in Overwrites, NEW to \in Overwrites, NEW left, InTurn(from, to, left),
         NEW base \in SUBSET Bits, NEW held \in SUBSET Roles, NEW own \in People
  PROVE  \/ Permissions(base, held, own, After(from, to, left)) \subseteq Permissions(base, held, own, from)
         \/ Permissions(base, held, own, After(from, to, left)) \subseteq Permissions(base, held, own, to)
<1>0. PartiesOK /\ own \in Ids /\ own # Self
  BY SecurityAssumption DEF ConstantsOK, PartiesOK, Ids
<1>1. \A id \in Ids : from[id] \in Entry /\ to[id] \in Entry
  BY DEF Overwrites
<1> DEFINE now == After(from, to, left)
<1>2. \A id \in Ids : now[id] \in {from[id], to[id], Meet(from[id], to[id])}
  BY DEF After
<1>3. now \in Overwrites
  BY <1>1, <1>2, MeetIsTighter DEF After, Overwrites
<1>4. \A x \in Entry : Tighter(x, x)
  BY DEF Tighter
<1>5. CASE \E w \in left : w[1] # 3
  <2>1. PICK w \in left : w[1] \in {1, 2}
    BY <1>5, WritesTyped DEF InTurn
  <2>2. \A id \in Ids \ {Self} : now[id] \in {from[id], Meet(from[id], to[id])}
    <3> SUFFICES ASSUME NEW id \in Ids \ {Self} PROVE now[id] \in {from[id], Meet(from[id], to[id])}
      OBVIOUS
    <3>1. CASE <<3, id>> \in Writes(from, to)
      <4>1. ~Before(<<3, id>>, w)
        BY <2>1 DEF Before
      <4>2. <<3, id>> \in left
        BY <3>1, <4>1 DEF InTurn
      <4> QED BY <4>2 DEF After
    <3>2. CASE <<3, id>> \notin Writes(from, to)
      <4>1. to[id] \in {from[id], Meet(from[id], to[id])}
        BY <3>2, WritesAre
      <4> QED BY <1>2, <4>1
    <3> QED BY <3>1, <3>2
  <2>3. \A id \in Ids \ {Self} : Tighter(now[id], from[id])
    BY <1>1, <1>4, <2>2, MeetIsTighter
  <2> HIDE DEF now
  <2>4. Permissions(base, held, own, now) \subseteq Permissions(base, held, own, from)
    BY <1>0, <1>3, <2>3, TighterGrantsLess
  <2> QED BY <2>4 DEF now
<1>6. CASE \A w \in left : w[1] = 3
  <2>1. \A id \in Ids : now[id] \in {to[id], Meet(from[id], to[id])}
    BY <1>6 DEF After
  <2>2. \A id \in Ids \ {Self} : Tighter(now[id], to[id])
    BY <1>1, <1>4, <2>1, MeetIsTighter
  <2> HIDE DEF now
  <2>3. Permissions(base, held, own, now) \subseteq Permissions(base, held, own, to)
    BY <1>0, <1>3, <2>2, TighterGrantsLess
  <2> QED BY <2>3 DEF now
<1> QED BY <1>5, <1>6

\* TaruBot's own entry is written first.
LEMMA OwnFirst ==
  ASSUME NEW from \in Overwrites, NEW to \in Overwrites, NEW left, InTurn(from, to, left)
  PROVE  After(from, to, left) = from \/ After(from, to, left)[Self] = to[Self]
<1>0. Self \in Ids
  BY DEF Ids
<1>1. CASE <<1, Self>> \in left
  <2>1. ASSUME NEW w \in Writes(from, to) \ left PROVE FALSE
    <3>1. Before(w, <<1, Self>>)
      BY <1>1, <2>1 DEF InTurn
    <3>2. PICK k \in 1..3, id \in Ids : w = <<k, id>>
      BY WritesTyped
    <3>3. k = 1 => id = Self
      BY <3>2, WritesAre
    <3>4. Rank[Self] \in Nat
      BY <1>0, SecurityAssumption DEF ConstantsOK
    <3> QED BY <3>1, <3>2, <3>3, <3>4 DEF Before
  <2>2. left = Writes(from, to)
    BY <2>1 DEF InTurn
  <2> QED BY <2>2, AfterAll
<1>2. CASE <<1, Self>> \notin left
  <2>1. <<2, Self>> \notin left /\ <<3, Self>> \notin left
    BY <1>0, WritesAre DEF InTurn
  <2> QED BY <1>0, <1>2, <2>1 DEF After
<1> QED BY <1>1, <1>2

LEMMA WritingIsWithin ==
  ASSUME Inv
  PROVE  WritesStayWithin
<1> USE DEF Inv
<1> SUFFICES ASSUME pass.step \in {"write", "readback"}, Target \notin meddled
             PROVE  /\ \A h \in Subjects, p \in People :
                         \/ Permissions(Base(open), h, p, chan[Target]) \subseteq Permissions(Base(open), h, p, pass.from)
                         \/ Permissions(Base(open), h, p, chan[Target]) \subseteq Permissions(Base(open), h, p, Goal)
                    /\ Manages(pass.from) => Manages(chan[Target])
  BY DEF WritesStayWithin
<1>1. /\ InTurn(pass.from, Goal, pass.left)
      /\ chan[Target] = After(pass.from, Goal, pass.left)
  BY DEF InWriting, Writing
<1>2. pass.from \in Overwrites
  BY DEF OnCourse, TypeOK
<1>3. Goal \in Overwrites
  BY <1>2, DesiredTyped DEF Goal, To
<1>4. /\ PartiesOK /\ Base(open) \in SUBSET Bits /\ Base(open) \cup BotBits \in SUBSET Bits
      /\ pass.access \in Access /\ Audience(Target) \in Audiences
  BY SecurityAssumption DEF ConstantsOK, Base, Bits, Ownership, Working, Audience, Audiences
<1>5. Goal = Desired(pass.access, Audience(Target), pass.from)
  BY DEF Goal, To
<1>6. \A h \in Subjects, p \in People :
        \/ Permissions(Base(open), h, p, chan[Target]) \subseteq Permissions(Base(open), h, p, pass.from)
        \/ Permissions(Base(open), h, p, chan[Target]) \subseteq Permissions(Base(open), h, p, Goal)
  BY <1>1, <1>2, <1>3, <1>4, StaysWithin DEF Subjects
<1>7. ASSUME Manages(pass.from), chan[Target] # pass.from PROVE Manages(chan[Target])
  <2>1. chan[Target][Self] = Goal[Self]
    BY <1>1, <1>2, <1>3, <1>7, OwnFirst
  <2>2. \A id \in Ids \ {Self} : chan[Target][id] \in {pass.from[id], Goal[id], Meet(pass.from[id], Goal[id])}
    BY <1>1 DEF After
  <2>3. "manage" \in Permissions(Base(open) \cup BotBits, {}, Self, pass.from)
    BY <1>7 DEF Manages, OwnBits
  <2>4. {"view", "manage"} \subseteq Permissions(Base(open) \cup BotBits, {}, Self, chan[Target])
    BY <1>2, <1>4, <1>5, <2>1, <2>2, <2>3, OwnEntrySuffices
  <2> QED BY <2>4 DEF Manages, OwnBits
<1> QED BY <1>6, <1>7

\* With the updates channel's own answer for everyone, the default says nothing there.
LEMMA DefaultIsOverruled ==
  ASSUME NEW ows, ~Inherits(ows), NEW held, NEW own
  PROVE  Permissions(Base(FALSE), held, own, ows) = Permissions(Base(TRUE), held, own, ows)
<1>1. Over(Base(FALSE), ows[Everyone]) = Over(Base(TRUE), ows[Everyone])
  BY DEF Inherits, Over, Base
<1> QED BY <1>1 DEF Permissions

LEMMA StepClosesSafely ==
  ASSUME Inv, [Next]_vars
  PROVE  ClosesSafely
<1> USE DEF Inv
<1>0. /\ chan \in [Channels -> Overwrites \cup {None}] /\ edits \in Nat /\ open \in BOOLEAN
      /\ Lobby \in There /\ chan[Lobby] \in Overwrites
      /\ PartiesOK /\ Nobody \in People /\ Bindings \subseteq Access
  BY SecurityAssumption DEF TypeOK, OnCourse, There, ConstantsOK
<1>1. ASSUME UNCHANGED <<open, chan>> PROVE ClosesSafely
  BY <1>1 DEF ClosesSafely
<1>2. CASE (\E c \in Channels : Edit(c) \/ Create(c)) \/ OpenDefault
  <2>1. edits' = edits + 1 /\ (open' = open \/ open' = TRUE)
    BY <1>2 DEF Edit, Create, OpenDefault, Meddles
  <2> QED BY <1>0, <2>1 DEF ClosesSafely
<1>3. CASE Configure \/ Event \/ SetupReads \/ SetupObserves \/ SetupCommits \/ Lapse \/ Restart \/ UNCHANGED vars
  BY <1>1, <1>3 DEF Configure, Event, SetupReads, SetupObserves, SetupCommits, Lapse, Restart, vars, discord
<1>4. CASE Reconcile /\ ~Write /\ ~Close
  BY <1>1, <1>4 DEF Reconcile, Claim, Begin, Persist, Check, Fetch, Plan, Readback, CheckDefault, Refresh,
                    Closed, Verify, Ends, discord
<1>5. CASE Write
  <2>1. CASE Manages(chan[Target])
    <3>1. Target \in There /\ Target # Updates /\ pass.from \in Overwrites
      BY <1>5, TargetThere DEF Write, OnCourse, AtChannel, TypeOK
    <3>2. NextWrite \in pass.left /\ NextWrite[2] \in Ids
      BY <1>5, NextWriteIs DEF Write, TypeOK
    <3>3. Value(NextWrite) \in Entry
      BY <3>1, <3>2, ValueTyped
    <3>4. Updates \in Channels /\ Parent[Updates] # Target
      BY <3>1, SecurityAssumption DEF ConstantsOK, PlacesOK, There
    <3>5. Written(Target, NextWrite[2], Value(NextWrite))[Updates] = chan[Updates]
      BY <1>0, <3>1, <3>2, <3>3, <3>4, WrittenElsewhere
    <3>6. chan'[Updates] = chan[Updates] /\ open' = open
      BY <1>5, <2>1, <3>5 DEF Write
    <3> QED BY <3>6 DEF ClosesSafely, SeesNow
  <2>2. CASE ~Manages(chan[Target])
    BY <1>1, <1>5, <2>2 DEF Write
  <2> QED BY <2>1, <2>2
<1>6. CASE Close
  <2>1. chan' = chan /\ (open' = open \/ open' = FALSE) /\ pass.step = "close"
    BY <1>6 DEF Close
  <2>2. Lobby \notin meddled => SeesNow({}, Nobody, Lobby)'
    <3>1. SUFFICES ASSUME Lobby \notin meddled PROVE Sees(Base(open'), {}, Nobody, chan[Lobby])
      BY <2>1 DEF SeesNow
    <3>2. Settled(pass.access, "lobby", chan[Lobby])
      BY <2>1, <3>1 DEF BehindTheLobby, OnCourse, AtDefault
    <3>3. pass.access \in Access /\ Base(open') \in SUBSET Bits
      BY <1>0, <2>1, SecurityAssumption DEF Ownership, Working, ConstantsOK, Base, Bits
    <3>4. Sees(Base(open'), {}, Nobody, Desired(pass.access, "lobby", chan[Lobby]))
      BY <1>0, <3>3, AudienceSeesIt DEF Audiences
    <3> QED BY <3>2, <3>4 DEF Settled
  <2>3. ASSUME open' # open, Updates \notin meddled, NEW h \in Subjects, NEW p \in People
        PROVE  SeesNow(h, p, Updates)' = SeesNow(h, p, Updates)
    <3>1. ~Inherits(chan[Updates])
      BY <2>1, <2>3 DEF BehindTheLobby, Preserved
    <3>2. open = TRUE /\ open' = FALSE
      BY <1>0, <2>1, <2>3
    <3> QED BY <2>1, <3>1, <3>2, DefaultIsOverruled DEF SeesNow, Sees
  <2> QED BY <2>1, <2>2, <2>3 DEF ClosesSafely
<1> QED BY <1>2, <1>3, <1>4, <1>5, <1>6 DEF Next, Others, Reconcile

\* For any channels, entries, roles and edits of others: while a channel nobody else
\* touches is being written, no member may do more in it than before or after, and
\* TaruBot can finish; the default closes only behind a lobby that newcomers see, and
\* TaruBot changes nobody's view of the updates channel.
THEOREM WritesAndCloseAreSafe == Spec => WritesAreSafe
<1>1. Inv => TypeOK /\ WritesStayWithin
  BY WritingIsWithin DEF Inv
<1>2. Inv /\ [Next]_vars => [ClosesSafely]_vars
  BY StepClosesSafely
<1> QED BY <1>1, <1>2, PassIsSound, PTL DEF Spec, WritesAreSafe

-----------------------------------------------------------------------------
(* /setup overrides: what its writes achieve, for every server *)

\* TaruBot's bits before its own entry is applied.
WithoutOwn(g, ows) == Overriding!Over(Overriding!Over(Overriding!GuildBits(g, Overriding!AsIfRoles(g)), Overriding!EntryOf(ows, Everyone)), Overriding!RolesEntry(g, ows))

\* Only TaruBot's entry changes, so what the others give stays.
LEMMA OthersStay ==
  ASSUME Overriding!Apart, NEW g, NEW ows, NEW entry, Self \notin g.held
  PROVE  /\ Overriding!EntryOf(Overriding!With(ows, entry), Self) = entry
         /\ WithoutOwn(g, Overriding!With(ows, entry)) = WithoutOwn(g, ows)
         /\ Overriding!Perms(g, Overriding!With(ows, entry)) = Overriding!Over(WithoutOwn(g, ows), entry)
<1>1. Overriding!EntryOf(Overriding!With(ows, entry), Self) = entry
  BY DEF Overriding!With, Overriding!EntryOf
<1>2. \A p : p # Self => Overriding!EntryOf(Overriding!With(ows, entry), p) = Overriding!EntryOf(ows, p)
  BY DEF Overriding!With, Overriding!EntryOf
<1>3. Self \notin Overriding!AsIfRoles(g)
  BY DEF Overriding!AsIfRoles
<1>4. \A r \in Overriding!AsIfRoles(g) \ {Everyone} : Overriding!EntryOf(Overriding!With(ows, entry), r) = Overriding!EntryOf(ows, r)
  BY <1>2, <1>3
<1>5. Overriding!RolesEntry(g, Overriding!With(ows, entry)) = Overriding!RolesEntry(g, ows)
  <2>1. {Overriding!EntryOf(Overriding!With(ows, entry), r).allow : r \in Overriding!AsIfRoles(g) \ {Everyone}}
          = {Overriding!EntryOf(ows, r).allow : r \in Overriding!AsIfRoles(g) \ {Everyone}}
    BY <1>4
  <2>2. {Overriding!EntryOf(Overriding!With(ows, entry), r).deny : r \in Overriding!AsIfRoles(g) \ {Everyone}}
          = {Overriding!EntryOf(ows, r).deny : r \in Overriding!AsIfRoles(g) \ {Everyone}}
    BY <1>4
  <2>3. QED  BY <2>1, <2>2 DEF Overriding!RolesEntry
<1>6. Overriding!EntryOf(Overriding!With(ows, entry), Everyone) = Overriding!EntryOf(ows, Everyone)
  BY <1>2, Overriding!Apart DEF Overriding!Apart
<1>7. WithoutOwn(g, Overriding!With(ows, entry)) = WithoutOwn(g, ows)
  BY <1>5, <1>6 DEF WithoutOwn
<1>8. Overriding!Perms(g, Overriding!With(ows, entry)) = Overriding!Over(WithoutOwn(g, Overriding!With(ows, entry)), Overriding!EntryOf(Overriding!With(ows, entry), Self))
  BY DEF Overriding!Perms, Overriding!ChannelBits, WithoutOwn
<1>9. QED  BY <1>1, <1>7, <1>8

\* The write /setup overrides plans for a channel makes TaruBot see it (and use it
\* where it posts) once Administrator is off, whatever the entries before, so the
\* channel needs no second write (targetOf() and judge()).
THEOREM WrittenIsVisible ==
  ASSUME Overriding!Apart, NEW g, NEW s, NEW c, NEW ch, Self \notin g.held, s.posting \subseteq s.configured,
         ~Overriding!Untouchable(g, s, c, ch)
  PROVE  Overriding!State(g, s, c, Overriding!Written(ch, Overriding!OwnWrite(g, s, c, ch))) = "visible"
<1> DEFINE b == Overriding!EntryOf(ch.overwrites, Self)
           e == Overriding!OwnWrite(g, s, c, ch)
           w == Overriding!Written(ch, e)
           o == WithoutOwn(g, ch.overwrites)
           need == Overriding!Need(s, c)
           granted == IF Overriding!State(g, s, c, ch) = "masked" THEN {} ELSE need \ Overriding!Perms(g, ch.overwrites)
<1>1. ~Overriding!Unreadable(ch) /\ Overriding!State(g, s, c, ch) \in {"missing", "masked"}
  BY DEF Overriding!Untouchable
<1>2. w.overwrites = Overriding!With(ch.overwrites, e) /\ w.obfuscated = ch.obfuscated /\ w.fetched = ch.fetched
  BY DEF Overriding!Written
<1>3. Overriding!Perms(g, w.overwrites) = Overriding!Over(o, e) /\ Overriding!EntryOf(w.overwrites, Self) = e
  BY <1>2, OthersStay
<1>4. Overriding!Perms(g, ch.overwrites) = Overriding!Over(o, b)
  BY DEF Overriding!Perms, Overriding!ChannelBits, WithoutOwn
<1>5. ~Overriding!Unreadable(w)
  <2>1. Self \in DOMAIN w.overwrites /\ Self \notin DOMAIN Overriding!Synthetic
    BY <1>2, Overriding!Apart DEF Overriding!Apart, Overriding!With, Overriding!Synthetic
  <2>2. w.overwrites # Overriding!Synthetic
    BY <2>1
  <2>3. QED  BY <1>1, <1>2, <2>2 DEF Overriding!Unreadable
<1>6. Overriding!State(g, s, c, ch) = "masked" => need \subseteq Overriding!Perms(g, ch.overwrites) /\ c \in s.configured
  BY DEF Overriding!State, Overriding!OwnState
<1>7. need \subseteq Overriding!Perms(g, ch.overwrites) \cup granted
  BY <1>6
<1>8. CASE c \in s.configured
  <2>1. e.allow = b.allow \cup granted /\ e.deny = (b.deny \ granted) \ {"history"}
    BY <1>8 DEF Overriding!OwnWrite
  <2>2. need \subseteq Overriding!Over(o, e)
    BY <1>4, <1>7, <2>1 DEF Overriding!Over
  <2>3. "history" \notin e.deny
    BY <2>1
  <2>4. Overriding!OwnState(g, s, c, w) = "visible"
    BY <1>3, <1>5, <2>2, <2>3 DEF Overriding!OwnState
  <2>5. QED  BY <2>4 DEF Overriding!State
<1>9. CASE c \notin s.configured
  <2>1. need = {"view"}
    BY <1>9 DEF Overriding!Need
  <2>2. Overriding!State(g, s, c, ch) # "masked"
    BY <1>6, <1>9
  <2> DEFINE mask == IF ch.category THEN Overriding!VoiceMask ELSE Overriding!DenyMask
  <2>3. "view" \notin mask
    BY DEF Overriding!VoiceMask, Overriding!DenyMask
  <2>4. e.allow = (b.allow \cup granted) \ mask /\ e.deny = (b.deny \ granted) \cup mask
    BY <1>9 DEF Overriding!OwnWrite
  <2> HIDE DEF mask
  <2>5. need \subseteq Overriding!Over(o, e)
    BY <1>4, <1>7, <2>1, <2>3, <2>4 DEF Overriding!Over
  <2>6. Overriding!OwnState(g, s, c, w) = "visible"
    BY <1>3, <1>5, <1>9, <2>5 DEF Overriding!OwnState
  <2>7. QED  BY <2>6 DEF Overriding!State
<1>10. QED  BY <1>8, <1>9

\* A write seen through Shown: TaruBot's entry is never the neutral @everyone one.
LEMMA ShownWith ==
  ASSUME Overriding!Apart, NEW ows, NEW entry
  PROVE  Overriding!Shown(Overriding!With(ows, entry)) = Overriding!With(Overriding!Shown(ows), entry)
<1> DEFINE shown == {p \in DOMAIN ows : ~(p = Everyone /\ ows[p] = Overriding!Neutral)}
           both == {p \in DOMAIN Overriding!With(ows, entry) : ~(p = Everyone /\ Overriding!With(ows, entry)[p] = Overriding!Neutral)}
<1>1. DOMAIN Overriding!With(ows, entry) = DOMAIN ows \cup {Self}
  BY DEF Overriding!With
<1>2. \A p \in DOMAIN ows \cup {Self} : Overriding!With(ows, entry)[p] = IF p = Self THEN entry ELSE ows[p]
  BY DEF Overriding!With
<1>3. both = shown \cup {Self}
  BY <1>1, <1>2, Overriding!Apart DEF Overriding!Apart
<1>4. \A p \in shown : Overriding!Shown(ows)[p] = ows[p]
  BY DEF Overriding!Shown
<1>5. DOMAIN Overriding!Shown(ows) = shown
  BY DEF Overriding!Shown
<1>6. Overriding!Shown(Overriding!With(ows, entry)) = [p \in both |-> Overriding!With(ows, entry)[p]]
  BY DEF Overriding!Shown
<1>7. Overriding!With(Overriding!Shown(ows), entry) = [p \in shown \cup {Self} |-> IF p = Self THEN entry ELSE Overriding!Shown(ows)[p]]
  BY <1>5 DEF Overriding!With
<1>8. \A p \in shown \cup {Self} :
        Overriding!With(ows, entry)[p] = IF p = Self THEN entry ELSE Overriding!Shown(ows)[p]
  BY <1>2, <1>4
<1> HIDE DEF shown, both
<1>9. QED  BY <1>3, <1>6, <1>7, <1>8

\* A child that equals its category stays synced when it copies the category's
\* entry (the inherit of planOverrides()).
THEOREM CopyStaysSynced ==
  ASSUME Overriding!Apart, NEW child, NEW category, NEW entry, Overriding!SameOverwrites(child, category)
  PROVE  Overriding!SameOverwrites(Overriding!With(child, entry), Overriding!With(category, entry))
BY ShownWith DEF Overriding!SameOverwrites

\* A child that equals a written category but for TaruBot's entry is synced again by
\* copying that entry: what a run after an interrupted one does (resumeInherit()).
THEOREM ResumedIsSynced ==
  ASSUME Overriding!Apart, NEW child, NEW category, Self \in DOMAIN category,
         Overriding!SameOverwrites(child, Overriding!Without(category, Self))
  PROVE  Overriding!SameOverwrites(Overriding!With(child, Overriding!EntryOf(category, Self)), category)
<1> DEFINE e == Overriding!EntryOf(category, Self)
           whole == Overriding!With(Overriding!Without(category, Self), e)
<1>1. e = category[Self]
  BY DEF Overriding!EntryOf
<1>2. DOMAIN whole = DOMAIN category /\ \A p \in DOMAIN category : whole[p] = category[p]
  BY <1>1 DEF Overriding!Without, Overriding!With
<1>3. Overriding!SameOverwrites(Overriding!With(child, e), whole)
  BY CopyStaysSynced
<1> HIDE DEF whole
<1>4. {p \in DOMAIN whole : ~(p = Everyone /\ whole[p] = Overriding!Neutral)}
        = {p \in DOMAIN category : ~(p = Everyone /\ category[p] = Overriding!Neutral)}
  BY <1>2
<1>5. Overriding!Shown(whole) = Overriding!Shown(category)
  BY <1>2, <1>4 DEF Overriding!Shown
<1>6. QED  BY <1>3, <1>5 DEF Overriding!SameOverwrites

-----------------------------------------------------------------------------
(* /setup overrides: denies stand and stay recorded (Overrides) *)

RunFields == {"step", "rev", "set", "before", "snap", "unread", "plan", "todo", "at", "after", "ows", "lends",
              "own", "real", "known", "found", "skipped", "changed", "stop", "result"}
Active == {"reading", "loop", "write", "check", "recording"}

\* The channels are Discord's, and what a run writes or lends allows and denies no
\* permission at once.
ServerHolds ==
  /\ None \notin DOMAIN disc /\ Overriding!Tree(disc) /\ DOMAIN disc \subseteq DOMAIN delivered
  /\ \A c \in DOMAIN disc : Overriding!ChannelOK(disc[c])
  /\ DOMAIN run = RunFields /\ run.step \in Active \cup {"none", "done"}
  /\ run.step = "write" => Overriding!Clean(run.after)
  /\ \A k \in DOMAIN run.lends : Overriding!Clean(run.lends[k].after)

Barred(ch) ==
  "view" \in Overriding!EntryOf(ch.overwrites, Self).deny \ Overriding!EntryOf(ch.overwrites, Self).allow
\* What a run knows of the recorded denies: each is in what it read, and the channel it
\* is about to write was not denied when it read that one.
DeniesHold ==
  /\ judged \subseteq recorded \cap DOMAIN disc /\ \A c \in judged : Overriding!Denied(disc[c])
  /\ run.step \in Active =>
       /\ DOMAIN disc \subseteq DOMAIN run.snap /\ judged \subseteq run.before \cap run.known /\ run.real \subseteq run.known
       /\ \A c \in judged : Overriding!Unreadable(run.snap[c]) \/ Barred(run.snap[c])
  /\ run.step = "write" =>
       run.at \notin judged /\ "view" \notin Overriding!EntryOf(run.ows, Self).deny

\* A write keeps the channel but for TaruBot's entry.
LEMMA WrittenEntryIs ==
  ASSUME NEW ch, Overriding!ChannelOK(ch), NEW entry, Overriding!Clean(entry)
  PROVE  /\ Overriding!ChannelOK(Overriding!Written(ch, entry))
         /\ Overriding!Written(ch, entry).category = ch.category
         /\ Overriding!Written(ch, entry).parent = ch.parent
         /\ Overriding!Written(ch, entry).fetched = ch.fetched
         /\ Overriding!Written(ch, entry).overwrites = Overriding!With(ch.overwrites, entry)
         /\ Overriding!EntryOf(Overriding!With(ch.overwrites, entry), Self) = entry
<1>1. Overriding!EntryOf(Overriding!With(ch.overwrites, entry), Self) = entry
  BY DEF Overriding!With, Overriding!EntryOf
<1>2. ch.obfuscated = FALSE
  BY DEF Overriding!ChannelOK
<1>. QED  BY <1>1, <1>2 DEF Overriding!ChannelOK, Overriding!Written

\* Who a PUT changes: the channel it writes and, when Discord copies it, the children
\* that were synced with it.
Copied(d, copies) ==
  copies /\ disc[run.at].category /\ disc[d].parent = run.at
  /\ Overriding!SameOverwrites(disc[d].overwrites, disc[run.at].overwrites)
LEMMA PutIs ==
  ASSUME ServerHolds, Overriding!Clean(run.after), NEW copies \in BOOLEAN, NEW after,
         after = Overriding!Put(run.at, run.after, copies)
  PROVE  /\ DOMAIN after = DOMAIN disc
         /\ \A d \in DOMAIN disc :
              /\ after[d] = IF d = run.at \/ Copied(d, copies) THEN Overriding!Written(disc[d], run.after)
                            ELSE disc[d]
              /\ Overriding!ChannelOK(after[d])
              /\ after[d].category = disc[d].category /\ after[d].parent = disc[d].parent
              /\ after[d].fetched = disc[d].fetched
<1>1. /\ DOMAIN after = DOMAIN disc
      /\ \A d \in DOMAIN disc :
           after[d] = IF d = run.at \/ Copied(d, copies) THEN Overriding!Written(disc[d], run.after) ELSE disc[d]
  BY DEF Overriding!Put, Copied
<1>2. \A d \in DOMAIN disc : Overriding!ChannelOK(disc[d])
  BY DEF ServerHolds
<1>. QED  BY <1>1, <1>2, WrittenEntryIs

\* Fresh() keeps what a channel is.
LEMMA FreshIs ==
  ASSUME ServerHolds, NEW c \in DOMAIN disc
  PROVE  /\ Overriding!ChannelOK(Overriding!Fresh(c)) /\ Overriding!Fresh(c).overwrites = disc[c].overwrites
         /\ Overriding!Fresh(c).category = disc[c].category /\ Overriding!Fresh(c).parent = disc[c].parent
         /\ ~Overriding!Unreadable(Overriding!Fresh(c)) /\ Overriding!Clean(Overriding!EntryOf(disc[c].overwrites, Self))
<1>1. Overriding!ChannelOK(disc[c])
  BY DEF ServerHolds
<1>2. disc[c].obfuscated = FALSE
  BY <1>1 DEF Overriding!ChannelOK
<1>. QED  BY <1>1, <1>2 DEF Overriding!ChannelOK, Overriding!Unreadable, Overriding!Fresh

\* A channel that denies TaruBot itself is never missing: it is hidden or denied.
LEMMA BarredIsNoted ==
  ASSUME NEW g, NEW s, NEW c, NEW ch, Barred(ch), ~Overriding!Unreadable(ch)
  PROVE  Overriding!State(g, s, c, ch) \in {"hidden", "denied"}
<1>1. "view" \notin Overriding!Perms(g, ch.overwrites)
  BY DEF Barred, Overriding!Perms, Overriding!ChannelBits, Overriding!Over
<1>2. Overriding!Deliberate(g, s, c, ch)
  BY <1>1 DEF Barred, Overriding!Deliberate
<1>3. ~(Overriding!Need(s, c) \subseteq Overriding!Perms(g, ch.overwrites))
  BY <1>1 DEF Overriding!Need, Overriding!PostingBits
<1>4. Overriding!OwnState(g, s, c, ch) \in {"hidden", "denied"}
  BY <1>2, <1>3 DEF Overriding!OwnState
<1>. QED  BY <1>4 DEF Overriding!State

\* What is written or lent allows and denies no permission at once.
LEMMA OwnWriteIsClean ==
  ASSUME NEW g, NEW s, NEW c, NEW ch, Overriding!Clean(Overriding!EntryOf(ch.overwrites, Self))
  PROVE  Overriding!Clean(Overriding!OwnWrite(g, s, c, ch))
BY DEF Overriding!OwnWrite, Overriding!Clean
LEMMA LentIsClean ==
  ASSUME ServerHolds, NEW k
  PROVE  Overriding!Clean(Overriding!Lends(k).after)
<1>1. CASE k \in DOMAIN run.lends
  BY <1>1 DEF Overriding!Lends, ServerHolds
<1>2. CASE k \notin DOMAIN run.lends /\ Overriding!Resumable(k) /\ k \in DOMAIN disc
  <2>1. Overriding!Lends(k) = Overriding!Resume(Overriding!View(Overriding!Set(run.snap, k, Overriding!Fresh(k))),
                                                Overriding!InRun, k, Overriding!Fresh(k))
    BY <1>2 DEF Overriding!Lends
  <2>2. Overriding!Clean(Overriding!EntryOf(Overriding!Fresh(k).overwrites, Self))
    BY <1>2, FreshIs
  <2>3. Overriding!Clean(Overriding!NoInherit.after)
    BY DEF Overriding!NoInherit, Overriding!Clean, Overriding!Neutral
  <2>4. \A g, s : Overriding!Clean(Overriding!Resume(g, s, k, Overriding!Fresh(k)).after)
    <3>. TAKE g, s
    <3> DEFINE e == Overriding!EntryOf(Overriding!Fresh(k).overwrites, Self)
               lent == [parent |-> k, before |-> Overriding!Without(Overriding!Fresh(k).overwrites, Self), after |-> e]
    <3>1. Overriding!Resume(g, s, k, Overriding!Fresh(k)) = lent
          \/ Overriding!Resume(g, s, k, Overriding!Fresh(k)) = Overriding!NoInherit
      BY DEF Overriding!Resume
    <3>2. lent.after = e
      OBVIOUS
    <3>. QED  BY <2>2, <2>3, <3>1, <3>2
  <2>. QED  BY <2>1, <2>4
<1>3. CASE k \notin DOMAIN run.lends /\ ~(Overriding!Resumable(k) /\ k \in DOMAIN disc)
  BY <1>3 DEF Overriding!Lends, Overriding!NoInherit, Overriding!Clean, Overriding!Neutral
<1>. QED  BY <1>1, <1>2, <1>3

\* A step that leaves the channels alone keeps this, when what the run writes or lends is clean.
LEMMA ServerSame ==
  ASSUME ServerHolds, UNCHANGED disc, DOMAIN disc \subseteq DOMAIN delivered', DOMAIN run' = RunFields,
         run'.step \in Active \cup {"none", "done"}, run'.step = "write" => Overriding!Clean(run'.after),
         \A k \in DOMAIN run'.lends : Overriding!Clean(run'.lends[k].after)
  PROVE  ServerHolds'
BY DEF ServerHolds

\* An idle run.
LEMMA NoRunIs ==
  /\ DOMAIN Overriding!NoRun = RunFields /\ Overriding!NoRun.step = "none" /\ Overriding!NoRun.lends = <<>>
  /\ Overriding!NoRun.result = "none" /\ Overriding!NoRun.skipped = {} /\ Overriding!NoRun.own = {}
  /\ DOMAIN Overriding!NoRun.lends = {} /\ Overriding!NoRun.real = {} /\ Overriding!NoRun.found = {}
  /\ Overriding!NoRun.todo = {} /\ DOMAIN Overriding!NoRun.plan = {}
BY DEF Overriding!NoRun, RunFields

LEMMA StartIs ==
  ASSUME ServerHolds, Overriding!Start
  PROVE  /\ ServerHolds' /\ UNCHANGED <<disc, delivered, admin, configured, recorded, judged, untouched>>
         /\ run.step \in {"none", "done"} /\ admin /\ quiet' = TRUE
         /\ \A c \in DOMAIN delivered : c \in DOMAIN disc /\ (Overriding!Unreadable(delivered[c]) \/ delivered[c] = disc[c])
         /\ run'.step = "reading" /\ run'.set = configured /\ run'.before = recorded /\ run'.known = recorded
         /\ run'.real = {} /\ run'.found = {} /\ run'.skipped = {} /\ run'.snap = delivered /\ run'.result = "none"
         /\ run'.unread = {c \in DOMAIN delivered : Overriding!Unreadable(delivered[c])}
         /\ run'.own = {} /\ DOMAIN run'.lends = {}
<1>1. UNCHANGED <<disc, delivered, admin, configured, recorded, judged, untouched>> /\ quiet' = TRUE
  BY DEF Overriding!Start, Overriding!server
<1>2. /\ DOMAIN run' = RunFields /\ run'.step = "reading" /\ run'.set = configured /\ run'.before = recorded
      /\ run'.known = recorded /\ run'.real = {} /\ run'.found = {} /\ run'.skipped = {} /\ run'.snap = delivered
      /\ run'.result = "none" /\ run'.unread = {c \in DOMAIN delivered : Overriding!Unreadable(delivered[c])}
      /\ run'.lends = <<>> /\ run'.own = {}
  BY NoRunIs DEF Overriding!Start, RunFields
<1>3. DOMAIN run'.lends = {}
  BY <1>2
<1>4. ServerHolds'
  BY <1>1, <1>2, <1>3, ServerSame DEF ServerHolds, Active
<1>. QED  BY <1>1, <1>2, <1>3, <1>4 DEF Overriding!Start

LEMMA ReadsIs ==
  ASSUME ServerHolds, NEW c, Overriding!Reads(c)
  PROVE  /\ ServerHolds' /\ UNCHANGED <<disc, delivered, admin, configured, recorded, judged, untouched, quiet>>
         /\ run.step = "reading" /\ c \in run.unread
         /\ run' = [run EXCEPT !.unread = run'.unread, !.snap = run'.snap]
         /\ run'.unread = run.unread \ {c}
         /\ run'.snap = IF c \notin DOMAIN disc THEN Overriding!Drop(run.snap, c)
                        ELSE IF admin THEN Overriding!Set(run.snap, c, Overriding!Fresh(c)) ELSE run.snap
<1>0. DOMAIN run = RunFields
  BY DEF ServerHolds
<1>1. UNCHANGED <<disc, delivered, admin, configured, recorded, judged, untouched, quiet>>
  BY DEF Overriding!Reads, Overriding!server, Overriding!history
<1>2. /\ run'.unread = run.unread \ {c}
      /\ run'.snap = IF c \notin DOMAIN disc THEN Overriding!Drop(run.snap, c)
                     ELSE IF admin THEN Overriding!Set(run.snap, c, Overriding!Fresh(c)) ELSE run.snap
  BY <1>0 DEF Overriding!Reads, RunFields
<1>3. run' = [run EXCEPT !.unread = run'.unread, !.snap = run'.snap]
  BY <1>2 DEF Overriding!Reads
<1>4. ServerHolds'
  BY <1>0, <1>1, <1>3, ServerSame DEF ServerHolds, RunFields, Overriding!Reads
<1>. QED  BY <1>1, <1>2, <1>3, <1>4 DEF Overriding!Reads

LEMMA PlansIs ==
  ASSUME ServerHolds, Overriding!Plans
  PROVE  /\ ServerHolds' /\ UNCHANGED <<disc, delivered, admin, configured, recorded, judged, quiet>>
         /\ run.step = "reading" /\ untouched' \subseteq untouched
         /\ run.unread = {} => untouched' = untouched \cap Overriding!Examined
         /\ run'.result \in {"stopping", "time", "nothing", "applied"}
         /\ run'.step = (IF run'.result = "applied" THEN "loop" ELSE "recording")
         /\ run'.result \in {"nothing", "applied"} => run.unread = {}
         /\ run'.result = "nothing" => Overriding!Wanted(Overriding!Seen, Overriding!InRun) = {}
         /\ run' = [run EXCEPT !.step = run'.step, !.result = run'.result, !.plan = run'.plan, !.todo = run'.todo,
                               !.real = run'.real, !.known = run'.known]
         /\ run'.plan = Overriding!Planned(Overriding!Seen, Overriding!InRun)
         /\ run'.todo = Overriding!Wanted(Overriding!Seen, Overriding!InRun)
         /\ run'.real = Overriding!JudgedNow /\ run'.known = Overriding!JudgedNow \cup Overriding!Unexamined
<1>0. DOMAIN run = RunFields
  BY DEF ServerHolds
<1>1. UNCHANGED <<disc, delivered, admin, configured, recorded, judged, quiet>> /\ run.step = "reading"
  BY DEF Overriding!Plans, Overriding!server
<1>2. /\ untouched' \subseteq untouched
      /\ run.unread = {} => untouched' = untouched \cap Overriding!Examined
  BY DEF Overriding!Plans
<1> DEFINE wanted == Overriding!Wanted(Overriding!Seen, Overriding!InRun)
           plan == Overriding!Planned(Overriding!Seen, Overriding!InRun)
           real == Overriding!JudgedNow
           known == Overriding!JudgedNow \cup Overriding!Unexamined
<1>3. PICK result \in {"stopping", "time", "nothing", "applied"} :
        /\ (result \in {"nothing", "applied"}) => run.unread = {}
        /\ (result = "nothing") => wanted = {}
        /\ run' = [run EXCEPT !.step = IF result = "applied" THEN "loop" ELSE "recording", !.result = result,
                              !.plan = plan, !.todo = wanted, !.real = real, !.known = known]
  BY DEF Overriding!Plans
<1> HIDE DEF wanted, plan, real, known
<1>4. /\ run'.step = (IF result = "applied" THEN "loop" ELSE "recording") /\ run'.result = result
      /\ run'.plan = plan /\ run'.todo = wanted /\ run'.real = real /\ run'.known = known
      /\ DOMAIN run' = RunFields /\ run'.lends = run.lends
  BY <1>0, <1>3 DEF RunFields
<1>5. run' = [run EXCEPT !.step = run'.step, !.result = run'.result, !.plan = run'.plan, !.todo = run'.todo,
                         !.real = run'.real, !.known = run'.known]
  BY <1>3, <1>4
<1>6. ServerHolds'
  BY <1>1, <1>4, ServerSame DEF ServerHolds, Active
<1>. QED  BY <1>1, <1>2, <1>3, <1>4, <1>5, <1>6 DEF wanted, plan, real, known

\* What no step of the loop changes: what the run read, planned and will record of it.
RunKept ==
  /\ UNCHANGED <<disc, delivered, admin, configured, recorded, judged, untouched, quiet>>
  /\ DOMAIN run' = RunFields /\ run'.snap = run.snap /\ run'.set = run.set /\ run'.before = run.before
  /\ run'.known = run.known /\ run'.real = run.real /\ run'.plan = run.plan /\ run'.own = run.own
GivesUpNow == run'.step = "recording" /\ run'.result \notin {"applied", "nothing"} /\ run'.lends = run.lends
Passed(c, skipped) ==
  /\ run'.todo = run.todo \ {c} /\ run'.step = (IF run.todo = {c} THEN "recording" ELSE "loop")
  /\ run'.skipped = skipped /\ run'.result = run.result /\ run'.lends = run.lends
\* A channel Examine() is about to write.
Chosen(c) ==
  /\ ~Overriding!LeftAlone(c) /\ ~Overriding!Untouchable(Overriding!Seen, Overriding!InRun, c, Overriding!Fresh(c))
  /\ Overriding!Resumable(disc[c].parent) => Overriding!Lends(disc[c].parent) # Overriding!NoInherit
  /\ run'.step = "write" /\ run'.at = c /\ run'.ows = disc[c].overwrites /\ run'.after = Overriding!Recompute(c)
  /\ run'.lends = IF Overriding!Resumable(disc[c].parent)
                  THEN Overriding!Set(run.lends, disc[c].parent, Overriding!Lends(disc[c].parent)) ELSE run.lends
  /\ run'.todo = run.todo /\ run'.skipped = run.skipped /\ run'.result = run.result

LEMMA EndsIs ==
  ASSUME ServerHolds, NEW result \in {"stopping", "time", "precondition", "changed", "failed", "permissions"},
         Overriding!Ends(result),
         UNCHANGED <<disc, delivered, admin, configured, recorded, judged, untouched, quiet>>
  PROVE  ServerHolds' /\ RunKept /\ GivesUpNow
<1>1. RunKept /\ GivesUpNow
  BY DEF ServerHolds, RunFields, RunKept, GivesUpNow, Overriding!Ends
<1>. QED  BY <1>1, ServerSame DEF ServerHolds, RunKept, GivesUpNow, Active

\* The fields of a run that a step of the loop hands on.
SameRun(r) ==
  /\ DOMAIN r = RunFields /\ r.snap = run.snap /\ r.set = run.set /\ r.before = run.before /\ r.todo = run.todo
  /\ r.known = run.known /\ r.real = run.real /\ r.plan = run.plan /\ r.own = run.own
  /\ r.result = run.result /\ r.lends = run.lends
LEMMA PassedIs ==
  ASSUME ServerHolds, NEW c, NEW r, SameRun(r), run' = Overriding!Moved(c, r),
         UNCHANGED <<disc, delivered, admin, configured, recorded, judged, untouched, quiet>>
  PROVE  ServerHolds' /\ RunKept /\ Passed(c, r.skipped)
<1>1. run' = [r EXCEPT !.todo = @ \ {c}, !.step = IF run.todo = {c} THEN "recording" ELSE "loop"]
  BY DEF Overriding!Moved
<1>2. RunKept /\ Passed(c, r.skipped)
  BY <1>1 DEF SameRun, RunKept, Passed, RunFields
<1>3. run'.step \in Active /\ run'.step # "write"
  BY <1>2 DEF Passed, Active
<1>. QED  BY <1>2, <1>3, ServerSame DEF ServerHolds, RunKept, Passed

LEMMA SkipIs ==
  ASSUME ServerHolds, NEW c, Overriding!Skip(c),
         UNCHANGED <<disc, delivered, admin, configured, recorded, judged, untouched, quiet>>
  PROVE  ServerHolds' /\ RunKept /\ Passed(c, run.skipped \cup {c})
<1> DEFINE r == [run EXCEPT !.skipped = @ \cup {c}]
<1>1. SameRun(r) /\ r.skipped = run.skipped \cup {c}
  BY DEF SameRun, ServerHolds, RunFields
<1>2. run' = Overriding!Moved(c, r)
  BY DEF Overriding!Skip
<1> HIDE DEF r
<1>. QED  BY <1>1, <1>2, PassedIs

LEMMA LoopStopsIs ==
  ASSUME ServerHolds, (\E c : Overriding!LoopStops(c)) \/ Overriding!ReadFails
  PROVE  ServerHolds' /\ RunKept /\ GivesUpNow /\ run.step \in {"reading", "loop", "check"}
<1>1. UNCHANGED <<disc, delivered, admin, configured, recorded, judged, untouched, quiet>>
  BY DEF Overriding!LoopStops, Overriding!ReadFails, Overriding!server, Overriding!history
<1>2. /\ run.step \in {"reading", "loop", "check"}
      /\ \E result \in {"stopping", "time", "precondition", "changed", "failed"} :
           Overriding!Ends(result)
  BY DEF Overriding!LoopStops, Overriding!ReadFails, Overriding!Turn
<1>. QED  BY <1>1, <1>2, EndsIs

LEMMA RefusedIs ==
  ASSUME ServerHolds, Overriding!PutRefused
  PROVE  /\ ServerHolds' /\ RunKept /\ run.step = "write"
         /\ GivesUpNow \/ Passed(run.at, run.skipped \cup {run.at})
<1>1. UNCHANGED <<disc, delivered, admin, configured, recorded, judged, untouched, quiet>> /\ run.step = "write"
  BY DEF Overriding!PutRefused, Overriding!server, Overriding!history
<1>2. CASE Overriding!Skip(run.at)
  BY <1>1, <1>2, SkipIs
<1>3. CASE Overriding!Ends("permissions")
  BY <1>1, <1>3, EndsIs
<1>. QED  BY <1>2, <1>3 DEF Overriding!PutRefused

LEMMA ChecksIs ==
  ASSUME ServerHolds, Overriding!Checks
  PROVE  /\ ServerHolds' /\ RunKept /\ run.step = "check"
         /\ GivesUpNow \/ Passed(run.at, run.skipped)
<1>1. UNCHANGED <<disc, delivered, admin, configured, recorded, judged, untouched, quiet>> /\ run.step = "check"
  BY DEF Overriding!Checks, Overriding!server, Overriding!history
<1>2. SameRun(run)
  BY DEF SameRun, ServerHolds
<1>3. CASE run' = Overriding!Moved(run.at, run)
  BY <1>1, <1>2, <1>3, PassedIs
<1>4. CASE Overriding!Ends("changed")
  BY <1>1, <1>4, EndsIs
<1>. QED  BY <1>3, <1>4 DEF Overriding!Checks

\* One channel of the loop: left alone, found changed, done by Discord's copy, or written.
LEMMA ExamineIs ==
  ASSUME ServerHolds, NEW c, Overriding!Examine(c)
  PROVE  /\ ServerHolds' /\ RunKept /\ Overriding!Goes(c)
         /\ \/ Overriding!LeftAlone(c) /\ Passed(c, run.skipped \cup {c})
            \/ GivesUpNow
            \/ /\ ~Overriding!LeftAlone(c)
               /\ Overriding!Untouchable(Overriding!Seen, Overriding!InRun, c, Overriding!Fresh(c))
               /\ \/ Passed(c, run.skipped \cup {c})
                  \/ Overriding!Propagated(c) /\ Passed(c, run.skipped)
            \/ Chosen(c)
<1>1. UNCHANGED <<disc, delivered, admin, configured, recorded, judged, untouched, quiet>> /\ Overriding!Goes(c)
  BY DEF Overriding!Examine, Overriding!server, Overriding!history
<1> DEFINE untouchable == Overriding!Untouchable(Overriding!Seen, Overriding!InRun, c, Overriding!Fresh(c))
           resumes == Overriding!Resumable(disc[c].parent) => Overriding!Lends(disc[c].parent) # Overriding!NoInherit
           found == Overriding!State(Overriding!Seen, Overriding!InRun, c, Overriding!Fresh(c)) \in {"hidden", "denied"}
           lent == IF Overriding!Resumable(disc[c].parent)
                   THEN Overriding!Set(run.lends, disc[c].parent, Overriding!Lends(disc[c].parent)) ELSE run.lends
           copied == [run EXCEPT !.changed = TRUE]
           left == [run EXCEPT !.skipped = @ \cup {c}, !.found = IF found THEN @ \cup {c} ELSE @]
           wrote == [run EXCEPT !.step = "write", !.at = c, !.ows = disc[c].overwrites,
                                !.after = Overriding!Recompute(c), !.lends = lent]
<1>2. \/ Overriding!LeftAlone(c) /\ Overriding!Skip(c)
      \/ Overriding!Ends("changed")
      \/ ~Overriding!LeftAlone(c) /\ untouchable /\ Overriding!Propagated(c) /\ run' = Overriding!Moved(c, copied)
      \/ ~Overriding!LeftAlone(c) /\ untouchable /\ run' = Overriding!Moved(c, left)
      \/ ~Overriding!LeftAlone(c) /\ ~untouchable /\ resumes /\ run' = wrote
  BY DEF Overriding!Examine
<1>3. CASE Overriding!LeftAlone(c) /\ Overriding!Skip(c)
  BY <1>1, <1>3, SkipIs
<1>4. CASE Overriding!Ends("changed")
  BY <1>1, <1>4, EndsIs
<1>5. CASE ~Overriding!LeftAlone(c) /\ untouchable /\ Overriding!Propagated(c) /\ run' = Overriding!Moved(c, copied)
  <2>1. SameRun(copied) /\ copied.skipped = run.skipped
    BY DEF SameRun, ServerHolds, RunFields
  <2> HIDE DEF copied, untouchable
  <2>2. ServerHolds' /\ RunKept /\ Passed(c, run.skipped)
    BY <1>1, <1>5, <2>1, PassedIs
  <2>. QED  BY <1>1, <1>5, <2>2 DEF untouchable
<1>6. CASE ~Overriding!LeftAlone(c) /\ untouchable /\ run' = Overriding!Moved(c, left)
  <2> HIDE DEF found, untouchable
  <2>1. SameRun(left) /\ left.skipped = run.skipped \cup {c}
    BY DEF SameRun, ServerHolds, RunFields
  <2> HIDE DEF left
  <2>2. ServerHolds' /\ RunKept /\ Passed(c, run.skipped \cup {c})
    BY <1>1, <1>6, <2>1, PassedIs
  <2>. QED  BY <1>1, <1>6, <2>2 DEF untouchable
<1>7. CASE ~Overriding!LeftAlone(c) /\ ~untouchable /\ resumes /\ run' = wrote
  <2>1. c \in DOMAIN disc
    BY <1>7 DEF Overriding!LeftAlone
  <2>2. Overriding!Clean(Overriding!Recompute(c))
    <3>1. Overriding!Clean(Overriding!Lends(disc[c].parent).after)
      BY LentIsClean
    <3>2. Overriding!Clean(Overriding!EntryOf(Overriding!Fresh(c).overwrites, Self))
      BY <2>1, FreshIs
    <3>3. Overriding!Clean(Overriding!OwnWrite(Overriding!Seen, Overriding!InRun, c, Overriding!Fresh(c)))
      BY <3>2, OwnWriteIsClean
    <3>. QED  BY <3>1, <3>3 DEF Overriding!Recompute, Overriding!Target
  <2>3. \A k \in DOMAIN lent : Overriding!Clean(lent[k].after)
    BY LentIsClean DEF ServerHolds, Overriding!Set
  <2> HIDE DEF lent, untouchable, resumes
  <2>4. /\ RunKept /\ run'.step = "write" /\ run'.at = c /\ run'.ows = disc[c].overwrites
        /\ run'.after = Overriding!Recompute(c) /\ run'.lends = lent
        /\ run'.todo = run.todo /\ run'.skipped = run.skipped /\ run'.result = run.result
    BY <1>1, <1>7 DEF ServerHolds, RunFields, RunKept
  <2>5. ServerHolds'
    BY <2>2, <2>3, <2>4, ServerSame DEF RunKept, Active, ServerHolds
  <2>. QED  BY <1>1, <1>7, <2>4, <2>5 DEF Chosen, untouchable, resumes, lent
<1>. QED  BY <1>2, <1>3, <1>4, <1>5, <1>6, <1>7

\* What a PUT leaves: the children Discord copied, and what the run lends from then on.
LEMMA PutStoredIs ==
  ASSUME ServerHolds, Overriding!PutStored
  PROVE  /\ ServerHolds' /\ UNCHANGED <<delivered, admin, configured, recorded, untouched, quiet>>
         /\ run.step = "write" /\ run.at \in DOMAIN disc
         /\ judged' = {d \in judged : d = run.at \/ Overriding!Denied(disc'[d])}
         /\ \E copies \in BOOLEAN : disc' = Overriding!Put(run.at, run.after, copies)
         /\ DOMAIN run' = RunFields /\ run'.step = "check" /\ run'.at = run.at /\ run'.snap = run.snap
         /\ run'.set = run.set /\ run'.before = run.before /\ run'.known = run.known /\ run'.real = run.real
         /\ run'.plan = run.plan /\ run'.todo = run.todo /\ run'.skipped = run.skipped /\ run'.result = run.result
         /\ run'.own = (IF run.snap[run.at].category THEN run.own \cup {run.at} ELSE run.own)
         /\ run'.lends = (IF run.snap[run.at].category
                          THEN Overriding!Set(run.lends, run.at,
                                              [parent |-> run.at, before |-> run.ows, after |-> run.after])
                          ELSE run.lends)
<1> DEFINE lent == [parent |-> run.at, before |-> run.ows, after |-> run.after]
           own == IF run.snap[run.at].category THEN run.own \cup {run.at} ELSE run.own
           lends == IF run.snap[run.at].category THEN Overriding!Set(run.lends, run.at, lent) ELSE run.lends
<1>1. /\ UNCHANGED <<delivered, admin, configured, recorded, untouched, quiet>>
      /\ run.step = "write" /\ run.at \in DOMAIN disc
      /\ judged' = {d \in judged : d = run.at \/ Overriding!Denied(disc'[d])}
      /\ \E copies \in BOOLEAN : disc' = Overriding!Put(run.at, run.after, copies)
  BY DEF Overriding!PutStored, Overriding!StillThere
<1>2. run' = [run EXCEPT !.step = "check", !.changed = TRUE, !.own = own, !.lends = lends]
  BY DEF Overriding!PutStored
<1>3. \A k \in DOMAIN lends : Overriding!Clean(lends[k].after)
  BY <1>1 DEF ServerHolds, Overriding!Set
<1> HIDE DEF own, lends
<1>4. /\ DOMAIN run' = RunFields /\ run'.step = "check" /\ run'.at = run.at /\ run'.snap = run.snap
      /\ run'.set = run.set /\ run'.before = run.before /\ run'.known = run.known /\ run'.real = run.real
      /\ run'.plan = run.plan /\ run'.todo = run.todo /\ run'.skipped = run.skipped /\ run'.result = run.result
      /\ run'.own = own /\ run'.lends = lends
  BY <1>2 DEF ServerHolds, RunFields
<1>5. Overriding!Clean(run.after)
  BY <1>1 DEF ServerHolds
<1>6. /\ DOMAIN disc' = DOMAIN disc
      /\ \A d \in DOMAIN disc : Overriding!ChannelOK(disc'[d]) /\ disc'[d].category = disc[d].category
                                /\ disc'[d].parent = disc[d].parent
  BY <1>1, <1>5, PutIs
<1>7. Overriding!Tree(disc')
  BY <1>6 DEF ServerHolds, Overriding!Tree
<1>8. ServerHolds'
  BY <1>1, <1>3, <1>4, <1>6, <1>7 DEF ServerHolds, Active
<1>. QED  BY <1>1, <1>4, <1>8 DEF own, lends

LEMMA PutUnconfirmedIs ==
  ASSUME ServerHolds, Overriding!PutUnconfirmed
  PROVE  /\ ServerHolds' /\ UNCHANGED <<delivered, admin, configured, recorded, untouched, quiet>>
         /\ run.step = "write" /\ run.at \in DOMAIN disc
         /\ judged' = {d \in judged : d = run.at \/ Overriding!Denied(disc'[d])}
         /\ disc' = disc \/ \E copies \in BOOLEAN : disc' = Overriding!Put(run.at, run.after, copies)
         /\ DOMAIN run' = RunFields /\ GivesUpNow /\ run'.snap = run.snap /\ run'.before = run.before /\ run'.set = run.set
         /\ run'.known = run.known /\ run'.real = run.real
<1>1. /\ UNCHANGED <<delivered, admin, configured, recorded, untouched, quiet>>
      /\ run.step = "write" /\ run.at \in DOMAIN disc
      /\ judged' = {d \in judged : d = run.at \/ Overriding!Denied(disc'[d])}
      /\ disc' = disc \/ \E copies \in BOOLEAN : disc' = Overriding!Put(run.at, run.after, copies)
  BY DEF Overriding!PutUnconfirmed, Overriding!StillThere
<1>2. PICK result \in {"stopping", "failed"} :
        run' = [run EXCEPT !.step = "recording", !.changed = TRUE, !.result = result]
  BY DEF Overriding!PutUnconfirmed
<1>3. /\ DOMAIN run' = RunFields /\ GivesUpNow /\ run'.snap = run.snap /\ run'.before = run.before /\ run'.set = run.set
      /\ run'.known = run.known /\ run'.real = run.real
  BY <1>2 DEF ServerHolds, RunFields, GivesUpNow
<1>4. Overriding!Clean(run.after)
  BY <1>1 DEF ServerHolds
<1>5. /\ DOMAIN disc' = DOMAIN disc
      /\ \A d \in DOMAIN disc : Overriding!ChannelOK(disc'[d]) /\ disc'[d].category = disc[d].category
                                /\ disc'[d].parent = disc[d].parent
  BY <1>1, <1>4, PutIs DEF ServerHolds
<1>6. Overriding!Tree(disc')
  BY <1>5 DEF ServerHolds, Overriding!Tree
<1>7. ServerHolds'
  BY <1>1, <1>3, <1>5, <1>6 DEF ServerHolds, Active, GivesUpNow
<1>. QED  BY <1>1, <1>3, <1>7

LEMMA RecordIs ==
  ASSUME ServerHolds, Overriding!Record
  PROVE  /\ ServerHolds' /\ UNCHANGED <<disc, delivered, admin, configured, untouched, quiet>>
         /\ run.step = "recording" /\ recorded' = run.known \cup run.found
         /\ judged' = judged \cup {c \in (run.real \cup run.found) \cap DOMAIN disc : Overriding!Denied(disc[c])}
         /\ run'.step = "done" /\ run'.result = run.result /\ run'.skipped = run.skipped
<1>1. /\ UNCHANGED <<disc, delivered, admin, configured, untouched, quiet>>
      /\ run.step = "recording" /\ recorded' = run.known \cup run.found
      /\ judged' = judged \cup {c \in (run.real \cup run.found) \cap DOMAIN disc : Overriding!Denied(disc[c])}
  BY DEF Overriding!Record, Overriding!server
<1>2. run'.step = "done" /\ run'.result = run.result /\ run'.skipped = run.skipped /\ DOMAIN run' = RunFields
      /\ DOMAIN run'.lends = {}
  BY NoRunIs DEF Overriding!Record, RunFields
<1>. QED  BY <1>1, <1>2, ServerSame DEF ServerHolds, Active

\* Someone hides, moves or deletes one channel.
LEMMA EditIs ==
  ASSUME ServerHolds, NEW c, Overriding!Hide(c) \/ Overriding!Delete(c) \/ \E k : Overriding!Move(c, k)
  PROVE  /\ ServerHolds' /\ UNCHANGED <<delivered, admin, configured, recorded, run>>
         /\ quiet' = FALSE /\ untouched' = untouched \ {c} /\ judged' = judged \cap DOMAIN disc'
         /\ DOMAIN disc' \subseteq DOMAIN disc
         /\ \A d \in DOMAIN disc' \ {c} : disc'[d] = disc[d]
         /\ \A d \in DOMAIN disc' : Overriding!Denied(disc[d]) => Overriding!Denied(disc'[d])
<1>1. /\ UNCHANGED <<delivered, admin, configured, recorded, run>>
      /\ quiet' = FALSE /\ untouched' = untouched \ {c} /\ judged' = judged \cap DOMAIN disc' /\ c \in DOMAIN disc
  BY DEF Overriding!Hide, Overriding!Delete, Overriding!Move, Overriding!Edited, Overriding!Elsewhere
<1>2. CASE Overriding!Hide(c)
  <2> DEFINE entry == [allow |-> {}, deny |-> {"view"}]
  <2>1. /\ DOMAIN disc' = DOMAIN disc /\ disc'[c] = Overriding!Written(disc[c], entry)
        /\ \A d \in DOMAIN disc \ {c} : disc'[d] = disc[d]
    BY <1>1, <1>2 DEF Overriding!Hide
  <2>2. Overriding!Clean(entry) /\ "view" \in entry.deny
    BY DEF Overriding!Clean
  <2>3. /\ Overriding!ChannelOK(disc'[c]) /\ disc'[c].category = disc[c].category /\ disc'[c].parent = disc[c].parent
        /\ Overriding!Denied(disc'[c])
    BY <1>1, <2>1, <2>2, WrittenEntryIs DEF ServerHolds, Overriding!Denied
  <2>4. Overriding!Tree(disc')
    BY <2>1, <2>3 DEF ServerHolds, Overriding!Tree
  <2>. QED  BY <1>1, <2>1, <2>3, <2>4 DEF ServerHolds
<1>3. CASE Overriding!Delete(c)
  <2>1. /\ DOMAIN disc' = DOMAIN disc \ {c} /\ \A d \in DOMAIN disc \ {c} : disc'[d] = disc[d]
        /\ ~disc[c].category
    BY <1>3 DEF Overriding!Delete, Overriding!Drop
  <2>2. Overriding!Tree(disc')
    BY <2>1 DEF ServerHolds, Overriding!Tree
  <2>. QED  BY <1>1, <2>1, <2>2 DEF ServerHolds
<1>4. ASSUME NEW k, Overriding!Move(c, k)
      PROVE  /\ ServerHolds' /\ DOMAIN disc' \subseteq DOMAIN disc
             /\ \A d \in DOMAIN disc' \ {c} : disc'[d] = disc[d]
             /\ \A d \in DOMAIN disc' : Overriding!Denied(disc[d]) => Overriding!Denied(disc'[d])
  <2>1. /\ disc' = [disc EXCEPT ![c] = [disc[c] EXCEPT !.parent = k]] /\ k \in DOMAIN disc /\ disc[k].category
        /\ ~disc[c].category /\ c # k
    BY <1>4 DEF Overriding!Move
  <2>2. DOMAIN disc[c] = {"category", "parent", "overwrites", "obfuscated", "fetched"}
    BY <1>1 DEF ServerHolds, Overriding!ChannelOK
  <2>3. /\ DOMAIN disc'[c] = DOMAIN disc[c] /\ disc'[c].category = disc[c].category /\ disc'[c].parent = k
        /\ disc'[c].overwrites = disc[c].overwrites /\ disc'[c].obfuscated = disc[c].obfuscated
    BY <1>1, <2>1, <2>2
  <2>4. /\ DOMAIN disc' = DOMAIN disc /\ \A d \in DOMAIN disc \ {c} : disc'[d] = disc[d]
        /\ Overriding!ChannelOK(disc'[c]) /\ disc'[c].category = disc[c].category /\ disc'[c].parent = k
        /\ Overriding!Denied(disc'[c]) = Overriding!Denied(disc[c])
    BY <1>1, <2>1, <2>3 DEF ServerHolds, Overriding!ChannelOK, Overriding!Denied
  <2>5. Overriding!Tree(disc')
    BY <2>1, <2>4 DEF ServerHolds, Overriding!Tree
  <2>. QED  BY <1>1, <2>4, <2>5 DEF ServerHolds
<1>. QED  BY <1>1, <1>2, <1>3, <1>4

\* What the gateway delivers, a settings command, the Administrator switch and a drain
\* leave alone.
SameChannels == UNCHANGED <<disc, recorded, judged>>
LEMMA OthersIs ==
  ASSUME ServerHolds,
         \/ Overriding!Deliver \/ Overriding!Administrator \/ (\E c : Overriding!Unflag(c))
         \/ (\E named : Overriding!Configure(named)) \/ Overriding!Drain \/ Overriding!Killed
  PROVE  /\ ServerHolds' /\ SameChannels
         /\ \/ UNCHANGED run \/ run' = Overriding!NoRun
            \/ run' = [run EXCEPT !.stop = TRUE] /\ UNCHANGED <<admin, configured, untouched, quiet>>
         /\ quiet' \in {quiet, FALSE} /\ untouched' \subseteq untouched
         /\ quiet' # FALSE => UNCHANGED <<admin, configured>>
         /\ configured' = configured \/ untouched' = untouched \ configured'
<1>1. CASE Overriding!Deliver \/ \E c : Overriding!Unflag(c)
  <2>1. /\ UNCHANGED <<disc, recorded, judged, run, admin, configured, untouched, quiet>>
        /\ DOMAIN disc \subseteq DOMAIN delivered'
    BY <1>1 DEF Overriding!Deliver, Overriding!Unflag, Overriding!history, ServerHolds
  <2>. QED  BY <2>1 DEF ServerHolds, SameChannels
<1>2. CASE Overriding!Administrator
  <2>1. UNCHANGED <<disc, recorded, judged, run, configured, untouched, delivered>> /\ quiet' = FALSE
    BY <1>2 DEF Overriding!Administrator, Overriding!Elsewhere
  <2>. QED  BY <2>1 DEF ServerHolds, SameChannels
<1>3. CASE \E named : Overriding!Configure(named)
  <2>1. /\ UNCHANGED <<disc, recorded, judged, run, delivered>> /\ quiet' = FALSE
        /\ untouched' = untouched \ configured'
    BY <1>3 DEF Overriding!Configure, Overriding!Elsewhere
  <2>. QED  BY <2>1 DEF ServerHolds, SameChannels
<1>4. CASE Overriding!Drain
  <2>1. /\ UNCHANGED <<disc, recorded, judged, delivered, admin, configured, untouched, quiet>>
        /\ run' = [run EXCEPT !.stop = TRUE]
    BY <1>4 DEF Overriding!Drain, Overriding!server, Overriding!history
  <2>2. DOMAIN run' = RunFields /\ run'.step = run.step /\ run'.after = run.after /\ run'.lends = run.lends
    BY <2>1 DEF ServerHolds, RunFields
  <2>. QED  BY <2>1, <2>2 DEF ServerHolds, SameChannels
<1>5. CASE Overriding!Killed
  <2>1. /\ UNCHANGED <<disc, recorded, judged, delivered, admin, configured, untouched, quiet>>
        /\ run' = Overriding!NoRun
    BY <1>5 DEF Overriding!Killed, Overriding!server, Overriding!history
  <2>. QED  BY <2>1, NoRunIs DEF ServerHolds, SameChannels
<1>. QED  BY <1>1, <1>2, <1>3, <1>4, <1>5

\* The steps of Overrides, each with the lemma that says what it changes.
RunOnly == (\E c : Overriding!LoopStops(c) \/ Overriding!Examine(c))
           \/ Overriding!PutRefused \/ Overriding!Checks \/ Overriding!ReadFails
LEMMA StepsAre ==
  ASSUME Overriding!Next
  PROVE  \/ Overriding!Start \/ (\E c : Overriding!Reads(c)) \/ Overriding!Plans \/ RunOnly
         \/ Overriding!PutStored \/ Overriding!PutUnconfirmed \/ Overriding!Record
         \/ (\E c : Overriding!Hide(c) \/ Overriding!Delete(c) \/ \E k : Overriding!Move(c, k))
         \/ (\/ Overriding!Deliver \/ Overriding!Administrator \/ (\E c : Overriding!Unflag(c))
             \/ (\E named : Overriding!Configure(named)) \/ Overriding!Drain \/ Overriding!Killed)
BY Zenon DEF Overriding!Next, Overriding!RunStep, RunOnly
LEMMA RunOnlyIs ==
  ASSUME ServerHolds, RunOnly
  PROVE  /\ ServerHolds' /\ RunKept /\ run.step \in Active /\ run'.step \in Active
         /\ run'.step = "write" => run'.at \in DOMAIN disc /\ Chosen(run'.at)
<1>1. CASE (\E c : Overriding!LoopStops(c)) \/ Overriding!ReadFails
  BY <1>1, LoopStopsIs DEF GivesUpNow, Active
<1>2. ASSUME NEW c, Overriding!Examine(c)
      PROVE  /\ ServerHolds' /\ RunKept /\ run.step \in Active /\ run'.step \in Active
             /\ run'.step = "write" => run'.at \in DOMAIN disc /\ Chosen(run'.at)
  <2>1. run.step \in Active
    BY <1>2 DEF Overriding!Examine, Overriding!Goes, Overriding!Turn, Active
  <2>2. Chosen(c) => c \in DOMAIN disc /\ run'.at = c
    BY DEF Chosen, Overriding!LeftAlone
  <2>. QED  BY <1>2, <2>1, <2>2, ExamineIs DEF Passed, GivesUpNow, Chosen, Active
<1>3. CASE Overriding!PutRefused
  BY <1>3, RefusedIs DEF GivesUpNow, Passed, Active
<1>4. CASE Overriding!Checks
  BY <1>4, ChecksIs DEF GivesUpNow, Passed, Active
<1>. QED  BY <1>1, <1>2, <1>3, <1>4 DEF RunOnly

\* What a plan records covers every deny that was recorded and still stands.
LEMMA RecordsCover ==
  ASSUME DeniesHold, run.step = "reading"
  PROVE  judged \subseteq Overriding!JudgedNow \cup Overriding!Unexamined
<1>. SUFFICES ASSUME NEW c \in judged PROVE c \in Overriding!JudgedNow \cup Overriding!Unexamined
  OBVIOUS
<1>1. /\ c \in DOMAIN run.snap /\ c \in run.before
      /\ Overriding!Unreadable(run.snap[c]) \/ Barred(run.snap[c])
  BY DEF DeniesHold, Active
<1>2. CASE Overriding!Unreadable(run.snap[c])
  BY <1>1, <1>2 DEF Overriding!Unexamined, Overriding!Examined
<1>3. CASE ~Overriding!Unreadable(run.snap[c])
  <2> DEFINE g == Overriding!Seen
             s == Overriding!InRun
  <2>1. g.channels = run.snap
    BY DEF Overriding!Seen, Overriding!View
  <2>2. Overriding!StateIn(g, s, c) \in {"hidden", "denied"}
    BY <1>1, <1>3, <2>1, BarredIsNoted DEF Overriding!StateIn
  <2>3. c \notin Overriding!Private(g, s)
    BY <2>2 DEF Overriding!Private
  <2>4. c \in Overriding!HiddenOnPurpose(g, s) \cup Overriding!DeniedSet(g, s)
    BY <1>1, <2>1, <2>2, <2>3 DEF Overriding!HiddenOnPurpose, Overriding!DeniedSet, Overriding!Being
  <2>. QED  BY <1>1, <1>3, <2>4 DEF Overriding!JudgedNow, Overriding!Examined
<1>. QED  BY <1>2, <1>3

LEMMA DeniesStart ==
  ASSUME ServerHolds, DeniesHold, Overriding!Start \/ (\E c : Overriding!Reads(c)) \/ Overriding!Plans
  PROVE  ServerHolds' /\ DeniesHold'
<1>0. \A c \in judged : c \in DOMAIN disc /\ Overriding!Denied(disc[c]) /\ Overriding!Clean(Overriding!EntryOf(disc[c].overwrites, Self))
  BY DEF DeniesHold, ServerHolds, Overriding!ChannelOK
<1>1. \A c \in judged : Barred(disc[c]) /\ Barred(Overriding!Fresh(c))
  BY <1>0, FreshIs DEF Barred, Overriding!Denied, Overriding!Clean
<1>2. CASE Overriding!Start
  <2>1. \A c \in judged : Overriding!Unreadable(delivered[c]) \/ Barred(delivered[c])
    BY <1>0, <1>1, <1>2, StartIs DEF ServerHolds
  <2>. QED  BY <1>2, <2>1, StartIs DEF DeniesHold, ServerHolds, Active
<1>3. ASSUME NEW c, Overriding!Reads(c) PROVE ServerHolds' /\ DeniesHold'
  <2>1. /\ run'.step = run.step /\ run'.before = run.before /\ run'.known = run.known /\ run'.real = run.real
        /\ run.step \in Active /\ run'.step # "write"
    BY <1>3, ReadsIs DEF ServerHolds, RunFields, Active
  <2>0. \A d \in DOMAIN disc \cap DOMAIN run.snap :
          d \in DOMAIN run'.snap /\ (d # c => run'.snap[d] = run.snap[d])
    <3>1. CASE run'.snap = Overriding!Drop(run.snap, c) /\ c \notin DOMAIN disc
      BY <3>1 DEF Overriding!Drop
    <3>2. CASE run'.snap = Overriding!Set(run.snap, c, Overriding!Fresh(c))
      BY <3>2 DEF Overriding!Set
    <3>3. CASE run'.snap = run.snap
      BY <3>3
    <3>. QED  BY <1>3, <3>1, <3>2, <3>3, ReadsIs
  <2>2. DOMAIN disc \subseteq DOMAIN run'.snap
    BY <2>0, <2>1 DEF DeniesHold
  <2>3. \A d \in judged : Overriding!Unreadable(run'.snap[d]) \/ Barred(run'.snap[d])
    <3>. TAKE d \in judged
    <3>1. d \in DOMAIN run.snap /\ (Overriding!Unreadable(run.snap[d]) \/ Barred(run.snap[d]))
      BY <1>0, <2>1 DEF DeniesHold
    <3>2. d # c => run'.snap[d] = run.snap[d]
      BY <1>0, <2>0, <3>1
    <3>3. d = c => run'.snap[d] = run.snap[d] \/ run'.snap[d] = Overriding!Fresh(d)
      BY <1>0, <1>3, ReadsIs DEF Overriding!Set
    <3>. QED  BY <1>1, <3>1, <3>2, <3>3
  <2>. QED  BY <1>3, <2>1, <2>2, <2>3, ReadsIs DEF DeniesHold
<1>4. CASE Overriding!Plans
  <2>1. /\ run'.before = run.before /\ run'.snap = run.snap /\ run.step = "reading" /\ run'.step \in {"loop", "recording"}
    BY <1>4, PlansIs DEF ServerHolds, RunFields
  <2>2. judged \subseteq run'.known /\ run'.real \subseteq run'.known
    BY <1>4, <2>1, PlansIs, RecordsCover
  <2>. QED  BY <1>4, <2>1, <2>2, PlansIs DEF DeniesHold, Active
<1>. QED  BY <1>2, <1>3, <1>4

\* The loop looks at no denied channel twice: one it writes was not denied when read.
LEMMA ChosenIsOpen ==
  ASSUME ServerHolds, NEW c \in DOMAIN disc, Chosen(c)
  PROVE  "view" \notin Overriding!EntryOf(disc[c].overwrites, Self).deny
<1>1. ~Overriding!Unreadable(Overriding!Fresh(c)) /\ Overriding!Fresh(c).overwrites = disc[c].overwrites
      /\ Overriding!Clean(Overriding!EntryOf(disc[c].overwrites, Self))
  BY FreshIs
<1>2. Overriding!State(Overriding!Seen, Overriding!InRun, c, Overriding!Fresh(c)) \in {"missing", "masked"}
  BY DEF Chosen, Overriding!Untouchable
<1>3. ~Barred(Overriding!Fresh(c))
  BY <1>1, <1>2, BarredIsNoted
<1>. QED  BY <1>1, <1>3 DEF Barred, Overriding!Clean

LEMMA DeniesInRun ==
  ASSUME ServerHolds, DeniesHold, RunOnly \/ Overriding!PutStored \/ Overriding!PutUnconfirmed \/ Overriding!Record
  PROVE  ServerHolds' /\ DeniesHold'
<1>1. CASE RunOnly
  <2>1. run'.step = "write" =>
          run'.at \in DOMAIN disc /\ run'.ows = disc[run'.at].overwrites
          /\ "view" \notin Overriding!EntryOf(run'.ows, Self).deny
    BY <1>1, RunOnlyIs, ChosenIsOpen DEF Chosen
  <2>2. run'.step = "write" => run'.at \notin judged
    BY <2>1 DEF DeniesHold, Overriding!Denied
  <2>. QED  BY <1>1, <2>1, <2>2, RunOnlyIs DEF DeniesHold, RunKept
<1>2. ASSUME Overriding!PutStored \/ Overriding!PutUnconfirmed PROVE ServerHolds' /\ DeniesHold'
  <2>1. /\ ServerHolds' /\ UNCHANGED recorded /\ run.step = "write" /\ DOMAIN disc' = DOMAIN disc
        /\ judged' = {d \in judged : d = run.at \/ Overriding!Denied(disc'[d])}
        /\ run'.step \in {"check", "recording"} /\ run'.snap = run.snap /\ run'.before = run.before
        /\ run'.known = run.known /\ run'.real = run.real
    <3>1. CASE Overriding!PutStored
      BY <3>1, PutStoredIs, PutIs DEF ServerHolds
    <3>2. CASE Overriding!PutUnconfirmed
      BY <3>2, PutUnconfirmedIs, PutIs DEF ServerHolds, GivesUpNow
    <3>. QED  BY <1>2, <3>1, <3>2
  <2>2. \A d \in judged' : d \in judged /\ Overriding!Denied(disc'[d])
    BY <2>1 DEF DeniesHold
  <2>. QED  BY <2>1, <2>2 DEF DeniesHold, Active
<1>3. CASE Overriding!Record
  <2>1. run.real \subseteq run.known /\ judged \subseteq run.known
    BY <1>3, RecordIs DEF DeniesHold, Active
  <2>2. judged' \subseteq recorded' \cap DOMAIN disc' /\ \A c \in judged' : Overriding!Denied(disc'[c])
    BY <1>3, <2>1, RecordIs DEF DeniesHold
  <2>. QED  BY <1>3, <2>2, RecordIs DEF DeniesHold, Active
<1>. QED  BY <1>1, <1>2, <1>3

LEMMA DeniesBeside ==
  ASSUME ServerHolds, DeniesHold,
         \/ (\E c : Overriding!Hide(c) \/ Overriding!Delete(c) \/ \E k : Overriding!Move(c, k))
         \/ (\/ Overriding!Deliver \/ Overriding!Administrator \/ (\E c : Overriding!Unflag(c))
             \/ (\E named : Overriding!Configure(named)) \/ Overriding!Drain \/ Overriding!Killed)
  PROVE  ServerHolds' /\ DeniesHold'
<1>1. ASSUME NEW c, Overriding!Hide(c) \/ Overriding!Delete(c) \/ \E k : Overriding!Move(c, k)
      PROVE  ServerHolds' /\ DeniesHold'
  <2>1. /\ ServerHolds' /\ UNCHANGED <<recorded, run>> /\ judged' = judged \cap DOMAIN disc' /\ DOMAIN disc' \subseteq DOMAIN disc
        /\ \A d \in DOMAIN disc' : Overriding!Denied(disc[d]) => Overriding!Denied(disc'[d])
    BY <1>1, EditIs
  <2>. QED  BY <2>1 DEF DeniesHold
<1>2. ASSUME \/ Overriding!Deliver \/ Overriding!Administrator \/ (\E c : Overriding!Unflag(c))
             \/ (\E named : Overriding!Configure(named)) \/ Overriding!Drain \/ Overriding!Killed
      PROVE  ServerHolds' /\ DeniesHold'
  <2>1. ServerHolds' /\ SameChannels
    BY <1>2, OthersIs
  <2>2. UNCHANGED run \/ run' = Overriding!NoRun \/ run' = [run EXCEPT !.stop = TRUE]
    BY <1>2, OthersIs
  <2>3. CASE UNCHANGED run
    BY <2>1, <2>3 DEF DeniesHold, SameChannels
  <2>4. CASE run' = Overriding!NoRun
    BY <2>1, <2>4, NoRunIs DEF DeniesHold, SameChannels, Active
  <2>5. CASE run' = [run EXCEPT !.stop = TRUE]
    <3>1. /\ run'.step = run.step /\ run'.snap = run.snap /\ run'.before = run.before /\ run'.known = run.known
          /\ run'.real = run.real /\ run'.at = run.at /\ run'.ows = run.ows
      BY <2>5 DEF ServerHolds, RunFields
    <3>. QED  BY <2>1, <3>1 DEF DeniesHold, SameChannels
  <2>. QED  BY <2>1, <2>2, <2>3, <2>4, <2>5
<1>. QED  BY <1>1, <1>2

LEMMA ServerStart ==
  ASSUME Overriding!Init
  PROVE  ServerHolds /\ DeniesHold
<1>1. disc = Layout /\ delivered = Layout /\ run = Overriding!NoRun /\ judged = {}
  BY DEF Overriding!Init
<1>. QED
  BY <1>1, NoRunIs, OverridesAssumption DEF ServerHolds, DeniesHold, Overriding!ServerOK, Active

\* A deny goes only with a PUT, and the channel a PUT is for was not denied when read.
LEMMA DeniesStep ==
  ASSUME ServerHolds, DeniesHold, Overriding!Next
  PROVE  /\ ServerHolds' /\ DeniesHold'
         /\ \A c \in DOMAIN disc \cap DOMAIN disc' :
              Overriding!Denied(disc[c]) /\ ~Overriding!Denied(disc'[c])
                => "view" \notin Overriding!EntryOf(run.ows, Self).deny
<1>1. CASE Overriding!Start \/ (\E c : Overriding!Reads(c)) \/ Overriding!Plans
  BY <1>1, DeniesStart, StartIs, ReadsIs, PlansIs
<1>2. CASE Overriding!PutStored \/ Overriding!PutUnconfirmed
  BY <1>2, DeniesInRun, PutStoredIs, PutUnconfirmedIs DEF DeniesHold
<1>3. CASE RunOnly
  BY <1>3, DeniesInRun, RunOnlyIs DEF RunKept
<1>4. CASE Overriding!Record
  BY <1>4, DeniesInRun, RecordIs
<1>5. CASE \E c : Overriding!Hide(c) \/ Overriding!Delete(c) \/ \E k : Overriding!Move(c, k)
  BY <1>5, DeniesBeside, EditIs
<1>6. CASE \/ Overriding!Deliver \/ Overriding!Administrator \/ (\E c : Overriding!Unflag(c))
           \/ (\E named : Overriding!Configure(named)) \/ Overriding!Drain \/ Overriding!Killed
  BY <1>6, DeniesBeside, OthersIs DEF SameChannels
<1>. QED  BY <1>1, <1>2, <1>3, <1>4, <1>5, <1>6, StepsAre

\* The denies an audited run saw stay recorded while they stand, and a run's PUT takes a deny
\* away only when its channel was hidden after the run read it, for every server, every number
\* of runs and whatever anyone does meanwhile.
THEOREM DeniesStayKept == PartsSpec => DeniesAreKept
<1>1. PartsInit => ServerHolds /\ DeniesHold
  BY ServerStart DEF PartsInit
<1> DEFINE Stands == \A c \in DOMAIN disc \cap DOMAIN disc' :
                       Overriding!Denied(disc[c]) /\ ~Overriding!Denied(disc'[c])
                         => "view" \notin Overriding!EntryOf(run.ows, Self).deny
<1>2. ServerHolds /\ DeniesHold /\ [PartsNext]_<<part, vars, overrideVars, rosterVars>> =>
        ServerHolds' /\ DeniesHold' /\ [Stands]_disc
  <2>. SUFFICES ASSUME ServerHolds, DeniesHold, [PartsNext]_<<part, vars, overrideVars, rosterVars>>
       PROVE  ServerHolds' /\ DeniesHold' /\ [Stands]_disc
    OBVIOUS
  <2>1. CASE Overriding!Next
    BY <2>1, DeniesStep
  <2>2. CASE UNCHANGED overrideVars
    <3>1. UNCHANGED <<disc, delivered, recorded, run, judged>>
      BY <2>2 DEF overrideVars
    <3>2. ServerHolds' /\ DeniesHold'
      BY <3>1 DEF ServerHolds, DeniesHold
    <3>. QED  BY <3>1, <3>2
  <2>. QED  BY <2>1, <2>2, Zenon DEF PartsNext
<1>3. DeniesHold => Overriding!DeniesRemembered
  BY DEF DeniesHold, Overriding!DeniesRemembered
<1>. QED  BY <1>1, <1>2, <1>3, PTL DEF PartsSpec, DeniesAreKept, Overriding!DeniesStand

-----------------------------------------------------------------------------
(* /setup overrides: children stay synced (Overrides) *)

\* TaruBot cannot see a channel with these overwrites, and nobody denied it.
Unseen(ows) ==
  /\ "view" \notin Overriding!Perms(Shape, ows)
  /\ \A p \in {Self, Shape.botRole} : "view" \notin Overriding!EntryOf(ows, p).deny
\* The shape only a category write of /setup overrides has.
Carries(ows) ==
  /\ Self \in DOMAIN ows /\ "view" \in Overriding!EntryOf(ows, Self).allow
  /\ Overriding!VoiceMask \subseteq Overriding!EntryOf(ows, Self).deny
\* The category was written and this child was not.
Behind(c) ==
  LET k == disc[c].parent
  IN  /\ Self \notin DOMAIN disc[c].overwrites /\ Unseen(disc[c].overwrites) /\ Carries(disc[k].overwrites)
      /\ Overriding!SameOverwrites(disc[c].overwrites, Overriding!Without(disc[k].overwrites, Self))
Ours == untouched \cap DOMAIN disc
Pairs == {c \in Ours : disc[c].parent \in untouched}
Alike(c) ==
  run.snap[c].category = disc[c].category /\ run.snap[c].parent = disc[c].parent
  /\ run.snap[c].overwrites = disc[c].overwrites

\* What the loop knows of the categories it has read: those it did not write are as they
\* were, and those it wrote or resumes lend exactly the entry they carry.
LendsHold ==
  \A k \in Ours :
    /\ k \in DOMAIN run.snap /\ ~Overriding!Unreadable(run.snap[k])
    /\ run.snap[k].category = disc[k].category /\ run.snap[k].parent = disc[k].parent
    /\ disc[k].category =>
         /\ k \notin run.own => run.snap[k].overwrites = disc[k].overwrites
         /\ k \in run.own => k \in DOMAIN run.lends
         /\ k \in DOMAIN run.lends =>
              /\ Carries(disc[k].overwrites) /\ run.lends[k].parent = k
              /\ run.lends[k].after = Overriding!EntryOf(disc[k].overwrites, Self)
              /\ Overriding!SameOverwrites(run.lends[k].before, Overriding!Without(disc[k].overwrites, Self))
\* Every child whose category is still to be written, or was written without it, has its turn.
TurnsHold ==
  /\ DOMAIN run.plan = Overriding!Wanted(Overriding!Seen, Overriding!InRun) /\ run.todo \cup run.own \subseteq DOMAIN run.plan
  /\ \A c \in Pairs : /\ disc[c].parent \in run.todo => c \in run.todo
                      /\ Behind(c) => c \in run.todo \cup run.skipped
  /\ run.step \in {"write", "check"} =>
       run.at \in run.todo /\ (run.snap[run.at].category \/ \A d \in run.todo : ~run.snap[d].category)
\* A category is written once, a child only to follow its category.
WriteHolds ==
  /\ run.at \in Ours /\ disc[run.at].category =>
       /\ run.ows = disc[run.at].overwrites /\ Self \notin DOMAIN run.ows /\ Unseen(run.ows)
       /\ "view" \in run.after.allow /\ Overriding!VoiceMask \subseteq run.after.deny
  /\ run.at \in Pairs =>
       Behind(run.at) /\ run.after = Overriding!EntryOf(disc[disc[run.at].parent].overwrites, Self)
Looping == {"loop", "write", "check"}
SyncHolds ==
  /\ None \notin untouched \cup DOMAIN delivered /\ (run.step \in Active => None \notin DOMAIN run.snap)
  /\ \A c \in untouched : c \notin configured /\ (run.step \in Active => c \notin run.set)
  /\ \A k \in Ours : disc[k].category /\ Self \in DOMAIN disc[k].overwrites => Carries(disc[k].overwrites)
  /\ \A c \in Pairs : Overriding!Synced(c) \/ Behind(c)
  /\ run.step = "reading" =>
       /\ run.own = {} /\ DOMAIN run.lends = {}
       /\ \A c \in Ours : c \in DOMAIN run.snap /\ (Overriding!Unreadable(run.snap[c]) \/ Alike(c))
  /\ run.step \in Looping => LendsHold /\ TurnsHold
  /\ run.step = "write" => WriteHolds
  /\ run.step = "check" /\ run.at \in Pairs => Overriding!Synced(run.at)
  /\ run.step \in {"recording", "done"} /\ run.result \in {"applied", "nothing"} =>
       \A c \in Pairs : Behind(c) => c \in run.skipped

\* What TaruBot sees depends on the server's roles and the overwrites alone.
LEMMA SightIs ==
  ASSUME NEW channels, NEW ows
  PROVE  /\ Overriding!Perms(Overriding!View(channels), ows) = Overriding!Perms(Shape, ows)
         /\ Overriding!View(channels).botRole = Shape.botRole /\ Overriding!View(channels).channels = channels
BY DEF Overriding!Perms, Overriding!ChannelBits, Overriding!GuildBits, Overriding!AsIfRoles,
       Overriding!RolesEntry, Overriding!View

\* An unconfigured channel that was read is missing, visible or hidden.
LEMMA PlainState ==
  ASSUME NEW channels, NEW s, NEW c, NEW ch, ~Overriding!Unreadable(ch), c \notin s.configured, s.posting \subseteq s.configured
  PROVE  /\ Overriding!OwnState(Overriding!View(channels), s, c, ch) =
              IF "view" \in Overriding!Perms(Shape, ch.overwrites) THEN "visible"
              ELSE IF Unseen(ch.overwrites) THEN "missing" ELSE "hidden"
         /\ Overriding!Need(s, c) = {"view"}
<1> DEFINE g == Overriding!View(channels)
<1>1. Overriding!Need(s, c) = {"view"}
  BY DEF Overriding!Need
<1>2. Overriding!Perms(g, ch.overwrites) = Overriding!Perms(Shape, ch.overwrites) /\ g.botRole = Shape.botRole
  BY SightIs
<1> HIDE DEF g
<1>3. "view" \notin Overriding!Perms(Shape, ch.overwrites) =>
        (Overriding!Deliberate(g, s, c, ch) <=> ~Unseen(ch.overwrites))
  BY <1>2 DEF Overriding!Deliberate, Unseen
<1>4. Overriding!OwnState(g, s, c, ch) =
        IF "view" \in Overriding!Perms(Shape, ch.overwrites) THEN "visible"
        ELSE IF Unseen(ch.overwrites) THEN "missing" ELSE "hidden"
  BY <1>1, <1>2, <1>3 DEF Overriding!OwnState, Unseen
<1>. QED  BY <1>1, <1>4 DEF g

\* Overwrites that show alike grant alike.
LEMMA AlikeSight ==
  ASSUME NEW a, NEW b, Overriding!SameOverwrites(a, b)
  PROVE  /\ \A p : Overriding!EntryOf(a, p) = Overriding!EntryOf(b, p)
         /\ Overriding!Perms(Shape, a) = Overriding!Perms(Shape, b) /\ Unseen(a) = Unseen(b)
         /\ Self \in DOMAIN a <=> Self \in DOMAIN b
<1>1. /\ DOMAIN Overriding!Shown(a) = {p \in DOMAIN a : ~(p = Everyone /\ a[p] = Overriding!Neutral)}
      /\ \A p \in DOMAIN Overriding!Shown(a) : Overriding!Shown(a)[p] = a[p]
      /\ DOMAIN Overriding!Shown(b) = {p \in DOMAIN b : ~(p = Everyone /\ b[p] = Overriding!Neutral)}
      /\ \A p \in DOMAIN Overriding!Shown(b) : Overriding!Shown(b)[p] = b[p]
      /\ Overriding!Shown(a) = Overriding!Shown(b)
  BY DEF Overriding!Shown, Overriding!SameOverwrites
<1>2. \A p : Overriding!EntryOf(a, p) = Overriding!EntryOf(b, p)
  <2>. TAKE p
  <2>1. CASE p \in DOMAIN Overriding!Shown(a)
    BY <1>1, <2>1 DEF Overriding!EntryOf
  <2>2. CASE p \notin DOMAIN Overriding!Shown(a)
    <3>1. p \in DOMAIN a => a[p] = Overriding!Neutral
      BY <1>1, <2>2
    <3>2. p \in DOMAIN b => b[p] = Overriding!Neutral
      BY <1>1, <2>2
    <3>. QED  BY <3>1, <3>2 DEF Overriding!EntryOf
  <2>. QED  BY <2>1, <2>2
<1>3. Self \in DOMAIN a <=> Self \in DOMAIN b
  BY <1>1, OverridesAssumption DEF Overriding!Apart
<1>4. Overriding!RolesEntry(Shape, a) = Overriding!RolesEntry(Shape, b)
  <2>1. {Overriding!EntryOf(a, r).allow : r \in Overriding!AsIfRoles(Shape) \ {Everyone}}
          = {Overriding!EntryOf(b, r).allow : r \in Overriding!AsIfRoles(Shape) \ {Everyone}}
    BY <1>2
  <2>2. {Overriding!EntryOf(a, r).deny : r \in Overriding!AsIfRoles(Shape) \ {Everyone}}
          = {Overriding!EntryOf(b, r).deny : r \in Overriding!AsIfRoles(Shape) \ {Everyone}}
    BY <1>2
  <2>. QED  BY <2>1, <2>2 DEF Overriding!RolesEntry
<1>5. Overriding!Perms(Shape, a) = Overriding!Perms(Shape, b)
  BY <1>2, <1>4 DEF Overriding!Perms, Overriding!ChannelBits
<1>. QED  BY <1>2, <1>3, <1>5 DEF Unseen

\* TaruBot sees a channel whose own entry allows it.
LEMMA CarriesSees ==
  ASSUME NEW ows, "view" \in Overriding!EntryOf(ows, Self).allow
  PROVE  "view" \in Overriding!Perms(Shape, ows)
BY DEF Overriding!Perms, Overriding!ChannelBits, Overriding!Over

\* Taking TaruBot's entry off again leaves what was there.
LEMMA WithoutWith ==
  ASSUME NEW ows, Self \notin DOMAIN ows, NEW entry
  PROVE  Overriding!SameOverwrites(ows, Overriding!Without(Overriding!With(ows, entry), Self))
<1> DEFINE w == Overriding!Without(Overriding!With(ows, entry), Self)
<1>1. DOMAIN w = DOMAIN ows /\ \A p \in DOMAIN ows : w[p] = ows[p]
  BY DEF Overriding!Without, Overriding!With
<1> HIDE DEF w
<1>2. {p \in DOMAIN ows : ~(p = Everyone /\ ows[p] = Overriding!Neutral)}
        = {p \in DOMAIN w : ~(p = Everyone /\ w[p] = Overriding!Neutral)}
  BY <1>1
<1>3. Overriding!Shown(ows) = Overriding!Shown(w)
  BY <1>1, <1>2 DEF Overriding!Shown
<1>. QED  BY <1>3 DEF Overriding!SameOverwrites, w

\* The run judges by the settings it started with, and no posting channel is unnamed.
LEMMA InRunIs ==
  /\ Overriding!InRun.configured = run.set /\ Overriding!InRun.posting \subseteq run.set
  /\ Overriding!InRun.onboarding = FALSE /\ Overriding!Seen = Overriding!View(run.snap)
  /\ Overriding!Seen.channels = run.snap
BY DEF Overriding!InRun, Overriding!SettingsOf, Overriding!Seen, Overriding!View

\* What the pairs are: a child that is no category, and its category.
LEMMA PairIs ==
  ASSUME ServerHolds, SyncHolds, NEW c \in Pairs
  PROVE  /\ c \in Ours /\ disc[c].parent \in Ours /\ disc[c].parent # None /\ ~disc[c].category
         /\ disc[disc[c].parent].category /\ disc[disc[c].parent].parent = None /\ c # disc[c].parent
<1>1. c \in Ours /\ disc[c].parent # None
  BY DEF Pairs, SyncHolds
<1>2. /\ ~disc[c].category /\ disc[c].parent \in DOMAIN disc /\ disc[disc[c].parent].category
  BY <1>1 DEF Ours, ServerHolds, Overriding!Tree
<1>3. disc[disc[c].parent].parent = None
  BY <1>2 DEF ServerHolds, Overriding!Tree
<1>. QED  BY <1>1, <1>2, <1>3 DEF Pairs, Ours

\* A channel the run read with the place it has.
ReadAs(c) ==
  /\ c \in DOMAIN run.snap /\ ~Overriding!Unreadable(run.snap[c])
  /\ run.snap[c].category = disc[c].category /\ run.snap[c].parent = disc[c].parent

LEMMA CategoryState ==
  ASSUME ServerHolds, SyncHolds, run.step \in Active, NEW k \in Ours, disc[k].category, ReadAs(k)
  PROVE  /\ Overriding!OwnState(Overriding!Seen, Overriding!InRun, k, run.snap[k]) =
              Overriding!StateIn(Overriding!Seen, Overriding!InRun, k)
         /\ Overriding!StateIn(Overriding!Seen, Overriding!InRun, k) =
              IF "view" \in Overriding!Perms(Shape, run.snap[k].overwrites) THEN "visible"
              ELSE IF Unseen(run.snap[k].overwrites) THEN "missing" ELSE "hidden"
         /\ k \in Overriding!Wanted(Overriding!Seen, Overriding!InRun) <=>
              Unseen(run.snap[k].overwrites) /\ k \notin Overriding!Private(Overriding!Seen, Overriding!InRun)
<1> DEFINE g == Overriding!Seen
           s == Overriding!InRun
           ch == run.snap[k]
<1>1. k \notin s.configured /\ s.posting \subseteq s.configured /\ g.channels[k] = ch /\ DOMAIN g.channels = DOMAIN run.snap
  BY InRunIs DEF SyncHolds, Ours
<1>2. Overriding!OwnState(g, s, k, ch) =
        IF "view" \in Overriding!Perms(Shape, ch.overwrites) THEN "visible"
        ELSE IF Unseen(ch.overwrites) THEN "missing" ELSE "hidden"
  BY <1>1, PlainState, InRunIs DEF ReadAs
<1>3. ~Overriding!ViaCategory(g, s, k, ch) /\ ch.parent = None
  BY DEF ReadAs, Overriding!ViaCategory, ServerHolds, Overriding!Tree, Ours
<1>4. Overriding!State(g, s, k, ch) = Overriding!OwnState(g, s, k, ch)
  BY <1>3 DEF Overriding!State
<1>5. Overriding!StateIn(g, s, k) = Overriding!OwnState(g, s, k, ch)
  BY <1>1, <1>4 DEF Overriding!StateIn
<1>6. None \notin Overriding!Private(g, s)
  BY <1>1 DEF SyncHolds, Overriding!Private
<1>7. Unseen(ch.overwrites) => "view" \notin Overriding!Perms(Shape, ch.overwrites)
  BY DEF Unseen
<1>8. k \in Overriding!Wanted(g, s) <=> ~Overriding!Untouchable(g, s, k, ch)
  BY <1>1 DEF Overriding!Wanted, ReadAs
<1> HIDE DEF g, s, ch
<1>9. ~Overriding!Unreadable(ch)
  BY DEF ReadAs, ch
<1>10. Overriding!Untouchable(g, s, k, ch) <=> ~Unseen(ch.overwrites) \/ k \in Overriding!Private(g, s)
  BY <1>2, <1>3, <1>4, <1>6, <1>7, <1>9 DEF Overriding!Untouchable
<1>. QED  BY <1>2, <1>5, <1>8, <1>10 DEF g, s, ch

LEMMA ChildWanted ==
  ASSUME ServerHolds, SyncHolds, run.step \in Active, NEW c \in Pairs, ReadAs(c), ReadAs(disc[c].parent),
         Unseen(run.snap[c].overwrites),
         Overriding!StateIn(Overriding!Seen, Overriding!InRun, disc[c].parent) # "hidden",
         disc[c].parent \notin Overriding!Private(Overriding!Seen, Overriding!InRun)
  PROVE  c \in Overriding!Wanted(Overriding!Seen, Overriding!InRun)
<1> DEFINE g == Overriding!Seen
           s == Overriding!InRun
           ch == run.snap[c]
           k == disc[c].parent
<1>1. /\ c \in Ours /\ k \in Ours /\ disc[k].category /\ ~disc[c].category
      /\ c \notin s.configured /\ s.posting \subseteq s.configured /\ g.channels = run.snap
  BY PairIs, InRunIs DEF SyncHolds, Ours
<1>2. Overriding!OwnState(g, s, c, ch) = "missing"
  BY <1>1, PlainState, InRunIs DEF ReadAs, Unseen
<1>3. Overriding!OwnState(g, s, k, run.snap[k]) # "hidden"
  BY <1>1, CategoryState
<1>4. ch.parent = k /\ ~ch.category
  BY <1>1 DEF ReadAs
<1>5. Overriding!State(g, s, c, ch) = "missing"
  BY <1>1, <1>2, <1>3, <1>4 DEF Overriding!State, Overriding!ViaCategory
<1>6. c \notin Overriding!Private(g, s)
  BY <1>1, <1>4 DEF Overriding!Private, Overriding!Category
<1>7. ~Overriding!Untouchable(g, s, c, ch)
  BY <1>4, <1>5, <1>6 DEF ReadAs, Overriding!Untouchable
<1>. QED  BY <1>1, <1>7 DEF ReadAs, Overriding!Wanted

\* A plan takes every child that is behind, and every child whose category it takes.
LEMMA PlanTakes ==
  ASSUME ServerHolds, SyncHolds, run.step = "reading", NEW c \in Pairs,
         c \in Overriding!Examined, disc[c].parent \in Overriding!Examined
  PROVE  Behind(c) \/ disc[c].parent \in Overriding!Wanted(Overriding!Seen, Overriding!InRun)
           => c \in Overriding!Wanted(Overriding!Seen, Overriding!InRun)
<1> DEFINE k == disc[c].parent
<1>1. c \in Ours /\ k \in Ours /\ disc[k].category /\ run.step \in Active
  BY PairIs DEF Active
<1>2. ReadAs(c) /\ ReadAs(k) /\ run.snap[c].overwrites = disc[c].overwrites /\ run.snap[k].overwrites = disc[k].overwrites
  BY <1>1 DEF SyncHolds, Overriding!Examined, Alike, ReadAs
<1>3. CASE Behind(c)
  <2>1. Unseen(run.snap[c].overwrites) /\ "view" \in Overriding!Perms(Shape, run.snap[k].overwrites)
    BY <1>2, <1>3, CarriesSees DEF Behind, Carries
  <2>2. Overriding!StateIn(Overriding!Seen, Overriding!InRun, k) = "visible"
    BY <1>1, <1>2, <2>1, CategoryState
  <2>3. k \notin Overriding!Private(Overriding!Seen, Overriding!InRun)
    BY <2>2 DEF Overriding!Private
  <2>. QED  BY <1>1, <1>2, <2>1, <2>2, <2>3, ChildWanted
<1>4. CASE ~Behind(c) /\ k \in Overriding!Wanted(Overriding!Seen, Overriding!InRun)
  <2>1. Unseen(run.snap[k].overwrites) /\ k \notin Overriding!Private(Overriding!Seen, Overriding!InRun)
    BY <1>1, <1>2, <1>4, CategoryState
  <2>2. Overriding!StateIn(Overriding!Seen, Overriding!InRun, k) = "missing"
    BY <1>1, <1>2, <2>1, CategoryState DEF Unseen
  <2>3. Overriding!SameOverwrites(disc[c].overwrites, disc[k].overwrites)
    BY <1>4 DEF SyncHolds, Overriding!Synced
  <2>4. Unseen(run.snap[c].overwrites)
    BY <1>2, <2>1, <2>3, AlikeSight
  <2>. QED  BY <1>1, <1>2, <2>1, <2>2, <2>4, ChildWanted
<1>. QED  BY <1>3, <1>4

LEMMA SyncFrame ==
  ASSUME UNCHANGED disc, untouched' \subseteq untouched
  PROVE  /\ Ours' \subseteq Ours /\ Pairs' \subseteq Pairs
         /\ \A c : Behind(c)' = Behind(c) /\ Overriding!Synced(c)' = Overriding!Synced(c)
BY DEF Ours, Pairs, Behind, Overriding!Synced

\* What depends on the channels and on nobody's edits but TaruBot's.
PairsHold ==
  /\ \A k \in Ours : disc[k].category /\ Self \in DOMAIN disc[k].overwrites => Carries(disc[k].overwrites)
  /\ \A c \in Pairs : Overriding!Synced(c) \/ Behind(c)
LEMMA PairsFrame ==
  ASSUME SyncHolds, UNCHANGED disc, untouched' \subseteq untouched
  PROVE  PairsHold'
BY SyncFrame DEF SyncHolds, PairsHold

LEMMA SyncOpens ==
  ASSUME ServerHolds, SyncHolds, Overriding!Start \/ \E c : Overriding!Reads(c)
  PROVE  SyncHolds'
<1>1. CASE Overriding!Start
  <2>1. UNCHANGED <<disc, untouched, configured, delivered>> /\ run'.step = "reading"
    BY <1>1, StartIs
  <2>2. \A c \in Ours' : c \in DOMAIN run'.snap /\ (Overriding!Unreadable(run'.snap[c]) \/ Alike(c)')
    BY <1>1, <2>1, StartIs DEF ServerHolds, Ours, Alike
  <2>. QED
    BY <1>1, <2>1, <2>2, StartIs, PairsFrame DEF SyncHolds, PairsHold, Active, Looping
<1>2. ASSUME NEW c, Overriding!Reads(c) PROVE SyncHolds'
  <2>1. /\ UNCHANGED <<disc, untouched, configured, delivered>> /\ run'.step = "reading" /\ run.step = "reading"
        /\ run'.set = run.set /\ run'.own = run.own /\ run'.lends = run.lends
    BY <1>2, ReadsIs DEF ServerHolds, RunFields
  <2>2. /\ None \notin DOMAIN run'.snap
        /\ \A d \in Ours : d \in DOMAIN run.snap =>
             /\ d \in DOMAIN run'.snap
             /\ run'.snap[d] = run.snap[d] \/ (d = c /\ run'.snap[d] = Overriding!Fresh(d))
    <3>0. None \notin DOMAIN run.snap /\ (c \in DOMAIN disc => c # None)
      BY <2>1 DEF SyncHolds, ServerHolds, Active
    <3>1. CASE run'.snap = Overriding!Drop(run.snap, c) /\ c \notin DOMAIN disc
      BY <3>0, <3>1 DEF Overriding!Drop, Ours
    <3>2. CASE run'.snap = Overriding!Set(run.snap, c, Overriding!Fresh(c)) /\ c \in DOMAIN disc
      BY <3>0, <3>2 DEF Overriding!Set
    <3>3. CASE run'.snap = run.snap
      BY <3>0, <3>3
    <3>. QED  BY <1>2, <3>1, <3>2, <3>3, ReadsIs
  <2>3. \A d \in Ours' : d \in DOMAIN run'.snap /\ (Overriding!Unreadable(run'.snap[d]) \/ Alike(d)')
    <3>. TAKE d \in Ours'
    <3>1. d \in Ours /\ d \in DOMAIN disc /\ d \in DOMAIN run.snap /\ (Overriding!Unreadable(run.snap[d]) \/ Alike(d))
      BY <2>1 DEF Ours, SyncHolds
    <3>2. d \in DOMAIN run'.snap
      BY <2>2, <3>1
    <3>3. CASE run'.snap[d] = run.snap[d]
      BY <2>1, <3>1, <3>2, <3>3 DEF Alike
    <3>4. CASE run'.snap[d] = Overriding!Fresh(d)
      BY <2>1, <3>1, <3>2, <3>4, FreshIs DEF Alike
    <3>. QED  BY <2>2, <3>1, <3>3, <3>4
  <2>. QED
    BY <2>1, <2>2, <2>3, PairsFrame DEF SyncHolds, PairsHold, Active, Looping
<1>. QED  BY <1>1, <1>2

LEMMA SyncPlans ==
  ASSUME ServerHolds, SyncHolds, Overriding!Plans
  PROVE  SyncHolds'
<1>1. /\ UNCHANGED <<disc, configured, delivered>> /\ untouched' \subseteq untouched /\ run.step = "reading"
      /\ run'.snap = run.snap /\ run'.set = run.set /\ run'.own = {} /\ DOMAIN run'.lends = {}
      /\ run'.before = run.before /\ run'.skipped = run.skipped
      /\ run'.step \in {"loop", "recording"} /\ (run'.step = "loop" <=> run'.result = "applied")
  <2>1. run'.step \in {"loop", "recording"} /\ (run'.step = "loop" <=> run'.result = "applied")
    BY PlansIs
  <2>2. /\ run'.snap = run.snap /\ run'.set = run.set /\ run'.own = run.own /\ run'.lends = run.lends
        /\ run'.before = run.before /\ run'.skipped = run.skipped
    BY PlansIs DEF ServerHolds, RunFields
  <2>. QED  BY <2>1, <2>2, PlansIs DEF SyncHolds
<1>2. Overriding!Seen' = Overriding!Seen /\ Overriding!InRun' = Overriding!InRun
  BY <1>1 DEF Overriding!Seen, Overriding!InRun
<1>3. ASSUME run'.result \in {"applied", "nothing"}
      PROVE  /\ Ours' \subseteq Ours \cap Overriding!Examined /\ run'.todo = Overriding!Wanted(Overriding!Seen, Overriding!InRun)
             /\ \A c \in Pairs' : Behind(c) \/ disc[c].parent \in run'.todo => c \in run'.todo
  <2>1. untouched' = untouched \cap Overriding!Examined /\ run'.todo = Overriding!Wanted(Overriding!Seen, Overriding!InRun)
    BY <1>3, PlansIs
  <2>2. Ours' \subseteq Ours \cap Overriding!Examined
    BY <1>1, <2>1 DEF Ours
  <2>3. \A c \in Pairs' : c \in Pairs /\ c \in Overriding!Examined /\ disc[c].parent \in Overriding!Examined
    BY <1>1, <2>1, <2>2 DEF Pairs
  <2>. QED  BY <1>1, <2>1, <2>2, <2>3, PlanTakes
<1>4. run'.step = "loop" => LendsHold' /\ TurnsHold'
  <2>. SUFFICES ASSUME run'.step = "loop" PROVE LendsHold' /\ TurnsHold'
    OBVIOUS
  <2>1. \A k \in Ours' : k \in Ours /\ k \in Overriding!Examined
    BY <1>1, <1>3
  <2>2. \A k \in Ours' : k \in DOMAIN run.snap /\ ~Overriding!Unreadable(run.snap[k]) /\ Alike(k)
    BY <1>1, <2>1 DEF Overriding!Examined, SyncHolds
  <2>3. LendsHold'
    BY <1>1, <2>2 DEF LendsHold, Alike
  <2>4. DOMAIN run'.plan = run'.todo
    BY PlansIs DEF Overriding!Planned
  <2>5. TurnsHold'
    BY <1>1, <1>2, <1>3, <2>4, SyncFrame DEF TurnsHold
  <2>. QED  BY <2>3, <2>5
<1>5. run'.step = "recording" /\ run'.result \in {"applied", "nothing"} =>
        \A c \in Pairs' : Behind(c)' => c \in run'.skipped
  <2>. SUFFICES ASSUME run'.step = "recording", run'.result \in {"applied", "nothing"}, NEW c \in Pairs', Behind(c)'
       PROVE  FALSE
    OBVIOUS
  <2>1. run'.todo = {}
    BY <1>1, PlansIs
  <2>2. Behind(c)
    BY <1>1, SyncFrame
  <2>. QED  BY <1>3, <2>1, <2>2
<1>. QED
  BY <1>1, <1>4, <1>5, PairsFrame DEF SyncHolds, PairsHold, Active, Looping

LEMMA SyncedIsNotBehind ==
  ASSUME ServerHolds, SyncHolds, NEW c \in Pairs, Overriding!Synced(c)
  PROVE  ~Behind(c)
<1>1. Overriding!SameOverwrites(disc[c].overwrites, disc[disc[c].parent].overwrites)
  BY DEF Overriding!Synced
<1>. QED  BY <1>1, AlikeSight DEF Behind, Carries

LEMMA SyncGivesUp ==
  ASSUME ServerHolds, SyncHolds, RunKept, GivesUpNow, run.step \in Active
  PROVE  SyncHolds'
<1>1. UNCHANGED <<disc, untouched, configured, delivered>> /\ run'.set = run.set /\ run'.snap = run.snap
      /\ run'.step = "recording" /\ run'.result \notin {"applied", "nothing"}
  BY DEF RunKept, GivesUpNow
<1>. QED  BY <1>1, PairsFrame DEF SyncHolds, PairsHold, Active, Looping

\* A channel's turn ends: it is skipped, or it is not behind.
LEMMA SyncPassed ==
  ASSUME ServerHolds, SyncHolds, RunKept, run.step \in Looping, NEW c \in run.todo,
         run.snap[c].category \/ (\A d \in run.todo : ~run.snap[d].category),
         NEW skipped, Passed(c, skipped), run.skipped \subseteq skipped,
         c \in Pairs => c \in skipped \/ ~Behind(c)
  PROVE  SyncHolds'
<1>1. /\ UNCHANGED <<disc, untouched, configured, delivered>> /\ run'.set = run.set /\ run'.snap = run.snap
      /\ run'.before = run.before /\ run'.own = run.own /\ run'.plan = run.plan /\ run'.lends = run.lends
      /\ run'.todo = run.todo \ {c} /\ run'.skipped = skipped
      /\ run'.step \in {"loop", "recording"} /\ (run'.step = "recording" => run'.todo = {})
      /\ run'.result = run.result
  BY DEF RunKept, Passed
<1>2. Overriding!Seen' = Overriding!Seen /\ Overriding!InRun' = Overriding!InRun
  BY <1>1 DEF Overriding!Seen, Overriding!InRun
<1>3. LendsHold /\ TurnsHold
  BY DEF SyncHolds
<1>4. LendsHold'
  BY <1>1, <1>3 DEF LendsHold, Ours
<1>5. \A d \in Pairs : disc[d].parent \in run'.todo => d \in run'.todo
  <2>. SUFFICES ASSUME NEW d \in Pairs, disc[d].parent \in run'.todo PROVE d \in run'.todo
    OBVIOUS
  <2>1. d \in run.todo /\ disc[d].parent \in run.todo
    BY <1>1, <1>3 DEF TurnsHold
  <2>2. run.snap[disc[d].parent].category /\ ~run.snap[d].category
    BY <1>3, PairIs DEF LendsHold
  <2>. QED  BY <1>1, <2>1, <2>2
<1>6. \A d \in Pairs : Behind(d) => d \in run'.todo \cup run'.skipped
  BY <1>1, <1>3 DEF TurnsHold
<1>7. TurnsHold'
  BY <1>1, <1>2, <1>3, <1>5, <1>6, SyncFrame DEF TurnsHold
<1>8. run'.step = "recording" => \A d \in Pairs' : Behind(d)' => d \in run'.skipped
  BY <1>1, <1>6, SyncFrame
<1>. QED  BY <1>1, <1>4, <1>7, <1>8, PairsFrame DEF SyncHolds, PairsHold, Active, Looping

\* A child that is behind is still missing, and its category is not hidden from the plan.
LEMMA BehindIsMissing ==
  ASSUME ServerHolds, SyncHolds, run.step \in Looping, NEW c \in Pairs, Behind(c), ~Overriding!LeftAlone(c)
  PROVE  ~Overriding!Untouchable(Overriding!Seen, Overriding!InRun, c, Overriding!Fresh(c))
<1> DEFINE g == Overriding!Seen
           s == Overriding!InRun
           ch == Overriding!Fresh(c)
           k == disc[c].parent
<1>1. /\ c \in Ours /\ k \in Ours /\ disc[k].category /\ ~disc[c].category /\ run.step \in Active
      /\ c \notin s.configured /\ s.posting \subseteq s.configured /\ g.channels = run.snap
  BY PairIs, InRunIs DEF SyncHolds, Ours, Looping, Active
<1>2. /\ ~Overriding!Unreadable(ch) /\ ch.overwrites = disc[c].overwrites /\ ch.parent = k /\ ~ch.category
  BY <1>1, FreshIs DEF Ours
<1>3. Overriding!OwnState(g, s, c, ch) = "missing"
  BY <1>1, <1>2, PlainState, InRunIs DEF Behind, Unseen
<1>4. Overriding!OwnState(g, s, k, run.snap[k]) # "hidden"
  <2>1. ReadAs(k) /\ (k \notin run.own => run.snap[k].overwrites = disc[k].overwrites)
    BY <1>1 DEF SyncHolds, LendsHold, ReadAs
  <2>2. CASE k \in run.own
    <3>1. Unseen(run.snap[k].overwrites)
      BY <1>1, <2>1, <2>2, CategoryState DEF SyncHolds, TurnsHold
    <3>. QED  BY <1>1, <2>1, <3>1, CategoryState DEF Unseen
  <2>3. CASE k \notin run.own
    <3>1. "view" \in Overriding!Perms(Shape, run.snap[k].overwrites)
      BY <2>1, <2>3, CarriesSees DEF Behind, Carries
    <3>. QED  BY <1>1, <2>1, <3>1, CategoryState
  <2>. QED  BY <2>2, <2>3
<1>5. Overriding!State(g, s, c, ch) = "missing"
  BY <1>1, <1>2, <1>3, <1>4 DEF Overriding!State, Overriding!ViaCategory
<1>6. {c, ch.parent} \cap Overriding!Private(g, s) = {}
  BY <1>2 DEF Overriding!LeftAlone
<1>. QED  BY <1>2, <1>5, <1>6 DEF Overriding!Untouchable

LEMMA SyncLoops ==
  ASSUME ServerHolds, SyncHolds, (\E c : Overriding!LoopStops(c)) \/ Overriding!ReadFails \/ Overriding!PutRefused \/ Overriding!Checks
  PROVE  SyncHolds'
<1>1. CASE (\E c : Overriding!LoopStops(c)) \/ Overriding!ReadFails
  BY <1>1, LoopStopsIs, SyncGivesUp DEF Active
<1>2. ASSUME Overriding!PutRefused \/ Overriding!Checks PROVE SyncHolds'
  <2>1. /\ RunKept /\ run.step \in {"write", "check"}
        /\ \/ GivesUpNow
           \/ Passed(run.at, run.skipped \cup {run.at})
           \/ run.step = "check" /\ Passed(run.at, run.skipped)
    BY <1>2, RefusedIs, ChecksIs
  <2>2. TurnsHold /\ run.step \in Looping /\ run.step \in Active
    BY <2>1 DEF SyncHolds, Looping, Active
  <2>3. CASE GivesUpNow
    BY <2>1, <2>2, <2>3, SyncGivesUp
  <2>4. CASE Passed(run.at, run.skipped \cup {run.at})
    BY <2>1, <2>2, <2>4, SyncPassed DEF TurnsHold
  <2>5. CASE run.step = "check" /\ Passed(run.at, run.skipped)
    <3>1. run.at \in Pairs => ~Behind(run.at)
      BY <2>5, SyncedIsNotBehind DEF SyncHolds
    <3>. QED  BY <2>1, <2>2, <2>5, <3>1, SyncPassed DEF TurnsHold
  <2>. QED  BY <2>1, <2>3, <2>4, <2>5
<1>. QED  BY <1>1, <1>2

\* A lent entry is the one the category carries.
LentRight(k, lent) ==
  /\ Carries(disc[k].overwrites) /\ lent.parent = k /\ lent.after = Overriding!EntryOf(disc[k].overwrites, Self)
  /\ Overriding!SameOverwrites(lent.before, Overriding!Without(disc[k].overwrites, Self))
LEMMA ResumesRight ==
  ASSUME ServerHolds, NEW k \in DOMAIN disc, NEW g, NEW s,
         Overriding!Resume(g, s, k, Overriding!Fresh(k)) # Overriding!NoInherit
  PROVE  LentRight(k, Overriding!Resume(g, s, k, Overriding!Fresh(k)))
<1> DEFINE e == Overriding!EntryOf(Overriding!Fresh(k).overwrites, Self)
           lent == [parent |-> k, before |-> Overriding!Without(Overriding!Fresh(k).overwrites, Self), after |-> e]
<1>1. /\ Self \in DOMAIN Overriding!Fresh(k).overwrites /\ "view" \in e.allow /\ Overriding!VoiceMask \subseteq e.deny
      /\ Overriding!Resume(g, s, k, Overriding!Fresh(k)) = lent
  BY DEF Overriding!Resume
<1>2. Overriding!Fresh(k).overwrites = disc[k].overwrites
  BY FreshIs
<1>. QED  BY <1>1, <1>2 DEF LentRight, Carries, Overriding!SameOverwrites

\* What a category that Examine() asks lends.
LEMMA AskedLends ==
  ASSUME ServerHolds, SyncHolds, run.step \in Looping, NEW k \in Ours, disc[k].category,
         Overriding!Lends(k) # Overriding!NoInherit \/ k \in DOMAIN run.lends
  PROVE  LentRight(k, Overriding!Lends(k))
<1>1. CASE k \in DOMAIN run.lends
  BY <1>1 DEF SyncHolds, LendsHold, LentRight, Overriding!Lends
<1>2. CASE k \notin DOMAIN run.lends
  <2>1. Overriding!Lends(k) = Overriding!Resume(Overriding!View(Overriding!Set(run.snap, k, Overriding!Fresh(k))),
                                                Overriding!InRun, k, Overriding!Fresh(k))
    BY <1>2 DEF Overriding!Lends
  <2>. QED  BY <1>2, <2>1, ResumesRight DEF Ours
<1>. QED  BY <1>1, <1>2

\* The category of a child that is behind has the entry to lend.
LEMMA BehindIsLent ==
  ASSUME ServerHolds, SyncHolds, run.step \in Looping, NEW c \in Pairs, Behind(c), ~Overriding!LeftAlone(c)
  PROVE  LentRight(disc[c].parent, Overriding!Lends(disc[c].parent))
<1> DEFINE k == disc[c].parent
<1>1. /\ c \in Ours /\ k \in Ours /\ disc[k].category /\ disc[k].parent = None /\ k # None /\ run.step \in Active
  BY PairIs DEF Looping, Active
<1>2. CASE k \in DOMAIN run.lends
  BY <1>1, <1>2, AskedLends
<1>3. CASE k \notin DOMAIN run.lends
  <2>1. /\ ReadAs(k) /\ run.snap[k].overwrites = disc[k].overwrites /\ k \notin run.own
    BY <1>1, <1>3 DEF SyncHolds, LendsHold, ReadAs
  <2>2. k \notin DOMAIN run.plan
    BY <1>1, <2>1 DEF Overriding!LeftAlone, Ours
  <2> DEFINE e == Overriding!EntryOf(disc[k].overwrites, Self)
  <2>3. "view" \in Overriding!Perms(Shape, disc[k].overwrites) /\ Self \in DOMAIN disc[k].overwrites
        /\ "view" \in e.allow /\ Overriding!VoiceMask \subseteq e.deny
    BY CarriesSees DEF Behind, Carries
  <2>4. Overriding!State(Overriding!Seen, Overriding!InRun, k, run.snap[k]) = "visible"
    BY <1>1, <2>1, <2>3, CategoryState, InRunIs DEF Overriding!StateIn
  <2>5. Overriding!Resume(Overriding!Seen, Overriding!InRun, k, run.snap[k]).parent = k
    <3>1. run.snap[k].category /\ ~Overriding!Unreadable(run.snap[k])
      BY <1>1, <2>1 DEF ReadAs
    <3>. QED  BY <2>1, <2>3, <2>4, <3>1 DEF Overriding!Resume
  <2>6. Overriding!Resumable(k)
    BY <1>1, <2>1, <2>2, <2>5 DEF Overriding!Resumable, Overriding!NoInherit, ReadAs
  <2> DEFINE h == Overriding!View(Overriding!Set(run.snap, k, Overriding!Fresh(k)))
  <2>7. Overriding!Lends(k) = Overriding!Resume(h, Overriding!InRun, k, Overriding!Fresh(k))
    BY <1>1, <1>3, <2>6 DEF Overriding!Lends, Ours
  <2>8. Overriding!State(h, Overriding!InRun, k, Overriding!Fresh(k)) = "visible"
    <3>1. k \notin Overriding!InRun.configured /\ Overriding!InRun.posting \subseteq Overriding!InRun.configured
      BY <1>1, InRunIs DEF SyncHolds, Ours
    <3>2. ~Overriding!Unreadable(Overriding!Fresh(k)) /\ Overriding!Fresh(k).overwrites = disc[k].overwrites
      BY <1>1, FreshIs DEF Ours
    <3>3. Overriding!OwnState(h, Overriding!InRun, k, Overriding!Fresh(k)) = "visible"
      BY <2>3, <3>1, <3>2, PlainState
    <3>. QED  BY <3>3 DEF Overriding!State
  <2>9. Overriding!Resume(h, Overriding!InRun, k, Overriding!Fresh(k)).parent = k
    <3>1. Overriding!Fresh(k).category /\ ~Overriding!Unreadable(Overriding!Fresh(k))
          /\ Overriding!Fresh(k).overwrites = disc[k].overwrites
      BY <1>1, FreshIs DEF Ours
    <3>. QED  BY <2>3, <2>8, <3>1 DEF Overriding!Resume
  <2>10. Overriding!Lends(k) # Overriding!NoInherit
    BY <1>1, <2>7, <2>9 DEF Overriding!NoInherit
  <2>. QED  BY <1>1, <2>10, AskedLends
<1>. QED  BY <1>2, <1>3

\* A child whose turn comes is behind its category: no other child of a pair is missing.
LEMMA ChosenIsBehind ==
  ASSUME ServerHolds, SyncHolds, run.step \in Looping, NEW c \in Pairs, Chosen(c)
  PROVE  Behind(c)
<1> DEFINE k == disc[c].parent
<1>1. /\ c \in Ours /\ k \in Ours /\ disc[k].category /\ run.step \in Active
      /\ c \notin Overriding!InRun.configured /\ Overriding!InRun.posting \subseteq Overriding!InRun.configured
  BY PairIs, InRunIs DEF Looping, Active, SyncHolds, Ours
<1>. SUFFICES ASSUME ~Behind(c) PROVE FALSE
  OBVIOUS
<1>2. Overriding!SameOverwrites(disc[c].overwrites, disc[k].overwrites)
  BY DEF SyncHolds, Overriding!Synced
<1>3. /\ ~Overriding!Unreadable(Overriding!Fresh(c)) /\ Overriding!Fresh(c).overwrites = disc[c].overwrites
  BY <1>1, FreshIs DEF Ours
<1>4. Overriding!State(Overriding!Seen, Overriding!InRun, c, Overriding!Fresh(c)) \in {"missing", "masked"}
  BY DEF Chosen, Overriding!Untouchable
<1>5. Overriding!OwnState(Overriding!Seen, Overriding!InRun, c, Overriding!Fresh(c)) = "missing"
  BY <1>1, <1>3, <1>4, PlainState, InRunIs DEF Overriding!State
<1>6. Unseen(disc[c].overwrites)
  BY <1>1, <1>3, <1>5, PlainState, InRunIs
<1>7. Unseen(disc[k].overwrites)
  BY <1>2, <1>6, AlikeSight
<1>8. ~Carries(disc[k].overwrites)
  BY <1>7, CarriesSees DEF Unseen, Carries
<1>9. ReadAs(k) /\ k \notin run.own /\ run.snap[k].overwrites = disc[k].overwrites
  BY <1>1, <1>8 DEF SyncHolds, LendsHold, ReadAs
<1>10. k \notin Overriding!Private(Overriding!Seen, Overriding!InRun) /\ k \notin DOMAIN run.plan \ run.own
  BY <1>1 DEF Chosen, Overriding!LeftAlone, Ours
<1>11. k \in Overriding!Wanted(Overriding!Seen, Overriding!InRun)
  BY <1>1, <1>7, <1>9, <1>10, CategoryState
<1>. QED  BY <1>9, <1>10, <1>11 DEF SyncHolds, TurnsHold

\* A category is chosen bare, and its write carries the mask.
LEMMA ChosenCategory ==
  ASSUME ServerHolds, SyncHolds, run.step \in Looping, NEW k \in Ours, disc[k].category, Chosen(k)
  PROVE  /\ Self \notin DOMAIN disc[k].overwrites /\ Unseen(disc[k].overwrites)
         /\ "view" \in Overriding!Recompute(k).allow /\ Overriding!VoiceMask \subseteq Overriding!Recompute(k).deny
<1> DEFINE g == Overriding!Seen
           s == Overriding!InRun
           ch == Overriding!Fresh(k)
<1>1. /\ k \notin s.configured /\ s.posting \subseteq s.configured /\ g = Overriding!View(run.snap)
  BY InRunIs DEF SyncHolds, Ours, Looping, Active
<1>2. /\ ~Overriding!Unreadable(ch) /\ ch.overwrites = disc[k].overwrites /\ ch.category /\ ch.parent = None
  BY FreshIs DEF Ours, ServerHolds, Overriding!Tree
<1>3. Overriding!State(g, s, k, ch) \in {"missing", "masked"}
  BY DEF Chosen, Overriding!Untouchable
<1>4. Overriding!OwnState(g, s, k, ch) = "missing" /\ Overriding!State(g, s, k, ch) = "missing"
  BY <1>1, <1>2, <1>3, PlainState DEF Overriding!State
<1>5. Unseen(disc[k].overwrites) /\ Overriding!Need(s, k) = {"view"}
      /\ "view" \notin Overriding!Perms(g, ch.overwrites)
  BY <1>1, <1>2, <1>4, PlainState, SightIs DEF Unseen
<1>6. Self \notin DOMAIN disc[k].overwrites
  BY <1>5, CarriesSees DEF SyncHolds, Unseen, Carries
<1> DEFINE e == Overriding!OwnWrite(g, s, k, ch)
           b == Overriding!EntryOf(ch.overwrites, Self)
           granted == Overriding!Need(s, k) \ Overriding!Perms(g, ch.overwrites)
<1>7. Overriding!Recompute(k) = e
  BY <1>2 DEF Overriding!Recompute, Overriding!Target, Overriding!Copies
<1>8. e.allow = (b.allow \cup granted) \ Overriding!VoiceMask /\ e.deny = (b.deny \ granted) \cup Overriding!VoiceMask
  BY <1>1, <1>2, <1>4 DEF Overriding!OwnWrite
<1>9. "view" \in granted /\ "view" \notin Overriding!VoiceMask
  BY <1>5 DEF Overriding!VoiceMask, Overriding!DenyMask
<1> HIDE DEF granted
<1>10. "view" \in e.allow /\ Overriding!VoiceMask \subseteq e.deny
  BY <1>8, <1>9
<1>. QED  BY <1>5, <1>6, <1>7, <1>10

\* A child that is behind copies exactly what its category carries.
LEMMA ChosenChild ==
  ASSUME ServerHolds, SyncHolds, run.step \in Looping, NEW c \in Pairs, Chosen(c)
  PROVE  Behind(c) /\ Overriding!Recompute(c) = Overriding!EntryOf(disc[disc[c].parent].overwrites, Self)
<1> DEFINE k == disc[c].parent
           lent == Overriding!Lends(k)
<1>1. Behind(c) /\ LentRight(k, lent)
  BY ChosenIsBehind, BehindIsLent DEF Chosen
<1>2. /\ c \notin Overriding!InRun.configured /\ c \in DOMAIN disc /\ k # None
  BY PairIs, InRunIs DEF SyncHolds, Ours, Looping, Active
<1>3. Overriding!Fresh(c).overwrites = disc[c].overwrites /\ Overriding!Fresh(c).parent = k
  BY <1>2, FreshIs
<1>4. Overriding!SameOverwrites(disc[c].overwrites, lent.before)
  BY <1>1 DEF Behind, LentRight, Overriding!SameOverwrites
<1>5. Overriding!Copies(Overriding!InRun, c, Overriding!Fresh(c), lent)
  BY <1>1, <1>2, <1>3, <1>4 DEF Overriding!Copies, LentRight
<1>. QED  BY <1>1, <1>5 DEF Overriding!Recompute, Overriding!Target, LentRight

LEMMA SyncChosen ==
  ASSUME ServerHolds, SyncHolds, RunKept, run.step = "loop", NEW c \in run.todo, Chosen(c),
         run.snap[c].category \/ (\A d \in run.todo : ~run.snap[d].category)
  PROVE  SyncHolds'
<1>1. /\ UNCHANGED <<disc, untouched, configured, delivered>> /\ run'.set = run.set /\ run'.snap = run.snap
      /\ run'.before = run.before /\ run'.own = run.own /\ run'.plan = run.plan /\ run'.todo = run.todo
      /\ run'.skipped = run.skipped /\ run'.step = "write" /\ run'.at = c /\ run'.ows = disc[c].overwrites
      /\ run'.after = Overriding!Recompute(c) /\ run.step \in Looping
  BY DEF RunKept, Chosen, Looping
<1>2. Overriding!Seen' = Overriding!Seen /\ Overriding!InRun' = Overriding!InRun
  BY <1>1 DEF Overriding!Seen, Overriding!InRun
<1>3. LendsHold /\ TurnsHold
  BY <1>1 DEF SyncHolds
<1>4. ASSUME NEW k \in Ours, disc[k].category
      PROVE  /\ k \in run.own => k \in DOMAIN run'.lends
             /\ k \in DOMAIN run'.lends => LentRight(k, run'.lends[k])
  <2> DEFINE p == disc[c].parent
  <2>1. CASE Overriding!Resumable(p)
    <3>1. /\ run'.lends = Overriding!Set(run.lends, p, Overriding!Lends(p)) /\ Overriding!Lends(p) # Overriding!NoInherit
      BY <2>1 DEF Chosen
    <3>2. DOMAIN run'.lends = DOMAIN run.lends \cup {p}
          /\ \A d \in DOMAIN run'.lends : run'.lends[d] = IF d = p THEN Overriding!Lends(p) ELSE run.lends[d]
      BY <3>1 DEF Overriding!Set
    <3>3. k = p => LentRight(k, Overriding!Lends(k))
      BY <1>1, <1>4, <3>1, AskedLends
    <3>4. k \in DOMAIN run.lends => LentRight(k, run.lends[k])
      BY <1>3, <1>4 DEF LendsHold, LentRight
    <3>5. k \in run.own => k \in DOMAIN run.lends
      BY <1>3, <1>4 DEF LendsHold
    <3>. QED  BY <3>2, <3>3, <3>4, <3>5
  <2>2. CASE ~Overriding!Resumable(p)
    <3>1. run'.lends = run.lends
      BY <2>2 DEF Chosen
    <3>. QED  BY <1>3, <1>4, <3>1 DEF LendsHold, LentRight
  <2>. QED  BY <2>1, <2>2
<1>5. LendsHold'
  BY <1>1, <1>3, <1>4 DEF LendsHold, Ours, LentRight
<1>6. TurnsHold'
  BY <1>1, <1>2, <1>3, SyncFrame DEF TurnsHold
<1>7. WriteHolds'
  <2>1. c \in Ours /\ disc[c].category =>
          /\ Self \notin DOMAIN disc[c].overwrites /\ Unseen(disc[c].overwrites)
          /\ "view" \in Overriding!Recompute(c).allow /\ Overriding!VoiceMask \subseteq Overriding!Recompute(c).deny
    BY <1>1, ChosenCategory
  <2>2. c \in Pairs => Behind(c) /\ Overriding!Recompute(c) = Overriding!EntryOf(disc[disc[c].parent].overwrites, Self)
    BY <1>1, ChosenChild
  <2>3. Ours' = Ours /\ Pairs' = Pairs /\ Behind(c)' = Behind(c)
    BY <1>1 DEF Ours, Pairs, Behind
  <2>. QED  BY <1>1, <2>1, <2>2, <2>3 DEF WriteHolds, Behind
<1>. QED
  BY <1>1, <1>5, <1>6, <1>7, PairsFrame DEF SyncHolds, PairsHold, Active, Looping

LEMMA SyncExamine ==
  ASSUME ServerHolds, SyncHolds, NEW c, Overriding!Examine(c)
  PROVE  SyncHolds'
<1>1. /\ RunKept /\ run.step = "loop" /\ c \in run.todo
      /\ run.snap[c].category \/ \A d \in run.todo : ~run.snap[d].category
  BY ExamineIs DEF Overriding!Goes, Overriding!Turn
<1>2. run.step \in Looping /\ run.step \in Active
  BY <1>1 DEF Looping, Active
<1>3. CASE Passed(c, run.skipped \cup {c})
  BY <1>1, <1>2, <1>3, SyncPassed
<1>4. CASE GivesUpNow
  BY <1>1, <1>2, <1>4, SyncGivesUp
<1>5. CASE /\ ~Overriding!LeftAlone(c) /\ Passed(c, run.skipped)
           /\ Overriding!Untouchable(Overriding!Seen, Overriding!InRun, c, Overriding!Fresh(c))
  <2>1. c \in Pairs => ~Behind(c)
    BY <1>2, <1>5, BehindIsMissing
  <2>. QED  BY <1>1, <1>2, <1>5, <2>1, SyncPassed
<1>6. CASE Chosen(c)
  BY <1>1, <1>6, SyncChosen
<1>. QED  BY <1>3, <1>4, <1>5, <1>6, ExamineIs

\* What a PUT does to the pairs: those of a category it writes are copied or fall behind,
\* the child it writes catches up, and the others stay.
LEMMA PutKeepsPairs ==
  ASSUME ServerHolds, SyncHolds, run.step = "write", run.at \in DOMAIN disc, UNCHANGED untouched,
         NEW copies \in BOOLEAN, disc' = Overriding!Put(run.at, run.after, copies)
  PROVE  /\ Ours' = Ours /\ Pairs' = Pairs
         /\ \A k \in Ours : disc'[k].category = disc[k].category /\ disc'[k].parent = disc[k].parent
         /\ \A k \in Ours : disc[k].category /\ k # run.at => disc'[k] = disc[k]
         /\ run.at \in Ours /\ disc[run.at].category =>
              /\ Carries(disc'[run.at].overwrites) /\ run.after = Overriding!EntryOf(disc'[run.at].overwrites, Self)
              /\ Overriding!SameOverwrites(run.ows, Overriding!Without(disc'[run.at].overwrites, Self))
         /\ \A c \in Pairs : Overriding!Synced(c)' \/ Behind(c)'
         /\ \A c \in Pairs : Behind(c)' => Behind(c) \/ disc[c].parent = run.at
         /\ \A c \in Pairs : c = run.at => Overriding!Synced(c)'
<1> DEFINE at == run.at
<1>1. Overriding!Clean(run.after) /\ WriteHolds
  BY DEF ServerHolds, SyncHolds
<1>2. /\ DOMAIN disc' = DOMAIN disc
      /\ \A d \in DOMAIN disc :
           /\ disc'[d] = IF d = at \/ Copied(d, copies) THEN Overriding!Written(disc[d], run.after) ELSE disc[d]
           /\ disc'[d].category = disc[d].category /\ disc'[d].parent = disc[d].parent
  BY <1>1, PutIs
<1>3. \A d \in DOMAIN disc : Overriding!Written(disc[d], run.after).overwrites
                              = Overriding!With(disc[d].overwrites, run.after)
  BY DEF Overriding!Written
<1>4. Ours' = Ours /\ Pairs' = Pairs
  BY <1>2 DEF Ours, Pairs
<1>5. ASSUME NEW k \in Ours, disc[k].category, k # at PROVE disc'[k] = disc[k]
  <2>1. disc[k].parent = None /\ at # None /\ k \in DOMAIN disc
    BY <1>5 DEF Ours, ServerHolds, Overriding!Tree
  <2>. QED  BY <1>2, <1>5, <2>1 DEF Copied
<1>6. ASSUME at \in Ours, disc[at].category
      PROVE  /\ Self \notin DOMAIN disc[at].overwrites /\ Unseen(disc[at].overwrites) /\ run.ows = disc[at].overwrites
             /\ disc'[at].overwrites = Overriding!With(disc[at].overwrites, run.after)
             /\ Overriding!EntryOf(disc'[at].overwrites, Self) = run.after /\ Carries(disc'[at].overwrites)
             /\ Overriding!SameOverwrites(disc[at].overwrites, Overriding!Without(disc'[at].overwrites, Self))
  <2>1. disc'[at].overwrites = Overriding!With(disc[at].overwrites, run.after)
    BY <1>2, <1>3
  <2>2. /\ Self \notin DOMAIN disc[at].overwrites /\ Unseen(disc[at].overwrites) /\ run.ows = disc[at].overwrites
        /\ "view" \in run.after.allow /\ Overriding!VoiceMask \subseteq run.after.deny
    BY <1>1, <1>6 DEF WriteHolds
  <2>3. /\ Self \in DOMAIN Overriding!With(disc[at].overwrites, run.after)
        /\ Overriding!EntryOf(Overriding!With(disc[at].overwrites, run.after), Self) = run.after
    BY DEF Overriding!With, Overriding!EntryOf
  <2>4. Overriding!SameOverwrites(disc[at].overwrites, Overriding!Without(disc'[at].overwrites, Self))
    BY <2>1, <2>2, WithoutWith
  <2>. QED  BY <2>1, <2>2, <2>3, <2>4 DEF Carries
<1>8. ASSUME NEW c \in Pairs, disc[c].parent = at PROVE Overriding!Synced(c)' \/ Behind(c)'
  <2>1. /\ c \in DOMAIN disc /\ at \in Ours /\ disc[at].category /\ c # at /\ disc'[c].parent = at
    BY <1>2, <1>8, PairIs DEF Ours
  <2>2. ~Behind(c)
    BY <1>6, <1>8, <2>1 DEF Behind, Carries
  <2>3. Overriding!SameOverwrites(disc[c].overwrites, disc[at].overwrites)
    BY <1>8, <2>2 DEF SyncHolds, Overriding!Synced
  <2>4. CASE copies
    <3>1. disc'[c].overwrites = Overriding!With(disc[c].overwrites, run.after)
      BY <1>2, <1>3, <1>8, <2>1, <2>3, <2>4 DEF Copied
    <3>2. Overriding!SameOverwrites(disc'[c].overwrites, disc'[at].overwrites)
      BY <1>6, <2>1, <2>3, <3>1, CopyStaysSynced, OverridesAssumption
    <3>. QED  BY <1>2, <2>1, <3>2 DEF Overriding!Synced
  <2>5. CASE ~copies
    <3>1. disc'[c] = disc[c]
      BY <1>2, <2>1, <2>5 DEF Copied
    <3>2. Self \notin DOMAIN disc[c].overwrites /\ Unseen(disc[c].overwrites)
      BY <1>6, <2>1, <2>3, AlikeSight
    <3>3. Overriding!SameOverwrites(disc[c].overwrites, Overriding!Without(disc'[at].overwrites, Self))
      BY <1>6, <2>1, <2>3 DEF Overriding!SameOverwrites
    <3>. QED  BY <1>6, <2>1, <3>1, <3>2, <3>3 DEF Behind
  <2>. QED  BY <2>4, <2>5
<1>9. ASSUME NEW c \in Pairs, c = at PROVE Overriding!Synced(c)'
  <2> DEFINE k == disc[c].parent
  <2>1. /\ k \in Ours /\ disc[k].category /\ k # c /\ k \in DOMAIN disc
        /\ disc'[k] = disc[k] /\ disc'[c].parent = k /\ c \in DOMAIN disc
    BY <1>2, <1>5, <1>9, PairIs DEF Ours
  <2>2. /\ Self \in DOMAIN disc[k].overwrites /\ run.after = Overriding!EntryOf(disc[k].overwrites, Self)
        /\ Overriding!SameOverwrites(disc[c].overwrites, Overriding!Without(disc[k].overwrites, Self))
    BY <1>1, <1>9 DEF WriteHolds, Behind, Carries
  <2>3. Overriding!SameOverwrites(Overriding!With(disc[c].overwrites, run.after), disc[k].overwrites)
    BY <2>2, ResumedIsSynced, OverridesAssumption
  <2>. QED  BY <1>2, <1>3, <1>9, <2>1, <2>3 DEF Overriding!Synced
<1>10. ASSUME NEW c \in Pairs, c # at, disc[c].parent # at
       PROVE  Overriding!Synced(c)' = Overriding!Synced(c) /\ Behind(c)' = Behind(c)
  <2>1. /\ c \in DOMAIN disc /\ disc[c].parent \in Ours /\ disc[disc[c].parent].category
    BY PairIs DEF Ours
  <2>2. disc'[c] = disc[c] /\ disc'[disc[c].parent] = disc[disc[c].parent]
    BY <1>2, <1>5, <1>10, <2>1 DEF Copied
  <2>. QED  BY <1>2, <2>2 DEF Overriding!Synced, Behind
<1>11. at \in Pairs => Behind(at)
  BY <1>1 DEF WriteHolds
<1>12. \A c \in Pairs : Overriding!Synced(c)' \/ Behind(c)'
  BY <1>8, <1>9, <1>10 DEF SyncHolds
<1>13. \A c \in Pairs : Behind(c)' => Behind(c) \/ disc[c].parent = at
  BY <1>10, <1>11
<1>. QED  BY <1>2, <1>4, <1>5, <1>6, <1>9, <1>12, <1>13 DEF Ours

LEMMA PutKeepsCategories ==
  ASSUME ServerHolds, SyncHolds, run.step = "write", run.at \in DOMAIN disc, UNCHANGED untouched,
         NEW copies \in BOOLEAN, disc' = Overriding!Put(run.at, run.after, copies)
  PROVE  PairsHold'
<1>1. /\ Ours' = Ours /\ Pairs' = Pairs /\ \A c \in Pairs : Overriding!Synced(c)' \/ Behind(c)'
      /\ \A k \in Ours : disc'[k].category = disc[k].category
      /\ \A k \in Ours : disc[k].category /\ k # run.at => disc'[k] = disc[k]
  BY PutKeepsPairs
<1>2. run.at \in Ours /\ disc[run.at].category => Carries(disc'[run.at].overwrites)
  BY PutKeepsPairs
<1>. QED  BY <1>1, <1>2 DEF PairsHold, SyncHolds

LEMMA SyncStored ==
  ASSUME ServerHolds, SyncHolds, Overriding!PutStored
  PROVE  SyncHolds'
<1>1. /\ UNCHANGED <<untouched, configured, delivered>> /\ run.step = "write" /\ run.at \in DOMAIN disc
      /\ DOMAIN run' = RunFields /\ run'.step = "check" /\ run'.at = run.at /\ run'.snap = run.snap
      /\ run'.set = run.set /\ run'.before = run.before /\ run'.plan = run.plan /\ run'.todo = run.todo
      /\ run'.skipped = run.skipped /\ run'.result = run.result
      /\ run'.own = (IF run.snap[run.at].category THEN run.own \cup {run.at} ELSE run.own)
      /\ run'.lends = (IF run.snap[run.at].category
                       THEN Overriding!Set(run.lends, run.at,
                                           [parent |-> run.at, before |-> run.ows, after |-> run.after])
                       ELSE run.lends)
  BY PutStoredIs
<1>2. PICK copies \in BOOLEAN : disc' = Overriding!Put(run.at, run.after, copies)
  BY PutStoredIs
<1>3. /\ Ours' = Ours /\ Pairs' = Pairs
      /\ \A k \in Ours : disc'[k].category = disc[k].category /\ disc'[k].parent = disc[k].parent
      /\ \A k \in Ours : disc[k].category /\ k # run.at => disc'[k] = disc[k]
      /\ run.at \in Ours /\ disc[run.at].category =>
           /\ Carries(disc'[run.at].overwrites) /\ run.after = Overriding!EntryOf(disc'[run.at].overwrites, Self)
           /\ Overriding!SameOverwrites(run.ows, Overriding!Without(disc'[run.at].overwrites, Self))
      /\ \A c \in Pairs : Behind(c)' => Behind(c) \/ disc[c].parent = run.at
      /\ \A c \in Pairs : c = run.at => Overriding!Synced(c)'
  BY <1>1, <1>2, PutKeepsPairs
<1>4. PairsHold'
  BY <1>1, <1>2, PutKeepsCategories
<1>5. LendsHold /\ TurnsHold
  BY <1>1 DEF SyncHolds, Looping
<1>6. Overriding!Seen' = Overriding!Seen /\ Overriding!InRun' = Overriding!InRun
  BY <1>1 DEF Overriding!Seen, Overriding!InRun
<1>7. LendsHold'
  <2> DEFINE lent == [parent |-> run.at, before |-> run.ows, after |-> run.after]
  <2>1. ASSUME NEW k \in Ours, disc[k].category, k = run.at
        PROVE  /\ k \in run'.own /\ k \in DOMAIN run'.lends /\ run'.lends[k] = lent
    <3>1. run.snap[run.at].category
      BY <1>5, <2>1 DEF LendsHold
    <3>. QED  BY <1>1, <2>1, <3>1 DEF Overriding!Set
  <2>2. ASSUME NEW k \in Ours, disc[k].category, k # run.at
        PROVE  /\ disc'[k] = disc[k] /\ (k \in run'.own <=> k \in run.own)
               /\ (k \in DOMAIN run'.lends <=> k \in DOMAIN run.lends)
               /\ k \in DOMAIN run.lends => run'.lends[k] = run.lends[k]
    BY <1>1, <1>3, <2>2 DEF Overriding!Set
  <2>. SUFFICES ASSUME NEW k \in Ours
       PROVE  /\ k \in DOMAIN run'.snap /\ ~Overriding!Unreadable(run'.snap[k])
              /\ run'.snap[k].category = disc'[k].category /\ run'.snap[k].parent = disc'[k].parent
              /\ disc'[k].category =>
                   /\ k \notin run'.own => run'.snap[k].overwrites = disc'[k].overwrites
                   /\ k \in run'.own => k \in DOMAIN run'.lends
                   /\ k \in DOMAIN run'.lends =>
                        /\ Carries(disc'[k].overwrites) /\ run'.lends[k].parent = k
                        /\ run'.lends[k].after = Overriding!EntryOf(disc'[k].overwrites, Self)
                        /\ Overriding!SameOverwrites(run'.lends[k].before,
                                                     Overriding!Without(disc'[k].overwrites, Self))
    BY <1>3 DEF LendsHold
  <2>3. /\ k \in DOMAIN run'.snap /\ ~Overriding!Unreadable(run'.snap[k])
        /\ run'.snap[k].category = disc'[k].category /\ run'.snap[k].parent = disc'[k].parent
    BY <1>1, <1>3, <1>5 DEF LendsHold
  <2>4. CASE ~disc[k].category
    BY <1>3, <2>3, <2>4
  <2>5. CASE disc[k].category /\ k = run.at
    BY <1>3, <2>1, <2>3, <2>5
  <2>6. CASE disc[k].category /\ k # run.at
    <3>1. /\ disc'[k] = disc[k] /\ (k \in run'.own <=> k \in run.own)
          /\ (k \in DOMAIN run'.lends <=> k \in DOMAIN run.lends)
          /\ k \in DOMAIN run.lends => run'.lends[k] = run.lends[k]
      BY <2>2, <2>6
    <3>2. /\ k \notin run.own => run.snap[k].overwrites = disc[k].overwrites
          /\ k \in run.own => k \in DOMAIN run.lends
          /\ k \in DOMAIN run.lends =>
               /\ Carries(disc[k].overwrites) /\ run.lends[k].parent = k
               /\ run.lends[k].after = Overriding!EntryOf(disc[k].overwrites, Self)
               /\ Overriding!SameOverwrites(run.lends[k].before, Overriding!Without(disc[k].overwrites, Self))
      BY <1>5, <2>6 DEF LendsHold
    <3>. QED  BY <1>1, <2>3, <3>1, <3>2
  <2>. QED  BY <2>4, <2>5, <2>6
<1>8. TurnsHold'
  <2>1. \A c \in Pairs : Behind(c)' => c \in run.todo \cup run.skipped
    BY <1>1, <1>3, <1>5 DEF TurnsHold
  <2>2. run'.own \subseteq DOMAIN run.plan /\ run.at \in run.todo
        /\ (run.snap[run.at].category \/ \A d \in run.todo : ~run.snap[d].category)
    BY <1>1, <1>5 DEF TurnsHold
  <2>3. \A c \in Pairs : disc'[c].parent = disc[c].parent
    BY <1>3 DEF Pairs
  <2>. QED  BY <1>1, <1>3, <1>5, <1>6, <2>1, <2>2, <2>3 DEF TurnsHold
<1>9. run'.at \in Pairs' => Overriding!Synced(run.at)'
  BY <1>1, <1>3 DEF Overriding!Synced
<1>. QED
  BY <1>1, <1>3, <1>4, <1>7, <1>8, <1>9 DEF SyncHolds, PairsHold, Active, Looping, Overriding!Synced

LEMMA SyncEnds ==
  ASSUME ServerHolds, SyncHolds, Overriding!PutUnconfirmed \/ Overriding!Record
  PROVE  SyncHolds'
<1>1. CASE Overriding!PutUnconfirmed
  <2>1. /\ UNCHANGED <<untouched, configured, delivered>> /\ run.step = "write" /\ run.at \in DOMAIN disc
        /\ disc' = disc \/ \E copies \in BOOLEAN : disc' = Overriding!Put(run.at, run.after, copies)
        /\ run'.snap = run.snap /\ run'.set = run.set
        /\ run'.step = "recording" /\ run'.result \notin {"applied", "nothing"}
    BY <1>1, PutUnconfirmedIs DEF GivesUpNow
  <2>2. PairsHold'
    BY <2>1, PairsFrame, PutKeepsCategories
  <2>. QED  BY <2>1, <2>2 DEF SyncHolds, PairsHold, Active, Looping
<1>2. CASE Overriding!Record
  <2>1. /\ UNCHANGED <<disc, untouched, configured, delivered>> /\ run.step = "recording"
        /\ run'.step = "done" /\ run'.result = run.result /\ run'.skipped = run.skipped
    BY <1>2, RecordIs
  <2>. QED  BY <2>1, PairsFrame, SyncFrame DEF SyncHolds, PairsHold, Active, Looping
<1>. QED  BY <1>1, <1>2

\* What the invariant asks stays true when fewer channels are untouched and those still
\* untouched are as they were.
LEMMA SyncShrinks ==
  ASSUME ServerHolds, ServerHolds', SyncHolds, untouched' \subseteq untouched, None \notin DOMAIN delivered',
         \A c \in untouched' : c \notin configured',
         \A c \in untouched' \cap DOMAIN disc' : c \in DOMAIN disc /\ disc'[c] = disc[c],
         UNCHANGED run \/ run' = Overriding!NoRun \/ run' = [run EXCEPT !.stop = TRUE]
  PROVE  SyncHolds'
<1>1. Ours' \subseteq Ours /\ None \notin untouched' /\ \A c \in Ours' : disc'[c] = disc[c] /\ c \in DOMAIN disc'
  BY DEF Ours, SyncHolds
<1>2. ASSUME NEW c \in Pairs'
      PROVE  /\ c \in Ours' /\ c \in Pairs /\ disc'[c] = disc[c]
             /\ disc[c].parent \in Ours' /\ disc'[disc[c].parent] = disc[disc[c].parent]
             /\ disc[c].parent \in DOMAIN disc /\ disc[c].parent \in DOMAIN disc'
  <2>1. c \in Ours' /\ disc'[c] = disc[c] /\ disc[c].parent \in untouched'
    BY <1>1, <1>2 DEF Pairs
  <2>2. disc[c].parent # None
    BY <1>1, <2>1
  <2>3. disc[c].parent \in DOMAIN disc'
    BY <1>1, <2>1, <2>2 DEF ServerHolds, Overriding!Tree
  <2>4. disc[c].parent \in Ours'
    BY <2>1, <2>3 DEF Ours
  <2>. QED  BY <1>1, <2>1, <2>3, <2>4 DEF Pairs, Ours
<1>3. Pairs' \subseteq Pairs
  BY <1>2
<1>4. \A c \in Pairs' : Overriding!Synced(c)' = Overriding!Synced(c) /\ Behind(c)' = Behind(c)
  BY <1>2 DEF Overriding!Synced, Behind
<1>5. PairsHold'
  BY <1>1, <1>3, <1>4 DEF PairsHold, SyncHolds
<1>6. CASE run' = Overriding!NoRun
  BY <1>1, <1>5, <1>6, NoRunIs DEF SyncHolds, PairsHold, Active, Looping
<1>7. CASE UNCHANGED run \/ run' = [run EXCEPT !.stop = TRUE]
  <2>1. /\ run'.step = run.step /\ run'.snap = run.snap /\ run'.set = run.set /\ run'.before = run.before
        /\ run'.own = run.own /\ run'.lends = run.lends /\ run'.plan = run.plan /\ run'.todo = run.todo
        /\ run'.skipped = run.skipped /\ run'.at = run.at /\ run'.ows = run.ows /\ run'.after = run.after
        /\ run'.result = run.result
    BY <1>7 DEF ServerHolds, RunFields
  <2>2. Overriding!Seen' = Overriding!Seen /\ Overriding!InRun' = Overriding!InRun
    BY <2>1 DEF Overriding!Seen, Overriding!InRun
  <2>3. LendsHold => LendsHold'
    BY <1>1, <2>1 DEF LendsHold
  <2>4. TurnsHold => TurnsHold'
    BY <1>2, <1>3, <1>4, <2>1, <2>2 DEF TurnsHold
  <2>5. WriteHolds => WriteHolds'
    <3>1. run'.at \in Pairs' => (Behind(run.at)' <=> Behind(run.at)) /\ run.at \in Pairs
      BY <1>2, <2>1 DEF Behind
    <3>. QED  BY <1>1, <1>2, <2>1, <3>1 DEF WriteHolds
  <2>6. run'.at \in Pairs' => (Overriding!Synced(run.at)' <=> Overriding!Synced(run.at)) /\ run.at \in Pairs
    BY <1>2, <2>1 DEF Overriding!Synced
  <2>7. run'.step = "reading" =>
          \A c \in Ours' : c \in DOMAIN run'.snap /\ (Overriding!Unreadable(run'.snap[c]) \/ Alike(c)')
    BY <1>1, <2>1 DEF SyncHolds, Alike
  <2>. QED
    BY <1>1, <1>3, <1>4, <1>5, <2>1, <2>3, <2>4, <2>5, <2>6, <2>7 DEF SyncHolds, PairsHold
<1>. QED  BY <1>6, <1>7

LEMMA SyncBeside ==
  ASSUME ServerHolds, SyncHolds,
         \/ (\E c : Overriding!Hide(c) \/ Overriding!Delete(c) \/ \E k : Overriding!Move(c, k))
         \/ (\/ Overriding!Deliver \/ Overriding!Administrator \/ (\E c : Overriding!Unflag(c))
             \/ (\E named : Overriding!Configure(named)) \/ Overriding!Drain \/ Overriding!Killed)
  PROVE  SyncHolds'
<1>1. ASSUME NEW c, Overriding!Hide(c) \/ Overriding!Delete(c) \/ \E k : Overriding!Move(c, k)
      PROVE  SyncHolds'
  <2>1. /\ ServerHolds' /\ UNCHANGED <<delivered, configured, run>> /\ untouched' = untouched \ {c}
        /\ DOMAIN disc' \subseteq DOMAIN disc /\ \A d \in DOMAIN disc' \ {c} : disc'[d] = disc[d]
    BY <1>1, EditIs
  <2>. QED  BY <2>1, SyncShrinks DEF SyncHolds
<1>2. ASSUME \/ Overriding!Deliver \/ Overriding!Administrator \/ (\E c : Overriding!Unflag(c))
             \/ (\E named : Overriding!Configure(named)) \/ Overriding!Drain \/ Overriding!Killed
      PROVE  SyncHolds'
  <2>1. /\ ServerHolds' /\ UNCHANGED disc /\ untouched' \subseteq untouched
        /\ configured' = configured \/ untouched' = untouched \ configured'
        /\ UNCHANGED run \/ run' = Overriding!NoRun \/ run' = [run EXCEPT !.stop = TRUE]
    BY <1>2, OthersIs DEF SameChannels
  <2>2. None \notin DOMAIN delivered'
    <3>1. CASE Overriding!Deliver
      BY <3>1 DEF Overriding!Deliver, ServerHolds
    <3>2. CASE \E c : Overriding!Unflag(c)
      BY <3>2 DEF Overriding!Unflag, SyncHolds
    <3>3. CASE Overriding!Administrator \/ (\E named : Overriding!Configure(named))
      BY <3>3 DEF Overriding!Administrator, Overriding!Configure, Overriding!Elsewhere, SyncHolds
    <3>4. CASE Overriding!Drain \/ Overriding!Killed
      BY <3>4 DEF Overriding!Drain, Overriding!Killed, Overriding!server, SyncHolds
    <3>. QED  BY <1>2, <3>1, <3>2, <3>3, <3>4
  <2>3. \A c \in untouched' : c \notin configured'
    BY <2>1 DEF SyncHolds
  <2>. QED  BY <2>1, <2>2, <2>3, SyncShrinks
<1>. QED  BY <1>1, <1>2

LEMMA SyncStart ==
  ASSUME Overriding!Init
  PROVE  SyncHolds
<1>1. /\ disc = Layout /\ delivered = Layout /\ run.step = "none"
      /\ untouched = {c \in DOMAIN disc \ configured :
                        Self \notin DOMAIN disc[c].overwrites /\ (disc[c].parent = None \/ Overriding!Synced(c))}
  BY NoRunIs DEF Overriding!Init
<1>2. None \notin DOMAIN Layout
  BY OverridesAssumption DEF Overriding!ServerOK
<1>3. \A c \in Pairs : Overriding!Synced(c)
  BY <1>1, <1>2 DEF Pairs, Ours
<1>. QED  BY <1>1, <1>2, <1>3 DEF SyncHolds, Ours, Active, Looping

LEMMA SyncStep ==
  ASSUME ServerHolds, SyncHolds, Overriding!Next
  PROVE  SyncHolds'
<1>1. CASE Overriding!Start \/ (\E c : Overriding!Reads(c)) \/ Overriding!Plans
  BY <1>1, SyncOpens, SyncPlans
<1>2. CASE RunOnly
  BY <1>2, SyncLoops, SyncExamine DEF RunOnly
<1>3. CASE Overriding!PutStored \/ Overriding!PutUnconfirmed \/ Overriding!Record
  BY <1>3, SyncStored, SyncEnds
<1>4. CASE \/ (\E c : Overriding!Hide(c) \/ Overriding!Delete(c) \/ \E k : Overriding!Move(c, k))
           \/ (\/ Overriding!Deliver \/ Overriding!Administrator \/ (\E c : Overriding!Unflag(c))
               \/ (\E named : Overriding!Configure(named)) \/ Overriding!Drain \/ Overriding!Killed)
  BY <1>4, SyncBeside
<1>. QED  BY <1>1, <1>2, <1>3, <1>4, StepsAre

LEMMA ServerStep ==
  ASSUME ServerHolds, Overriding!Next
  PROVE  ServerHolds'
BY StepsAre, StartIs, ReadsIs, PlansIs, RunOnlyIs, PutStoredIs, PutUnconfirmedIs, RecordIs, EditIs, OthersIs

LEMMA SyncIsKept ==
  ASSUME ServerHolds, SyncHolds
  PROVE  Overriding!SyncKept
<1>. SUFFICES ASSUME run.step = "done", run.result \in {"applied", "nothing"},
                     NEW c \in (untouched \cap DOMAIN disc) \ run.skipped, disc[c].parent \in untouched
     PROVE  Overriding!Synced(c)
  BY DEF Overriding!SyncKept
<1>1. c \in Pairs /\ c \notin run.skipped
  BY DEF Pairs, Ours
<1>. QED  BY <1>1 DEF SyncHolds

-----------------------------------------------------------------------------
(* /setup overrides: an undisturbed run repairs everything (Overrides) *)

\* TaruBot sees a channel with these overwrites and may use it for what the settings ask.
Usable(c, ows) ==
  /\ Overriding!Need(Overriding!InRun, c) \subseteq Overriding!Perms(Shape, ows)
  /\ c \in run.set => "history" \notin Overriding!EntryOf(ows, Self).deny
StateNow(c) == Overriding!State(Overriding!Seen, Overriding!InRun, c, Overriding!Fresh(c))
Withheld(c) == {c, disc[c].parent} \cap Overriding!Private(Overriding!Seen, Overriding!InRun) # {}
\* The plan would write this channel no more.
Resolved(c) == Withheld(c) \/ StateNow(c) \notin {"missing", "masked"}

\* What an undisturbed run read is still there but for the categories it wrote, and it
\* settled every channel that has no turn to come.
Repairing ==
  /\ DOMAIN run.snap = DOMAIN disc
  /\ \A c \in DOMAIN disc :
       ReadAs(c) /\ (disc[c].category /\ c \notin run.own => run.snap[c].overwrites = disc[c].overwrites)
  /\ DOMAIN run.plan = Overriding!Wanted(Overriding!Seen, Overriding!InRun) /\ run.todo \cup run.own \subseteq DOMAIN run.plan
  /\ \A k \in DOMAIN run.lends : "view" \in Overriding!Perms(Shape, Overriding!With(run.lends[k].before, run.lends[k].after))
  /\ \A c \in DOMAIN disc \ run.todo : Resolved(c)
  /\ run.step \in {"loop", "write"} => run.own \cap run.todo = {}
  /\ run.step = "check" => run.own \cap run.todo \subseteq {run.at} /\ Resolved(run.at)
  /\ run.step = "recording" => run.todo = {}
  /\ run.step = "write" =>
       /\ run.at \in run.todo /\ run.ows = disc[run.at].overwrites
       /\ Usable(run.at, Overriding!With(run.ows, run.after))
       /\ ~Withheld(run.at) /\ StateNow(run.at) \in {"missing", "masked"}
RepairHolds ==
  /\ quiet /\ run.step \in Active => admin /\ run.set = configured
  /\ quiet /\ run.step = "reading" =>
       /\ run.own = {} /\ DOMAIN run.lends = {} /\ DOMAIN run.snap = DOMAIN disc
       /\ \A c \in DOMAIN disc : IF Overriding!Unreadable(run.snap[c]) THEN c \in run.unread ELSE Alike(c)
  /\ quiet /\ run.skipped = {}
     /\ (run.step \in Looping \/ (run.step = "recording" /\ run.result \in {"applied", "nothing"}))
       => Repairing
  /\ Overriding!RunRepairsAll

\* A readable channel's own state, in terms of what TaruBot may do there.
LEMMA OwnStateIs ==
  ASSUME NEW c, NEW ch, ~Overriding!Unreadable(ch)
  PROVE  /\ "view" \in Overriding!Need(Overriding!InRun, c) /\ (c \notin run.set => Overriding!Need(Overriding!InRun, c) = {"view"})
         /\ Overriding!OwnState(Overriding!Seen, Overriding!InRun, c, ch) = "visible" <=> Usable(c, ch.overwrites)
         /\ Overriding!OwnState(Overriding!Seen, Overriding!InRun, c, ch) = "masked" <=>
              /\ Overriding!Need(Overriding!InRun, c) \subseteq Overriding!Perms(Shape, ch.overwrites)
              /\ c \in run.set /\ "history" \in Overriding!EntryOf(ch.overwrites, Self).deny
         /\ "view" \in Overriding!Perms(Shape, ch.overwrites) =>
              Overriding!OwnState(Overriding!Seen, Overriding!InRun, c, ch) \in {"visible", "masked", "missing"}
<1> DEFINE g == Overriding!Seen
           s == Overriding!InRun
<1>1. s.configured = run.set /\ s.posting \subseteq run.set
  BY InRunIs
<1>2. "view" \in Overriding!Need(s, c) /\ (c \notin run.set => Overriding!Need(s, c) = {"view"})
  BY <1>1 DEF Overriding!Need, Overriding!PostingBits
<1>3. Overriding!Perms(g, ch.overwrites) = Overriding!Perms(Shape, ch.overwrites)
  BY InRunIs, SightIs
<1> HIDE DEF g, s
<1>4. Overriding!Deliberate(g, s, c, ch) => "view" \notin Overriding!Perms(Shape, ch.overwrites)
  BY <1>3 DEF Overriding!Deliberate
<1>5. /\ Overriding!OwnState(g, s, c, ch) = "visible" <=>
           /\ Overriding!Need(s, c) \subseteq Overriding!Perms(Shape, ch.overwrites)
           /\ c \in run.set => "history" \notin Overriding!EntryOf(ch.overwrites, Self).deny
      /\ Overriding!OwnState(g, s, c, ch) = "masked" <=>
           /\ Overriding!Need(s, c) \subseteq Overriding!Perms(Shape, ch.overwrites)
           /\ c \in run.set /\ "history" \in Overriding!EntryOf(ch.overwrites, Self).deny
      /\ "view" \in Overriding!Perms(Shape, ch.overwrites) =>
           Overriding!OwnState(g, s, c, ch) \in {"visible", "masked", "missing"}
  BY <1>1, <1>3, <1>4 DEF Overriding!OwnState, s
<1>. QED  BY <1>2, <1>5 DEF Usable, g, s

\* A readable channel's state depends on its place and overwrites alone.
LEMMA StateFrom ==
  ASSUME NEW g, NEW s, NEW c, NEW one, NEW other, ~Overriding!Unreadable(one), ~Overriding!Unreadable(other),
         one.category = other.category, one.parent = other.parent, one.overwrites = other.overwrites
  PROVE  /\ Overriding!State(g, s, c, one) = Overriding!State(g, s, c, other)
         /\ Overriding!OwnState(g, s, c, one) = Overriding!OwnState(g, s, c, other)
<1>1. Overriding!OwnState(g, s, c, one) = Overriding!OwnState(g, s, c, other)
  BY DEF Overriding!OwnState, Overriding!Deliberate
<1>2. Overriding!ViaCategory(g, s, c, one) = Overriding!ViaCategory(g, s, c, other)
  BY DEF Overriding!ViaCategory
<1>. QED  BY <1>1, <1>2 DEF Overriding!State

\* A category's state is its own.
LEMMA CategoryOwn ==
  ASSUME NEW g, NEW s, NEW c, NEW ch, ch.category
  PROVE  Overriding!State(g, s, c, ch) = Overriding!OwnState(g, s, c, ch)
BY DEF Overriding!State, Overriding!ViaCategory

\* Steps that leave a channel, what the run read and what it judges by alone.
LEMMA StaysResolved ==
  ASSUME NEW c, run'.snap = run.snap, run'.set = run.set, run'.before = run.before, disc'[c] = disc[c]
  PROVE  /\ Overriding!Seen' = Overriding!Seen /\ Overriding!InRun' = Overriding!InRun
         /\ Overriding!Fresh(c)' = Overriding!Fresh(c)
         /\ (Resolved(c)' <=> Resolved(c)) /\ (Withheld(c)' <=> Withheld(c)) /\ StateNow(c)' = StateNow(c)
<1>1. Overriding!Seen' = Overriding!Seen /\ Overriding!InRun' = Overriding!InRun
  BY DEF Overriding!Seen, Overriding!InRun
<1>2. Overriding!Fresh(c)' = Overriding!Fresh(c)
  BY DEF Overriding!Fresh
<1>3. StateNow(c)' = StateNow(c) /\ (Withheld(c)' <=> Withheld(c))
  BY <1>1, <1>2 DEF StateNow, Withheld
<1>. QED  BY <1>1, <1>2, <1>3 DEF Resolved

LEMMA RepairOpens ==
  ASSUME ServerHolds, RepairHolds, Overriding!Start \/ \E c : Overriding!Reads(c)
  PROVE  RepairHolds'
<1>1. CASE Overriding!Start
  <2>1. DOMAIN run'.snap = DOMAIN disc'
    BY <1>1, StartIs DEF ServerHolds
  <2>2. \A c \in DOMAIN disc' : IF Overriding!Unreadable(run'.snap[c]) THEN c \in run'.unread ELSE Alike(c)'
    BY <1>1, StartIs DEF ServerHolds, Alike
  <2>. QED  BY <1>1, <2>1, <2>2, StartIs DEF RepairHolds, Looping, Overriding!RunRepairsAll
<1>2. ASSUME NEW c, Overriding!Reads(c) PROVE RepairHolds'
  <2>1. /\ UNCHANGED <<disc, admin, configured, quiet>> /\ run'.step = "reading" /\ run.step = "reading"
        /\ run'.set = run.set /\ run'.own = run.own /\ run'.lends = run.lends /\ run'.unread = run.unread \ {c}
    BY <1>2, ReadsIs DEF ServerHolds, RunFields
  <2>2. ASSUME quiet
        PROVE  /\ DOMAIN run'.snap = DOMAIN disc
               /\ \A d \in DOMAIN disc : IF Overriding!Unreadable(run'.snap[d]) THEN d \in run'.unread ELSE Alike(d)'
    <3>1. /\ admin /\ DOMAIN run.snap = DOMAIN disc
          /\ \A d \in DOMAIN disc : IF Overriding!Unreadable(run.snap[d]) THEN d \in run.unread ELSE Alike(d)
      BY <2>1, <2>2 DEF RepairHolds, Active
    <3>2. CASE c \notin DOMAIN disc
      <4>1. DOMAIN run'.snap = DOMAIN disc /\ \A d \in DOMAIN disc : run'.snap[d] = run.snap[d]
        BY <1>2, <3>1, <3>2, ReadsIs DEF Overriding!Drop
      <4>. QED  BY <2>1, <3>1, <3>2, <4>1 DEF Alike
    <3>3. CASE c \in DOMAIN disc
      <4>1. /\ DOMAIN run'.snap = DOMAIN disc /\ \A d \in DOMAIN disc \ {c} : run'.snap[d] = run.snap[d]
            /\ run'.snap[c] = Overriding!Fresh(c)
        BY <1>2, <3>1, <3>3, ReadsIs DEF Overriding!Set
      <4>2. ~Overriding!Unreadable(run'.snap[c]) /\ Alike(c)'
        BY <2>1, <3>3, <4>1, FreshIs DEF Alike
      <4>. QED  BY <2>1, <3>1, <4>1, <4>2 DEF Alike
    <3>. QED  BY <3>2, <3>3
  <2>. QED  BY <2>1, <2>2 DEF RepairHolds, Active, Looping, Overriding!RunRepairsAll
<1>. QED  BY <1>1, <1>2

LEMMA RepairPlans ==
  ASSUME ServerHolds, RepairHolds, Overriding!Plans
  PROVE  RepairHolds'
<1>1. /\ UNCHANGED <<disc, admin, configured, quiet>> /\ run.step = "reading"
      /\ run'.snap = run.snap /\ run'.set = run.set /\ run'.own = run.own /\ run'.lends = run.lends
      /\ run'.before = run.before /\ run'.step \in {"loop", "recording"}
      /\ run'.step = "loop" <=> run'.result = "applied"
  <2>1. run'.step = (IF run'.result = "applied" THEN "loop" ELSE "recording")
    BY PlansIs
  <2>2. /\ run'.snap = run.snap /\ run'.set = run.set /\ run'.own = run.own /\ run'.lends = run.lends
        /\ run'.before = run.before
    BY PlansIs DEF ServerHolds, RunFields
  <2>. QED  BY <2>1, <2>2, PlansIs
<1>2. Overriding!Seen' = Overriding!Seen /\ Overriding!InRun' = Overriding!InRun
  BY <1>1 DEF Overriding!Seen, Overriding!InRun
<1>3. ASSUME quiet, run'.result \in {"applied", "nothing"}
      PROVE  Repairing'
  <2>1. /\ run.unread = {} /\ DOMAIN run.snap = DOMAIN disc /\ run.own = {} /\ DOMAIN run.lends = {}
        /\ \A c \in DOMAIN disc : ~Overriding!Unreadable(run.snap[c]) /\ Alike(c)
    BY <1>1, <1>3, PlansIs DEF RepairHolds
  <2>2. /\ run'.todo = Overriding!Wanted(Overriding!Seen, Overriding!InRun) /\ DOMAIN run'.plan = run'.todo
        /\ run'.step = "recording" => run'.todo = {}
    BY <1>1, <1>3, PlansIs DEF Overriding!Planned
  <2>3. \A c \in DOMAIN disc : ReadAs(c) /\ run.snap[c].overwrites = disc[c].overwrites
    BY <2>1 DEF ReadAs, Alike
  <2>4. ASSUME NEW c \in DOMAIN disc, c \notin run'.todo PROVE Resolved(c)
    <3>1. Overriding!Untouchable(Overriding!Seen, Overriding!InRun, c, run.snap[c])
      BY <2>1, <2>2, <2>4, InRunIs DEF Overriding!Wanted
    <3>2. Overriding!State(Overriding!Seen, Overriding!InRun, c, run.snap[c]) = StateNow(c)
      BY <2>3, StateFrom, FreshIs DEF StateNow, ReadAs
    <3>. QED  BY <2>3, <3>1, <3>2 DEF Resolved, Withheld, Overriding!Untouchable, ReadAs
  <2>5. \A c \in DOMAIN disc \ run'.todo : Resolved(c)'
    BY <1>1, <2>4, StaysResolved
  <2>6. \A c \in DOMAIN disc : ReadAs(c)' /\ run'.snap[c].overwrites = disc'[c].overwrites
    BY <1>1, <2>3 DEF ReadAs
  <2>. QED  BY <1>1, <1>2, <2>1, <2>2, <2>5, <2>6 DEF Repairing
<1>. QED
  BY <1>1, <1>3 DEF RepairHolds, Active, Looping, Overriding!RunRepairsAll

\* Steps of the loop that leave the channels, and what was read and planned, alone.
LEMMA RepairGivesUp ==
  ASSUME RepairHolds, RunKept, GivesUpNow, run.step \in Active
  PROVE  RepairHolds'
BY DEF RepairHolds, RunKept, GivesUpNow, Active, Looping, Overriding!RunRepairsAll

LEMMA RepairPassed ==
  ASSUME ServerHolds, RepairHolds, RunKept, run.step \in Looping, NEW c, NEW skipped, Passed(c, skipped),
         run.skipped \subseteq skipped, run.step = "check" => c = run.at,
         quiet /\ skipped = {} => Resolved(c)
  PROVE  RepairHolds'
<1>1. /\ UNCHANGED <<disc, admin, configured, quiet>> /\ run'.snap = run.snap /\ run'.set = run.set
      /\ run'.own = run.own /\ run'.lends = run.lends /\ run'.before = run.before /\ run'.plan = run.plan
      /\ run'.todo = run.todo \ {c} /\ run'.step \in {"loop", "recording"} /\ run'.skipped = skipped
      /\ run'.step = "recording" => run'.todo = {}
  BY DEF RunKept, Passed
<1>2. Overriding!Seen' = Overriding!Seen /\ Overriding!InRun' = Overriding!InRun
  BY <1>1 DEF Overriding!Seen, Overriding!InRun
<1>3. ASSUME quiet, skipped = {} PROVE Repairing'
  <2>1. Repairing /\ Resolved(c)
    BY <1>3 DEF RepairHolds
  <2>2. \A d \in DOMAIN disc \ run'.todo : Resolved(d)'
    BY <1>1, <2>1, StaysResolved DEF Repairing
  <2>3. \A d \in DOMAIN disc : ReadAs(d)'
                               /\ (disc'[d].category /\ d \notin run'.own => run'.snap[d].overwrites = disc'[d].overwrites)
    BY <1>1, <2>1 DEF Repairing, ReadAs
  <2>4. run'.own \cap run'.todo = {}
    BY <1>1, <2>1 DEF Repairing, Looping
  <2>5. run'.todo \cup run'.own \subseteq DOMAIN run'.plan
    BY <1>1, <2>1 DEF Repairing
  <2>. QED  BY <1>1, <1>2, <2>1, <2>2, <2>3, <2>4, <2>5 DEF Repairing
<1>. QED
  BY <1>1, <1>3 DEF RepairHolds, Active, Looping, Overriding!RunRepairsAll

LEMMA RepairLoops ==
  ASSUME ServerHolds, RepairHolds, (\E c : Overriding!LoopStops(c)) \/ Overriding!ReadFails \/ Overriding!PutRefused \/ Overriding!Checks
  PROVE  RepairHolds'
<1>1. CASE (\E c : Overriding!LoopStops(c)) \/ Overriding!ReadFails
  BY <1>1, LoopStopsIs, RepairGivesUp DEF Active
<1>2. CASE Overriding!PutRefused
  <2>1. /\ RunKept /\ run.step = "write" /\ (GivesUpNow \/ Passed(run.at, run.skipped \cup {run.at}))
    BY <1>2, RefusedIs
  <2>. QED  BY <2>1, RepairGivesUp, RepairPassed DEF Active, Looping
<1>3. CASE Overriding!Checks
  <2>1. /\ RunKept /\ run.step = "check" /\ (GivesUpNow \/ Passed(run.at, run.skipped))
    BY <1>3, ChecksIs
  <2>2. quiet /\ run.skipped = {} => Resolved(run.at)
    BY <2>1 DEF RepairHolds, Repairing, Looping
  <2>. QED  BY <2>1, <2>2, RepairGivesUp, RepairPassed DEF Active, Looping
<1>. QED  BY <1>1, <1>2, <1>3

\* What is lent lets TaruBot see a channel that had what the category had.
LEMMA LentIsSeen ==
  ASSUME ServerHolds, Repairing, NEW k, Overriding!Lends(k).parent # None \/ k \in DOMAIN run.lends
  PROVE  "view" \in Overriding!Perms(Shape, Overriding!With(Overriding!Lends(k).before, Overriding!Lends(k).after))
<1>1. CASE k \in DOMAIN run.lends
  BY <1>1 DEF Repairing, Overriding!Lends
<1>2. CASE k \notin DOMAIN run.lends
  <2>1. PICK g, s : Overriding!Lends(k) = Overriding!Resume(g, s, k, Overriding!Fresh(k))
    BY <1>2 DEF Overriding!Lends, Overriding!NoInherit
  <2> DEFINE lent == Overriding!Resume(g, s, k, Overriding!Fresh(k))
  <2>2. "view" \in lent.after.allow
    BY <1>2, <2>1 DEF Overriding!Resume, Overriding!NoInherit
  <2>3. Overriding!EntryOf(Overriding!With(lent.before, lent.after), Self) = lent.after
    BY DEF Overriding!With, Overriding!EntryOf
  <2>. QED  BY <2>1, <2>2, <2>3, CarriesSees
<1>. QED  BY <1>1, <1>2

\* The entry a run is about to write lets TaruBot see the channel, and use it where asked.
LEMMA WriteIsUsable ==
  ASSUME ServerHolds, Repairing, NEW c \in DOMAIN disc, Chosen(c)
  PROVE  /\ Usable(c, Overriding!With(disc[c].overwrites, Overriding!Recompute(c)))
         /\ ~Withheld(c) /\ StateNow(c) \in {"missing", "masked"}
<1> DEFINE g == Overriding!Seen
           s == Overriding!InRun
           ch == Overriding!Fresh(c)
           lent == Overriding!Lends(disc[c].parent)
           ows == disc[c].overwrites
<1>1. /\ ~Overriding!Unreadable(ch) /\ ch.overwrites = ows /\ ch.parent = disc[c].parent
      /\ Overriding!ChannelOK(ch)
  BY FreshIs
<1>2. ~Overriding!Untouchable(g, s, c, ch)
  BY DEF Chosen
<1>3. ~Withheld(c) /\ StateNow(c) \in {"missing", "masked"}
  BY <1>1, <1>2 DEF Overriding!Untouchable, Withheld, StateNow
<1>4. CASE Overriding!Copies(s, c, ch, lent)
  <2>1. /\ lent.parent # None /\ c \notin run.set /\ Overriding!SameOverwrites(ows, lent.before)
        /\ Overriding!Recompute(c) = lent.after
    BY <1>1, <1>4, InRunIs DEF Overriding!Copies, Overriding!Recompute, Overriding!Target
  <2>2. "view" \in Overriding!Perms(Shape, Overriding!With(lent.before, lent.after))
    BY <2>1, LentIsSeen
  <2>3. Overriding!SameOverwrites(Overriding!With(ows, lent.after), Overriding!With(lent.before, lent.after))
    BY <2>1, CopyStaysSynced, OverridesAssumption
  <2>4. "view" \in Overriding!Perms(Shape, Overriding!With(ows, lent.after))
    BY <2>2, <2>3, AlikeSight
  <2>5. Overriding!Need(s, c) = {"view"}
    BY <1>1, <2>1, OwnStateIs
  <2>. QED  BY <1>3, <2>1, <2>4, <2>5 DEF Usable
<1>5. CASE ~Overriding!Copies(s, c, ch, lent)
  <2> DEFINE e == Overriding!OwnWrite(g, s, c, ch)
             w == Overriding!Written(ch, e)
  <2>1. Overriding!Recompute(c) = e
    BY <1>5 DEF Overriding!Recompute, Overriding!Target
  <2>2. Self \notin g.held /\ s.posting \subseteq s.configured
    BY InRunIs, OverridesAssumption DEF Overriding!ServerOK, Overriding!View
  <2>3. Overriding!State(g, s, c, w) = "visible"
    BY <1>2, <2>2, WrittenIsVisible, OverridesAssumption
  <2>4. Overriding!OwnState(g, s, c, w) = "visible"
    BY <2>3 DEF Overriding!State
  <2>5. w.overwrites = Overriding!With(ows, e)
    BY <1>1 DEF Overriding!Written
  <2>6. ~Overriding!Unreadable(w)
    BY <1>1 DEF Overriding!Written, Overriding!Unreadable, Overriding!Fresh
  <2>. QED  BY <1>3, <2>1, <2>4, <2>5, <2>6, OwnStateIs
<1>. QED  BY <1>4, <1>5

LEMMA RepairExamine ==
  ASSUME ServerHolds, RepairHolds, NEW c, Overriding!Examine(c)
  PROVE  RepairHolds'
<1>1. RunKept /\ run.step = "loop" /\ c \in run.todo
  BY ExamineIs DEF Overriding!Goes, Overriding!Turn
<1>2. run.step \in Looping /\ run.step \in Active
  BY <1>1 DEF Looping, Active
<1>3. CASE Passed(c, run.skipped \cup {c})
  BY <1>1, <1>2, <1>3, RepairPassed
<1>4. CASE GivesUpNow
  BY <1>1, <1>2, <1>4, RepairGivesUp
<1>5. CASE /\ ~Overriding!LeftAlone(c) /\ Passed(c, run.skipped)
           /\ Overriding!Untouchable(Overriding!Seen, Overriding!InRun, c, Overriding!Fresh(c))
  <2>1. Resolved(c)
    BY <1>5, FreshIs DEF Resolved, Withheld, StateNow, Overriding!LeftAlone, Overriding!Untouchable
  <2>. QED  BY <1>1, <1>2, <1>5, <2>1, RepairPassed
<1>6. CASE Chosen(c)
  <2>1. /\ UNCHANGED <<disc, admin, configured, quiet>> /\ run'.snap = run.snap /\ run'.set = run.set
        /\ run'.before = run.before /\ run'.own = run.own /\ run'.plan = run.plan /\ run'.todo = run.todo
        /\ run'.skipped = run.skipped /\ run'.step = "write" /\ run'.at = c /\ run'.ows = disc[c].overwrites
        /\ run'.after = Overriding!Recompute(c) /\ c \in DOMAIN disc
    BY <1>1, <1>6 DEF RunKept, Chosen, Overriding!LeftAlone
  <2>2. ASSUME quiet, run.skipped = {} PROVE Repairing'
    <3>1. Repairing
      BY <1>2, <2>2 DEF RepairHolds
    <3>2. /\ Usable(c, Overriding!With(disc[c].overwrites, Overriding!Recompute(c)))
          /\ ~Withheld(c) /\ StateNow(c) \in {"missing", "masked"}
      BY <1>6, <2>1, <3>1, WriteIsUsable
    <3>3. \A k \in DOMAIN run'.lends :
            "view" \in Overriding!Perms(Shape, Overriding!With(run'.lends[k].before, run'.lends[k].after))
      <4> DEFINE p == disc[c].parent
      <4>1. CASE Overriding!Resumable(p)
        <5>1. /\ run'.lends = Overriding!Set(run.lends, p, Overriding!Lends(p)) /\ Overriding!Lends(p) # Overriding!NoInherit
          BY <1>6, <4>1 DEF Chosen
        <5>2. Overriding!Lends(p).parent # None \/ p \in DOMAIN run.lends
          <6>1. p \in DOMAIN run.snap /\ DOMAIN run.snap = DOMAIN disc
            BY <3>1, <4>1 DEF Overriding!Resumable, Repairing
          <6>2. p # None
            BY <6>1 DEF ServerHolds
          <6>. QED  BY <5>1, <6>2 DEF Overriding!Lends, Overriding!Resume
        <5>3. "view" \in Overriding!Perms(Shape, Overriding!With(Overriding!Lends(p).before, Overriding!Lends(p).after))
          BY <3>1, <5>2, LentIsSeen
        <5>. QED  BY <3>1, <5>1, <5>3 DEF Overriding!Set, Repairing
      <4>2. CASE ~Overriding!Resumable(p)
        BY <1>6, <3>1, <4>2 DEF Chosen, Repairing
      <4>. QED  BY <4>1, <4>2
    <3>4. \A d \in DOMAIN disc : (Resolved(d)' <=> Resolved(d)) /\ (Withheld(d)' <=> Withheld(d)) /\ StateNow(d)' = StateNow(d)
                                 /\ (ReadAs(d)' <=> ReadAs(d))
      BY <2>1, StaysResolved DEF ReadAs
    <3>5. Overriding!Seen' = Overriding!Seen /\ Overriding!InRun' = Overriding!InRun
      BY <2>1 DEF Overriding!Seen, Overriding!InRun
    <3>6. Usable(run.at, Overriding!With(run.ows, run.after))'
      <4>1. Overriding!InRun' = Overriding!InRun /\ run'.set = run.set
        BY <2>1, <3>5
      <4>. QED  BY <2>1, <3>2, <4>1 DEF Usable
    <3>7. ~Withheld(run.at)' /\ StateNow(run.at)' \in {"missing", "masked"}
      BY <2>1, <3>2, <3>4 DEF Withheld, StateNow
    <3>8. run'.own \cap run'.todo = {} /\ run'.at \in run'.todo /\ run'.ows = disc'[run'.at].overwrites
      BY <1>1, <2>1, <3>1 DEF Repairing
    <3>9. \A d \in DOMAIN disc' \ run'.todo : Resolved(d)'
      BY <2>1, <3>1, <3>4 DEF Repairing
    <3>10. /\ DOMAIN run'.snap = DOMAIN disc' /\ run'.todo \cup run'.own \subseteq DOMAIN run'.plan
           /\ DOMAIN run'.plan = Overriding!Wanted(Overriding!Seen, Overriding!InRun)
           /\ \A d \in DOMAIN disc' :
                ReadAs(d)' /\ (disc'[d].category /\ d \notin run'.own => run'.snap[d].overwrites = disc'[d].overwrites)
      BY <2>1, <3>1, <3>4, <3>5 DEF Repairing
    <3>. QED  BY <2>1, <3>3, <3>5, <3>6, <3>7, <3>8, <3>9, <3>10 DEF Repairing
  <2>. QED  BY <1>2, <2>1, <2>2 DEF RepairHolds, Active, Looping, Overriding!RunRepairsAll
<1>. QED  BY <1>3, <1>4, <1>5, <1>6, ExamineIs

\* A channel TaruBot may use is resolved.
LEMMA UsableIsResolved ==
  ASSUME NEW c, run'.snap = run.snap, run'.set = run.set, run'.before = run.before,
         Overriding!ChannelOK(disc'[c]), Usable(c, disc'[c].overwrites)
  PROVE  Resolved(c)'
<1> DEFINE now == [category |-> disc'[c].category, parent |-> disc'[c].parent, overwrites |-> disc'[c].overwrites,
                   obfuscated |-> disc'[c].obfuscated, fetched |-> TRUE]
<1>1. Overriding!Seen' = Overriding!Seen /\ Overriding!InRun' = Overriding!InRun
  BY DEF Overriding!Seen, Overriding!InRun
<1>2. Overriding!Fresh(c)' = now
  BY DEF Overriding!Fresh
<1>3. ~Overriding!Unreadable(now) /\ now.overwrites = disc'[c].overwrites
  BY DEF Overriding!Unreadable, Overriding!ChannelOK
<1> HIDE DEF now
<1>4. Overriding!OwnState(Overriding!Seen, Overriding!InRun, c, now) = "visible"
  BY <1>3, OwnStateIs
<1>5. Overriding!State(Overriding!Seen, Overriding!InRun, c, now) = "visible"
  BY <1>4 DEF Overriding!State
<1>6. StateNow(c)' = "visible"
  BY <1>1, <1>2, <1>5 DEF StateNow
<1>. QED  BY <1>6 DEF Resolved

\* A child Discord copied the entry to becomes visible, or its own turn is still to come.
LEMMA CopiedIsUsable ==
  ASSUME ServerHolds, Repairing, run.step = "write", run.at \in DOMAIN disc, NEW d \in DOMAIN disc \ run.todo,
         Copied(d, TRUE)
  PROVE  Usable(d, Overriding!With(disc[d].overwrites, run.after))
<1> DEFINE at == run.at
           g == Overriding!Seen
           s == Overriding!InRun
<1>1. /\ at \in run.todo /\ disc[at].category /\ disc[d].parent = at /\ at # None /\ ~disc[d].category
      /\ Overriding!SameOverwrites(disc[d].overwrites, disc[at].overwrites)
      /\ Usable(at, Overriding!With(disc[at].overwrites, run.after))
      /\ ~Withheld(at) /\ StateNow(at) \in {"missing", "masked"} /\ Resolved(d)
      /\ ReadAs(d) /\ ReadAs(at) /\ DOMAIN run.snap = DOMAIN disc
      /\ run.snap[at].overwrites = disc[at].overwrites
  BY DEF Copied, Repairing, ServerHolds, Overriding!Tree
<1>2. /\ ~Overriding!Unreadable(Overriding!Fresh(at)) /\ Overriding!Fresh(at).overwrites = disc[at].overwrites
      /\ Overriding!Fresh(at).category /\ Overriding!Fresh(at).parent = disc[at].parent
      /\ ~Overriding!Unreadable(Overriding!Fresh(d)) /\ Overriding!Fresh(d).overwrites = disc[d].overwrites
  BY <1>1, FreshIs
<1>3. "view" \in Overriding!Perms(Shape, Overriding!With(disc[d].overwrites, run.after))
  <2>1. "view" \in Overriding!Perms(Shape, Overriding!With(disc[at].overwrites, run.after))
    BY <1>1, <1>2, OwnStateIs DEF Usable
  <2>2. Overriding!SameOverwrites(Overriding!With(disc[d].overwrites, run.after),
                                  Overriding!With(disc[at].overwrites, run.after))
    BY <1>1, CopyStaysSynced, OverridesAssumption
  <2>. QED  BY <2>1, <2>2, AlikeSight
<1>4. CASE d \notin run.set
  <2>1. Overriding!Need(s, d) = {"view"}
    BY <1>2, <1>4, OwnStateIs
  <2>. QED  BY <1>3, <1>4, <2>1 DEF Usable
<1>5. CASE d \in run.set
  <2>1. StateNow(at) = Overriding!OwnState(g, s, at, Overriding!Fresh(at))
    BY <1>2, CategoryOwn DEF StateNow
  <2>2. StateNow(at) = Overriding!StateIn(g, s, at)
    <3>1. Overriding!StateIn(g, s, at) = Overriding!State(g, s, at, run.snap[at])
      BY InRunIs DEF Overriding!StateIn
    <3>2. /\ ~Overriding!Unreadable(run.snap[at]) /\ run.snap[at].category = Overriding!Fresh(at).category
          /\ run.snap[at].parent = Overriding!Fresh(at).parent
          /\ run.snap[at].overwrites = Overriding!Fresh(at).overwrites
      BY <1>1, <1>2 DEF ReadAs
    <3>3. Overriding!State(g, s, at, run.snap[at]) = Overriding!State(g, s, at, Overriding!Fresh(at))
      BY ONLY <1>2, <3>2, StateFrom
    <3>. QED  BY <3>1, <3>3 DEF StateNow
  <2>3. StateNow(at) # "missing"
    <3>1. at \notin Overriding!Private(g, s)
      BY <1>1 DEF Withheld
    <3>2. Overriding!Category(g, at) /\ d \in s.configured \cap DOMAIN g.channels /\ g.channels[d].parent = at
          /\ ~s.onboarding /\ at \in DOMAIN g.channels
      BY <1>1, <1>5, InRunIs DEF Overriding!Category, ReadAs
    <3>. QED  BY <2>2, <3>1, <3>2 DEF Overriding!Private
  <2>4. /\ Overriding!Need(s, at) \subseteq Overriding!Perms(Shape, disc[at].overwrites)
        /\ "history" \in Overriding!EntryOf(disc[at].overwrites, Self).deny
    BY <1>1, <1>2, <2>1, <2>3, OwnStateIs
  <2>5. /\ "view" \in Overriding!Perms(Shape, disc[d].overwrites)
        /\ "history" \in Overriding!EntryOf(disc[d].overwrites, Self).deny
    <3>1. "view" \in Overriding!Need(s, at)
      BY <1>2, OwnStateIs
    <3>2. /\ Overriding!Perms(Shape, disc[d].overwrites) = Overriding!Perms(Shape, disc[at].overwrites)
          /\ Overriding!EntryOf(disc[d].overwrites, Self) = Overriding!EntryOf(disc[at].overwrites, Self)
      BY <1>1, AlikeSight
    <3>. QED  BY <2>4, <3>1, <3>2
  <2>6. Overriding!OwnState(g, s, d, Overriding!Fresh(d)) \in {"masked", "missing"}
    BY <1>2, <1>5, <2>5, OwnStateIs DEF Usable
  <2>7. StateNow(d) \in {"masked", "missing"}
    BY <1>5, <2>6, InRunIs DEF StateNow, Overriding!State, Overriding!ViaCategory
  <2>8. ~Withheld(d)
    <3>1. d \notin Overriding!Private(g, s)
      BY <1>1, InRunIs DEF Overriding!Private, Overriding!Category, ReadAs
    <3>. QED  BY <1>1, <3>1 DEF Withheld
  <2>. QED  BY <1>1, <2>7, <2>8 DEF Resolved
<1>. QED  BY <1>4, <1>5

LEMMA RepairStored ==
  ASSUME ServerHolds, RepairHolds, Overriding!PutStored
  PROVE  RepairHolds'
<1>1. /\ UNCHANGED <<admin, configured, quiet>> /\ run.step = "write" /\ run.at \in DOMAIN disc
      /\ run'.step = "check" /\ run'.at = run.at /\ run'.snap = run.snap
      /\ run'.set = run.set /\ run'.before = run.before /\ run'.plan = run.plan /\ run'.todo = run.todo
      /\ run'.skipped = run.skipped
      /\ run'.own = (IF run.snap[run.at].category THEN run.own \cup {run.at} ELSE run.own)
      /\ run'.lends = (IF run.snap[run.at].category
                       THEN Overriding!Set(run.lends, run.at,
                                           [parent |-> run.at, before |-> run.ows, after |-> run.after])
                       ELSE run.lends)
      /\ ServerHolds'
  BY PutStoredIs
<1>2. PICK copies \in BOOLEAN : disc' = Overriding!Put(run.at, run.after, copies)
  BY PutStoredIs
<1>3. /\ DOMAIN disc' = DOMAIN disc
      /\ \A d \in DOMAIN disc :
           /\ disc'[d] = IF d = run.at \/ Copied(d, copies) THEN Overriding!Written(disc[d], run.after) ELSE disc[d]
           /\ disc'[d].category = disc[d].category /\ disc'[d].parent = disc[d].parent
           /\ Overriding!ChannelOK(disc'[d])
  BY <1>1, <1>2, PutIs DEF ServerHolds
<1>4. \A d \in DOMAIN disc : Overriding!Written(disc[d], run.after).overwrites
                              = Overriding!With(disc[d].overwrites, run.after)
  BY DEF Overriding!Written
<1>5. Overriding!Seen' = Overriding!Seen /\ Overriding!InRun' = Overriding!InRun
  BY <1>1 DEF Overriding!Seen, Overriding!InRun
<1>6. ASSUME quiet, run.skipped = {} PROVE Repairing'
  <2>1. Repairing
    BY <1>1, <1>6 DEF RepairHolds, Looping
  <2>2. /\ run.at \in run.todo /\ run.ows = disc[run.at].overwrites
        /\ Usable(run.at, Overriding!With(disc[run.at].overwrites, run.after))
    BY <1>1, <2>1 DEF Repairing
  <2>3. \A c \in DOMAIN disc :
          ReadAs(c)' /\ (disc'[c].category /\ c \notin run'.own => run'.snap[c].overwrites = disc'[c].overwrites)
    <3>. SUFFICES ASSUME NEW c \in DOMAIN disc
         PROVE  ReadAs(c)' /\ (disc'[c].category /\ c \notin run'.own => run'.snap[c].overwrites = disc'[c].overwrites)
      OBVIOUS
    <3>1. ReadAs(c)
      BY <2>1 DEF Repairing
    <3>2. ReadAs(c)'
      BY <1>1, <1>3, <3>1 DEF ReadAs
    <3>3. ASSUME disc'[c].category, c \notin run'.own PROVE run'.snap[c].overwrites = disc'[c].overwrites
      <4>1. c # run.at /\ c \notin run.own /\ disc[c].category
        BY <1>1, <1>3, <3>1, <3>3 DEF ReadAs
      <4>2. disc[c].parent # run.at
        BY <1>1, <4>1 DEF ServerHolds, Overriding!Tree
      <4>3. disc'[c] = disc[c]
        BY <1>3, <4>1, <4>2 DEF Copied
      <4>. QED  BY <1>1, <2>1, <4>1, <4>3 DEF Repairing
    <3>. QED  BY <3>2, <3>3
  <2>4. \A k \in DOMAIN run'.lends :
          "view" \in Overriding!Perms(Shape, Overriding!With(run'.lends[k].before, run'.lends[k].after))
    <3>1. "view" \in Overriding!Need(Overriding!InRun, run.at)
      BY <1>1, FreshIs, OwnStateIs
    <3>2. "view" \in Overriding!Perms(Shape, Overriding!With(run.ows, run.after))
      BY <2>2, <3>1 DEF Usable
    <3>. QED  BY <1>1, <2>1, <3>2 DEF Repairing, Overriding!Set
  <2>5. Resolved(run.at)'
    <3>1. \A c : c = run.at => Resolved(c)'
      BY <1>1, <1>3, <1>4, <2>2, UsableIsResolved
    <3>2. \A c : c = run'.at => Resolved(c)'
      BY <1>1, <3>1
    <3>. QED  BY <1>1, <1>3, <1>4, <2>2, <3>2 DEF Resolved, Withheld, StateNow, Overriding!Fresh
  <2>6. ASSUME NEW d \in DOMAIN disc, d \notin run.todo PROVE Resolved(d)'
    <3>1. d # run.at /\ Resolved(d)
      BY <2>1, <2>2, <2>6 DEF Repairing
    <3>2. CASE Copied(d, copies)
      <4>1. Usable(d, Overriding!With(disc[d].overwrites, run.after))
        BY <1>1, <2>1, <2>6, <3>2, CopiedIsUsable DEF Copied
      <4>2. disc'[d].overwrites = Overriding!With(disc[d].overwrites, run.after)
        BY <1>3, <1>4, <3>2
      <4>. QED  BY <1>1, <1>3, <4>1, <4>2, UsableIsResolved
    <3>3. CASE ~Copied(d, copies)
      <4>1. disc'[d] = disc[d]
        BY <1>3, <3>1, <3>3
      <4>. QED  BY <1>1, <3>1, <4>1, StaysResolved
    <3>. QED  BY <3>2, <3>3
  <2>7. /\ run'.todo \cup run'.own \subseteq DOMAIN run'.plan /\ run'.own \cap run'.todo \subseteq {run'.at}
        /\ DOMAIN run'.snap = DOMAIN disc' /\ DOMAIN run'.plan = Overriding!Wanted(Overriding!Seen, Overriding!InRun)
    BY <1>1, <1>3, <2>1, <2>2 DEF Repairing
  <2>. QED  BY <1>1, <1>3, <1>5, <2>3, <2>4, <2>5, <2>6, <2>7 DEF Repairing
<1>. QED  BY <1>1, <1>6 DEF RepairHolds, Active, Looping, Overriding!RunRepairsAll

\* A rerun's report of an undisturbed run's server asks for nothing more.
LEMMA RepairedIsWhole ==
  ASSUME ServerHolds, Repairing, run.step = "recording", run.set = configured, NEW rec,
         NEW g, g = Overriding!View([c \in DOMAIN disc |-> Overriding!Fresh(c)]),
         NEW s, s = Overriding!SettingsOf(configured, rec)
  PROVE  Overriding!Wanted(g, s) = {}
<1> DEFINE g0 == Overriding!Seen
           s0 == Overriding!InRun
<1>1. /\ DOMAIN g.channels = DOMAIN disc /\ \A c \in DOMAIN disc : g.channels[c] = Overriding!Fresh(c)
      /\ g.botRole = g0.botRole /\ s.configured = run.set /\ s.posting = s0.posting /\ s.onboarding = FALSE
      /\ \A ows : Overriding!Perms(g, ows) = Overriding!Perms(Shape, ows)
      /\ \A ows : Overriding!Perms(g0, ows) = Overriding!Perms(Shape, ows)
  BY SightIs, InRunIs DEF Overriding!View, Overriding!SettingsOf, Overriding!InRun
<1>2. \A c \in DOMAIN disc :
        /\ ~Overriding!Unreadable(Overriding!Fresh(c)) /\ Overriding!Fresh(c).overwrites = disc[c].overwrites
        /\ Overriding!Fresh(c).category = disc[c].category /\ Overriding!Fresh(c).parent = disc[c].parent
        /\ ReadAs(c)
  BY FreshIs DEF Repairing
<1>3. \A c \in DOMAIN disc : Overriding!OwnState(g, s, c, Overriding!Fresh(c)) = Overriding!OwnState(g0, s0, c, Overriding!Fresh(c))
  BY <1>1, <1>2, InRunIs DEF Overriding!OwnState, Overriding!Deliberate, Overriding!Need
\* A category the run did not write is what it was when it was read.
<1>4. ASSUME NEW k \in DOMAIN disc, disc[k].category, k \notin DOMAIN run.plan
      PROVE  /\ Overriding!OwnState(g, s, k, Overriding!Fresh(k)) = Overriding!OwnState(g0, s0, k, run.snap[k])
             /\ Overriding!StateIn(g, s, k) = Overriding!StateIn(g0, s0, k)
  <2>1. run.snap[k].overwrites = disc[k].overwrites
    BY <1>4 DEF Repairing
  <2>2. Overriding!OwnState(g0, s0, k, run.snap[k]) = Overriding!OwnState(g0, s0, k, Overriding!Fresh(k))
    <3>1. /\ ~Overriding!Unreadable(run.snap[k]) /\ run.snap[k].category = Overriding!Fresh(k).category
          /\ run.snap[k].parent = Overriding!Fresh(k).parent
          /\ run.snap[k].overwrites = Overriding!Fresh(k).overwrites /\ ~Overriding!Unreadable(Overriding!Fresh(k))
      BY <1>2, <2>1 DEF ReadAs
    <3>. QED  BY ONLY <3>1, StateFrom
  <2>3. Overriding!OwnState(g, s, k, Overriding!Fresh(k)) = Overriding!OwnState(g0, s0, k, run.snap[k])
    BY <1>3, <2>2
  <2>4. run.snap[k].category /\ Overriding!Fresh(k).category
    BY <1>2, <1>4 DEF ReadAs
  <2>5. Overriding!StateIn(g, s, k) = Overriding!OwnState(g, s, k, Overriding!Fresh(k))
    BY <1>1, <2>4, CategoryOwn DEF Overriding!StateIn
  <2>6. Overriding!StateIn(g0, s0, k) = Overriding!OwnState(g0, s0, k, run.snap[k])
    BY <2>4, CategoryOwn, InRunIs DEF Overriding!StateIn
  <2>. QED  BY <2>3, <2>5, <2>6
<1>5. ASSUME NEW k \in Overriding!Private(g0, s0) PROVE k \in Overriding!Private(g, s)
  <2>1. /\ k \in DOMAIN disc /\ run.snap[k].category /\ Overriding!StateIn(g0, s0, k) = "missing"
        /\ \E c \in run.set \cap DOMAIN disc : run.snap[c].parent = k
    BY <1>5, InRunIs DEF Overriding!Private, Overriding!Category, Repairing
  <2>2. k \notin DOMAIN run.plan
    BY <1>5, InRunIs DEF Repairing, Overriding!Wanted, Overriding!Untouchable
  <2>3. disc[k].category
    BY <1>2, <2>1 DEF ReadAs
  <2>4. Overriding!StateIn(g, s, k) = "missing"
    BY <1>4, <2>1, <2>2, <2>3
  <2>5. \E c \in s.configured \cap DOMAIN g.channels : g.channels[c].parent = k
    BY <1>1, <1>2, <2>1 DEF ReadAs
  <2>. QED  BY <1>1, <1>2, <2>1, <2>3, <2>4, <2>5 DEF Overriding!Private, Overriding!Category
<1>6. ASSUME NEW c \in DOMAIN disc PROVE Overriding!Untouchable(g, s, c, Overriding!Fresh(c))
  <2>1. Resolved(c)
    BY DEF Repairing
  <2>2. CASE Withheld(c)
    BY <1>2, <1>5, <2>2 DEF Withheld, Overriding!Untouchable
  <2>3. CASE StateNow(c) \notin {"missing", "masked"}
    <3> DEFINE k == disc[c].parent
               own == Overriding!OwnState(g, s, c, Overriding!Fresh(c))
    <3>1. own = Overriding!OwnState(g0, s0, c, Overriding!Fresh(c))
      BY <1>3
    <3>2. CASE own # "missing"
      <4>1. StateNow(c) = own /\ Overriding!State(g, s, c, Overriding!Fresh(c)) = own
        BY <3>1, <3>2 DEF StateNow, Overriding!State
      <4>. QED  BY <2>3, <4>1 DEF Overriding!Untouchable
    <3>3. CASE own = "missing"
      <4>1. Overriding!ViaCategory(g0, s0, c, Overriding!Fresh(c))
        BY <2>3, <3>1, <3>3 DEF StateNow, Overriding!State
      <4>2. /\ k \in DOMAIN disc /\ run.snap[k].category /\ c \notin run.set
            /\ {Self, g0.botRole} \cap DOMAIN disc[c].overwrites = {} /\ ~disc[c].category
            /\ Overriding!OwnState(g0, s0, k, run.snap[k]) = "hidden"
        BY <1>2, <4>1, InRunIs DEF Overriding!ViaCategory, Overriding!Category, Repairing
      <4>3. disc[k].category /\ k \notin DOMAIN run.plan
        <5>1. disc[k].category
          BY <1>2, <4>2 DEF ReadAs
        <5>2. Overriding!State(g0, s0, k, run.snap[k]) = "hidden"
          BY <4>2 DEF Overriding!State
        <5>. QED  BY <5>1, <5>2, InRunIs DEF Repairing, Overriding!Wanted, Overriding!Untouchable
      <4>4. Overriding!OwnState(g, s, k, g.channels[k]) = "hidden"
        BY <1>1, <1>4, <4>2, <4>3
      <4>5. Overriding!ViaCategory(g, s, c, Overriding!Fresh(c))
        BY <1>1, <1>2, <4>2, <4>3, <4>4 DEF Overriding!ViaCategory, Overriding!Category
      <4>6. Overriding!State(g, s, c, Overriding!Fresh(c)) = "hidden"
        BY <3>3, <4>5 DEF Overriding!State
      <4>. QED  BY <4>6 DEF Overriding!Untouchable
    <3>. QED  BY <3>2, <3>3
  <2>. QED  BY <2>1, <2>2, <2>3 DEF Resolved
<1>. QED  BY <1>1, <1>6 DEF Overriding!Wanted

LEMMA RepairEnds ==
  ASSUME ServerHolds, RepairHolds, Overriding!PutUnconfirmed \/ Overriding!Record
  PROVE  RepairHolds'
<1>1. CASE Overriding!PutUnconfirmed
  BY <1>1, PutUnconfirmedIs DEF RepairHolds, GivesUpNow, Active, Looping, Overriding!RunRepairsAll
<1>2. CASE Overriding!Record
  <2>1. /\ UNCHANGED <<disc, admin, configured, quiet>> /\ run.step = "recording"
        /\ run'.step = "done" /\ run'.result = run.result /\ run'.skipped = run.skipped
    BY <1>2, RecordIs
  <2>2. ASSUME run.result \in {"applied", "nothing"}, quiet, run.skipped = {}
        PROVE  Overriding!Wanted(Overriding!View([c \in DOMAIN disc |-> Overriding!Fresh(c)]),
                                 Overriding!SettingsOf(configured, recorded')) = {}
    <3>1. Repairing /\ run.set = configured
      BY <2>1, <2>2 DEF RepairHolds, Active
    <3>. QED  BY <2>1, <3>1, RepairedIsWhole
  <2>3. Overriding!View([c \in DOMAIN disc |-> Overriding!Fresh(c)])'
          = Overriding!View([c \in DOMAIN disc |-> Overriding!Fresh(c)])
    BY <2>1 DEF Overriding!View, Overriding!Fresh
  <2>4. Overriding!SettingsOf(configured, recorded)' = Overriding!SettingsOf(configured, recorded')
    BY <2>1 DEF Overriding!SettingsOf
  <2>5. Overriding!RunRepairsAll'
    BY <2>1, <2>2, <2>3, <2>4 DEF Overriding!RunRepairsAll
  <2>. QED  BY <2>1, <2>5 DEF RepairHolds, Active, Looping
<1>. QED  BY <1>1, <1>2

\* Steps that leave the server, the settings and, but for a stop, the run alone.
LEMMA RepairStays ==
  ASSUME ServerHolds, RepairHolds, quiet' \in {quiet, FALSE},
         quiet' # FALSE => UNCHANGED <<disc, admin, configured, recorded>>,
         UNCHANGED run \/ run' = Overriding!NoRun \/ run' = [run EXCEPT !.stop = TRUE]
  PROVE  RepairHolds'
<1>1. CASE ~quiet'
  BY <1>1 DEF RepairHolds, Overriding!RunRepairsAll
<1>2. CASE quiet' /\ run' = Overriding!NoRun
  BY <1>2, NoRunIs DEF RepairHolds, Active, Looping, Overriding!RunRepairsAll
<1>3. CASE quiet' /\ (UNCHANGED run \/ run' = [run EXCEPT !.stop = TRUE])
  <2>1. /\ run'.step = run.step /\ run'.snap = run.snap /\ run'.set = run.set /\ run'.before = run.before
        /\ run'.own = run.own /\ run'.lends = run.lends /\ run'.plan = run.plan /\ run'.todo = run.todo
        /\ run'.skipped = run.skipped /\ run'.at = run.at /\ run'.ows = run.ows /\ run'.after = run.after
        /\ run'.result = run.result /\ run'.unread = run.unread
    BY <1>3 DEF ServerHolds, RunFields
  <2>2. quiet /\ UNCHANGED <<disc, admin, configured, recorded>>
    BY <1>3
  <2>3. Overriding!Seen' = Overriding!Seen /\ Overriding!InRun' = Overriding!InRun
    BY <2>1 DEF Overriding!Seen, Overriding!InRun
  <2>4. \A d : (Resolved(d)' <=> Resolved(d)) /\ (Withheld(d)' <=> Withheld(d)) /\ StateNow(d)' = StateNow(d)
               /\ (ReadAs(d)' <=> ReadAs(d)) /\ (Alike(d)' <=> Alike(d))
    BY <2>1, <2>2, StaysResolved DEF ReadAs, Alike
  <2>5. /\ (Resolved(run.at)' <=> Resolved(run.at)) /\ (Withheld(run.at)' <=> Withheld(run.at))
        /\ StateNow(run.at)' = StateNow(run.at)
        /\ (Usable(run.at, Overriding!With(run.ows, run.after))' <=> Usable(run.at, Overriding!With(run.ows, run.after)))
    <3>1. StateNow(run.at)' = StateNow(run.at) /\ (Withheld(run.at)' <=> Withheld(run.at))
      BY <2>1, <2>2, <2>3 DEF Withheld, StateNow, Overriding!Fresh
    <3>2. Usable(run.at, Overriding!With(run.ows, run.after))' <=> Usable(run.at, Overriding!With(run.ows, run.after))
      <4>1. /\ Overriding!Need(Overriding!InRun, run.at)' = Overriding!Need(Overriding!InRun, run.at)
            /\ Overriding!With(run.ows, run.after)' = Overriding!With(run.ows, run.after)
        BY <2>1, <2>3 DEF Overriding!Need, Overriding!With
      <4>. QED  BY <2>1, <4>1 DEF Usable
    <3>. QED  BY <3>1, <3>2 DEF Resolved
  <2>6. Repairing => Repairing'
    BY <2>1, <2>2, <2>3, <2>4, <2>5 DEF Repairing
  <2>7. Overriding!RunRepairsAll'
    BY <2>1, <2>2 DEF RepairHolds, Overriding!RunRepairsAll, Overriding!View, Overriding!Fresh, Overriding!SettingsOf
  <2>. QED  BY <2>1, <2>2, <2>4, <2>6, <2>7 DEF RepairHolds
<1>. QED  BY <1>1, <1>2, <1>3

LEMMA RepairStep ==
  ASSUME ServerHolds, RepairHolds, Overriding!Next
  PROVE  RepairHolds'
<1>1. CASE Overriding!Start \/ (\E c : Overriding!Reads(c)) \/ Overriding!Plans
  BY <1>1, RepairOpens, RepairPlans
<1>2. CASE RunOnly
  BY <1>2, RepairLoops, RepairExamine DEF RunOnly
<1>3. CASE Overriding!PutStored \/ Overriding!PutUnconfirmed \/ Overriding!Record
  BY <1>3, RepairStored, RepairEnds
<1>4. CASE \E c : Overriding!Hide(c) \/ Overriding!Delete(c) \/ \E k : Overriding!Move(c, k)
  BY <1>4, EditIs, RepairStays
<1>5. CASE \/ Overriding!Deliver \/ Overriding!Administrator \/ (\E c : Overriding!Unflag(c))
           \/ (\E named : Overriding!Configure(named)) \/ Overriding!Drain \/ Overriding!Killed
  BY <1>5, OthersIs, RepairStays DEF SameChannels
<1>. QED  BY <1>1, <1>2, <1>3, <1>4, <1>5, StepsAre

\* A child nobody else touched stays synced with its category once a run ends with its whole plan
\* done, an undisturbed run that skipped nothing leaves nothing to write, and no deny is undone or
\* forgotten, for every server, settings and number of runs and changes.
THEOREM OverridesStayKept == PartsSpec => OverridesAreKept
<1>1. PartsInit => ServerHolds /\ SyncHolds /\ RepairHolds
  <2>1. Overriding!Init => RepairHolds
    BY NoRunIs DEF Overriding!Init, RepairHolds, Active, Looping, Overriding!RunRepairsAll
  <2>. QED  BY <2>1, ServerStart, SyncStart DEF PartsInit
<1>2. ServerHolds /\ SyncHolds /\ RepairHolds /\ [PartsNext]_<<part, vars, overrideVars, rosterVars>>
        => ServerHolds' /\ SyncHolds' /\ RepairHolds'
  <2>. SUFFICES ASSUME ServerHolds, SyncHolds, RepairHolds, [PartsNext]_<<part, vars, overrideVars, rosterVars>>
       PROVE  ServerHolds' /\ SyncHolds' /\ RepairHolds'
    OBVIOUS
  <2>1. CASE Overriding!Next
    <3>1. ServerHolds'
      BY <2>1, ServerStep
    <3>. QED  BY <2>1, <3>1, SyncStep, RepairStep
  <2>2. CASE UNCHANGED overrideVars
    <3>1. UNCHANGED <<disc, delivered, admin, configured, recorded, untouched, quiet, run>>
      BY <2>2 DEF overrideVars
    <3>2. ServerHolds'
      BY <3>1 DEF ServerHolds
    <3>3. SyncHolds'
      BY <3>1, <3>2, SyncShrinks DEF SyncHolds, Ours
    <3>4. RepairHolds'
      BY <3>1, RepairStays
    <3>. QED  BY <3>2, <3>3, <3>4
  <2>. QED  BY <2>1, <2>2, Zenon DEF PartsNext
<1>3. RepairHolds => Overriding!RunRepairsAll
  BY DEF RepairHolds
<1>. QED  BY <1>1, <1>2, <1>3, SyncIsKept, DeniesStayKept, PTL DEF PartsSpec, OverridesAreKept

-----------------------------------------------------------------------------
(* Rosters (RosterSync) *)

\* An attempt's record, and the pages a read has yet to be compared with.
Attempts == [stage : Roster!Stages, count : Nat, total : Nat, next : 1..(MaxPages + 1),
             members : Seq(Characters), observed : Nat, aged : SUBSET Characters,
             plan : [Characters -> Roster!States], there : SUBSET Characters, changed : 0..2]

RosterTypes ==
  /\ fc \in Seq(Characters)
  /\ changes \in 0..MaxJoins /\ reads \in 0..MaxReads /\ slips \in 0..MaxSlips
  /\ read \in [Readers -> Attempts]
  /\ lock \in Readers \cup {Unheld} /\ lease \in Readers \cup {Unheld}
  /\ cool \in BOOLEAN /\ confirm \in BOOLEAN
  /\ job \in [status : {"idle", "queued", "running"}, again : BOOLEAN]
  /\ linked \in SUBSET Characters /\ snapshot \in SUBSET Characters
  /\ state \in [Characters -> Roster!States] /\ aged \in SUBSET Characters
  /\ accepted \in 0..reads /\ misses \in [Characters -> 0..2]

\* What a read knows of the list: with at most one change since it began, the pages it has
\* are the list's as it is while the length is still the one it counted.
Steady(r) == r.changed < 2 /\ Len(fc) = r.count
ReadOK(r) ==
  /\ r.stage \in {"begun", "pages", "closing", "observed", "planned"} => r.there \subseteq Roster!ToSet(fc)
  /\ r.stage = "begun" => r.next = 1
  /\ r.stage \in {"pages", "closing"} /\ r.changed = 0 => Len(fc) = r.count
  /\ r.stage = "pages" /\ Steady(r) =>
       \A i \in 1..Len(fc) : i <= (r.next - 1) * PageSize => fc[i] \in Roster!ToSet(r.members)
  /\ r.stage = "closing" /\ Steady(r) => Roster!ToSet(fc) \subseteq Roster!ToSet(r.members)
  /\ r.stage \in {"observed", "planned"} =>
       /\ r.observed <= reads
       /\ r.changed = 2 \/ r.there \subseteq Roster!ToSet(r.members)

\* A plan has the row's lease, or nobody has, and what it saw is newer than what was
\* accepted; it knows linked characters only, and who it does not know is not suspected.
PlansOK ==
  /\ \A w \in Readers : read[w].stage = "planned" =>
       /\ lease \in {w, Unheld}
       /\ \A v \in Readers : read[v].stage = "planned" => v = w
       /\ \A c \in Characters :
            IF read[w].plan[c] = "none" THEN state[c] # "missing" ELSE c \in linked
       /\ \A c \in Characters : read[w].plan[c] = "missing" => c \notin Roster!ToSet(read[w].members)
  /\ \A w \in Readers :
       read[w].stage = "planned" \/ (read[w].stage = "observed" /\ lease = w) =>
         read[w].observed > accepted
\* Only linked characters are suspected, which the newest roster lacked, and a second look at
\* one is on its way.
SuspectsOK ==
  /\ lease # Unheld => job.status = "running"
  /\ \A c \in Characters \ linked : state[c] # "missing"
  /\ \A c \in Characters : state[c] = "missing" => misses[c] >= 1
  /\ \A c \in aged : state[c] = "missing"
  /\ (\E c \in Characters : state[c] = "missing") =>
       \/ confirm \/ job.status = "queued"
       \/ job.status = "running" /\ (job.again \/ lease = Unheld \/ read[lease].stage # "done")

RosterInv ==
  /\ RosterTypes /\ (\A w \in Readers : ReadOK(read[w]))
  /\ PlansOK /\ SuspectsOK

-----------------------------------------------------------------------------
LEMMA RosterConstants ==
  /\ Founders \subseteq Seq(Characters) /\ Unheld \notin Readers
  /\ PageSize \in Nat \ {0} /\ MaxPages \in Nat \ {0}
  /\ MaxJoins \in Nat /\ MaxReads \in Nat /\ MaxSlips \in Nat
  BY RosterAssumption DEF Roster!ConstantsOK

\* What the pages of a list are: so many that the last reaches its end, each the next
\* PageSize of its elements.
LEMMA PagesCover ==
  ASSUME fc \in Seq(Characters)
  PROVE  Roster!Pages \in Nat \ {0} /\ Len(fc) <= Roster!Pages * PageSize
<1>1. Len(fc) \in Nat /\ PageSize \in Nat \ {0}
  BY RosterConstants
<1>2. CASE fc = <<>>
  BY <1>1, <1>2 DEF Roster!Pages
<1>3. CASE fc # <<>>
  <2>1. Len(fc) # 0
    BY <1>3
  <2>. DEFINE q == (Len(fc) - 1) \div PageSize
  <2>2. q \in Nat /\ q * PageSize <= Len(fc) - 1 /\ Len(fc) - 1 < (q + 1) * PageSize
    BY <1>1, <2>1
  <2>3. Roster!Pages = q + 1
    BY <1>3 DEF Roster!Pages
  <2>. HIDE DEF q
  <2>. QED  BY <1>1, <2>2, <2>3
<1>. QED  BY <1>2, <1>3

LEMMA PageLists ==
  ASSUME fc \in Seq(Characters), NEW n \in Nat \ {0}, n <= Roster!Pages
  PROVE  /\ Roster!Page(n) \in Seq(Characters)
         /\ \A i \in 1..Len(fc) : (n - 1) * PageSize < i /\ i <= n * PageSize =>
              fc[i] \in Roster!ToSet(Roster!Page(n))
<1>. DEFINE first == (n - 1) * PageSize + 1
            last == IF n * PageSize < Len(fc) THEN n * PageSize ELSE Len(fc)
<1>1. Len(fc) \in Nat /\ PageSize \in Nat \ {0}
  BY RosterConstants
<1>2. first \in Nat /\ first >= 1 /\ last \in Nat /\ last <= Len(fc)
  BY <1>1
<1>3. Roster!Page(n) = SubSeq(fc, first, last)
  BY DEF Roster!Page
<1>. HIDE DEF first, last
<1>4. SubSeq(fc, first, last) \in Seq(Characters)
  BY <1>1, <1>2
<1>5. ASSUME NEW i \in 1..Len(fc), first <= i, i <= last
      PROVE  fc[i] \in Roster!ToSet(SubSeq(fc, first, last))
  <2>1. /\ Len(SubSeq(fc, first, last)) = last - first + 1
        /\ SubSeq(fc, first, last)[i - first + 1] = fc[i]
    BY <1>1, <1>2, <1>5
  <2>2. i - first + 1 \in 1..Len(SubSeq(fc, first, last))
    BY <1>1, <1>2, <1>5, <2>1
  <2>. QED  BY <1>4, <2>1, <2>2 DEF Roster!ToSet
<1>6. ASSUME NEW i \in 1..Len(fc), (n - 1) * PageSize < i, i <= n * PageSize
      PROVE  first <= i /\ i <= last
  <2>1. (n - 1) * PageSize \in Nat /\ n * PageSize \in Nat
    BY <1>1
  <2>. QED  BY <1>1, <1>6, <2>1 DEF first, last
<1>. QED  BY <1>3, <1>4, <1>5, <1>6

LEMMA ListSets ==
  ASSUME NEW s \in Seq(Characters), NEW t \in Seq(Characters)
  PROVE  /\ Roster!ToSet(s) \in SUBSET Characters
         /\ Roster!ToSet(s) \subseteq Roster!ToSet(s \o t)
         /\ Roster!ToSet(t) \subseteq Roster!ToSet(s \o t)
<1>1. Roster!ToSet(s) \in SUBSET Characters
  BY DEF Roster!ToSet
<1>2. /\ s \o t \in Seq(Characters) /\ Len(s \o t) = Len(s) + Len(t) /\ Len(s) \in Nat /\ Len(t) \in Nat
      /\ DOMAIN s = 1..Len(s) /\ DOMAIN t = 1..Len(t) /\ DOMAIN (s \o t) = 1..Len(s \o t)
  OBVIOUS
<1>3. ASSUME NEW i \in 1..Len(s) PROVE s[i] \in Roster!ToSet(s \o t)
  <2>1. (s \o t)[i] = s[i] /\ i \in 1..Len(s \o t)
    BY <1>2
  <2>. QED  BY <2>1 DEF Roster!ToSet
<1>4. ASSUME NEW i \in 1..Len(t) PROVE t[i] \in Roster!ToSet(s \o t)
  <2>1. (s \o t)[Len(s) + i] = t[i] /\ Len(s) + i \in 1..Len(s \o t)
    BY <1>2
  <2>. QED  BY <2>1 DEF Roster!ToSet
<1>5. \A x \in Roster!ToSet(s) : \E i \in 1..Len(s) : x = s[i]
  BY <1>2 DEF Roster!ToSet
<1>6. \A x \in Roster!ToSet(t) : \E i \in 1..Len(t) : x = t[i]
  BY <1>2 DEF Roster!ToSet
<1>. QED  BY <1>1, <1>3, <1>4, <1>5, <1>6

\* A newcomer lengthens the list and hides nobody; who leaves shortens it and hides nobody else.
LEMMA SomeoneJoins ==
  ASSUME fc \in Seq(Characters), NEW c \in Characters, NEW i \in 1..(Len(fc) + 1),
         fc' = Roster!InsertAt(fc, i, c)
  PROVE  fc' \in Seq(Characters) /\ Len(fc') = Len(fc) + 1 /\ Roster!ToSet(fc) \subseteq Roster!ToSet(fc')
<1>1. fc' = SubSeq(fc, 1, i - 1) \o <<c>> \o SubSeq(fc, i, Len(fc))
  BY DEF Roster!InsertAt
<1>2. /\ SubSeq(fc, 1, i - 1) \in Seq(Characters) /\ Len(SubSeq(fc, 1, i - 1)) = i - 1
      /\ SubSeq(fc, i, Len(fc)) \in Seq(Characters) /\ Len(SubSeq(fc, i, Len(fc))) = Len(fc) - i + 1
      /\ \A j \in 1..(i - 1) : SubSeq(fc, 1, i - 1)[j] = fc[j]
      /\ \A j \in i..Len(fc) : SubSeq(fc, i, Len(fc))[j - i + 1] = fc[j]
  OBVIOUS
<1>. DEFINE s == SubSeq(fc, 1, i - 1)
            t == SubSeq(fc, i, Len(fc))
<1>. HIDE DEF s, t
<1>3. s \in Seq(Characters) /\ Len(s) = i - 1 /\ t \in Seq(Characters) /\ Len(t) = Len(fc) - i + 1
      /\ (\A j \in 1..(i - 1) : s[j] = fc[j]) /\ (\A j \in i..Len(fc) : t[j - i + 1] = fc[j])
      /\ fc' = s \o <<c>> \o t
  BY <1>1, <1>2 DEF s, t
<1>. DEFINE u == s \o <<c>>
<1>4. /\ u \in Seq(Characters) /\ Len(u) = i /\ \A j \in 1..(i - 1) : u[j] = fc[j]
  BY <1>3
<1>5. fc' = u \o t
  BY <1>3
<1>. HIDE DEF u
<1>6. fc' \in Seq(Characters) /\ Len(fc') = Len(fc) + 1 /\ DOMAIN fc' = 1..Len(fc')
  <2>1. t \in Seq(Characters) /\ Len(t) = Len(fc) - i + 1 /\ u \in Seq(Characters) /\ Len(u) = i
    BY <1>3, <1>4
  <2>2. Len(u \o t) = Len(fc) + 1 /\ u \o t \in Seq(Characters)
    BY <2>1
  <2>. QED  BY <1>5, <2>2
<1>7. ASSUME NEW j \in 1..Len(fc) PROVE fc[j] \in Roster!ToSet(fc')
  <2>1. CASE j < i
    <3>1. fc'[j] = fc[j] /\ j \in DOMAIN fc'
      BY <1>4, <1>5, <1>6, <2>1
    <3>. QED  BY <3>1 DEF Roster!ToSet
  <2>2. CASE j >= i
    <3>1. j + 1 \in DOMAIN fc' /\ fc'[j + 1] = t[j + 1 - i]
      BY <1>3, <1>4, <1>5, <1>6, <2>2
    <3>2. t[j + 1 - i] = fc[j]
      <4>1. j \in i..Len(fc) /\ j - i + 1 = j + 1 - i
        BY <2>2
      <4>. QED  BY <1>3, <4>1
    <3>. QED  BY <3>1, <3>2 DEF Roster!ToSet
  <2>. QED  BY <2>1, <2>2
<1>8. \A x \in Roster!ToSet(fc) : \E j \in 1..Len(fc) : x = fc[j]
  BY DEF Roster!ToSet
<1>. QED  BY <1>6, <1>7, <1>8

LEMMA SomeoneLeaves ==
  ASSUME fc \in Seq(Characters), NEW i \in DOMAIN fc, fc' = Roster!RemoveAt(fc, i)
  PROVE  /\ fc' \in Seq(Characters) /\ Len(fc') = Len(fc) - 1
         /\ Roster!ToSet(fc) \ {fc[i]} \subseteq Roster!ToSet(fc')
<1>. DEFINE s == SubSeq(fc, 1, i - 1)
            t == SubSeq(fc, i + 1, Len(fc))
<1>3. s \in Seq(Characters) /\ Len(s) = i - 1 /\ t \in Seq(Characters) /\ Len(t) = Len(fc) - i
      /\ (\A j \in 1..(i - 1) : s[j] = fc[j]) /\ (\A j \in (i + 1)..Len(fc) : t[j - i] = fc[j])
  OBVIOUS
<1>2. fc' = s \o t
  BY DEF Roster!RemoveAt
<1>. HIDE DEF s, t
<1>4. fc' \in Seq(Characters) /\ Len(fc') = Len(fc) - 1
  BY <1>2, <1>3
<1>5. ASSUME NEW j \in 1..Len(fc), fc[j] # fc[i] PROVE fc[j] \in Roster!ToSet(fc')
  <2>1. CASE j < i
    <3>1. fc'[j] = fc[j] /\ j \in 1..Len(fc')
      BY <1>2, <1>3, <1>4, <2>1
    <3>. QED  BY <3>1 DEF Roster!ToSet
  <2>2. CASE j > i
    <3>1. j - 1 \in 1..Len(fc') /\ fc'[j - 1] = t[j - i]
      BY <1>2, <1>3, <1>4, <2>2
    <3>2. t[j - i] = fc[j]
      <4>1. j \in (i + 1)..Len(fc)
        BY <2>2
      <4>. QED  BY <1>3, <4>1
    <3>. QED  BY <1>4, <3>1, <3>2 DEF Roster!ToSet
  <2>. QED  BY <1>5, <2>1, <2>2
<1>6. \A x \in Roster!ToSet(fc) : \E j \in 1..Len(fc) : x = fc[j]
  BY DEF Roster!ToSet
<1>. QED  BY <1>4, <1>5, <1>6

-----------------------------------------------------------------------------
LEMMA UnreadType ==
  /\ Roster!Unread \in Attempts /\ Roster!Unread.stage = "none" /\ Roster!Unread.next = 1
  /\ Roster!Unread.changed = 0 /\ Roster!Unread.there = {}
<1>1. <<>> \in Seq(Characters) /\ 1 \in 1..(MaxPages + 1)
  BY RosterConstants
<1>. QED  BY <1>1 DEF Roster!Unread, Roster!NoPlan, Attempts, Roster!Stages, Roster!States

Early == {"none", "claimed", "begun", "pages", "closing"}

\* An attempt that steps leaves the others' knowledge alone.
LEMMA OneAttempt ==
  ASSUME RosterInv, NEW w \in Readers, NEW new \in Attempts,
         read' = [read EXCEPT ![w] = new], fc' = fc,
         reads' \in Nat, reads <= reads', ReadOK(new)'
  PROVE  /\ read' \in [Readers -> Attempts] /\ read'[w] = new
         /\ \A v \in Readers \ {w} : read'[v] = read[v]
         /\ (\A v \in Readers : ReadOK(read[v]))'
<1>1. /\ read' \in [Readers -> Attempts] /\ read'[w] = new
      /\ \A v \in Readers \ {w} : read'[v] = read[v]
  BY DEF RosterInv, RosterTypes
<1>2. ASSUME NEW v \in Readers \ {w} PROVE ReadOK(read[v])'
  <2>1. reads \in Nat /\ read[v] \in Attempts /\ read'[v] = read[v] /\ ReadOK(read[v])
    BY <1>1 DEF RosterInv, RosterTypes
  <2>. QED  BY <2>1 DEF ReadOK, Steady, Attempts
<1>3. ReadOK(read[w])'
  BY <1>1
<1>. QED  BY <1>1, <1>2, <1>3

\* The step of an attempt that has seen no roster yet, or gives up.
EarlyStep(w, new) ==
  /\ read' = [read EXCEPT ![w] = new]
  /\ UNCHANGED <<fc, changes, state, accepted, linked, aged, snapshot, misses, confirm>>
  /\ reads' = reads /\ slips' \in 0..MaxSlips /\ lock' \in Readers \cup {Unheld} /\ cool' \in BOOLEAN
  /\ \/ job' = job /\ lease' = lease
     \/ lease = w /\ job' = Roster!Queued /\ lease' = Unheld

LEMMA EarlyKeeps ==
  ASSUME RosterInv, NEW w \in Readers, NEW new \in Attempts, new.stage \in Early,
         EarlyStep(w, new), ReadOK(new)
  PROVE  RosterInv'
<1>1. ReadOK(new)'
  BY DEF EarlyStep, ReadOK, Steady
<1>2. reads' \in Nat /\ reads <= reads' /\ reads' \in 0..MaxReads
  BY RosterConstants DEF RosterInv, RosterTypes, EarlyStep
<1>3. /\ read' \in [Readers -> Attempts] /\ read'[w] = new
      /\ \A v \in Readers \ {w} : read'[v] = read[v]
      /\ (\A v \in Readers : ReadOK(read[v]))'
  BY <1>1, <1>2, OneAttempt DEF EarlyStep
<1>4. Roster!Queued \in [status : {"idle", "queued", "running"}, again : BOOLEAN]
      /\ Roster!Queued.status = "queued"
  BY DEF Roster!Queued
<1>5. RosterTypes'
  BY <1>2, <1>3, <1>4 DEF RosterInv, RosterTypes, EarlyStep
<1>6. PlansOK'
  BY <1>3, RosterConstants DEF RosterInv, PlansOK, EarlyStep, Early
<1>7. SuspectsOK'
  <2>1. CASE job' = job /\ lease' = lease
    BY <1>3, <2>1 DEF RosterInv, RosterTypes, SuspectsOK, EarlyStep, Early
  <2>2. CASE job' = Roster!Queued /\ lease' = Unheld
    BY <1>4, <2>2 DEF RosterInv, SuspectsOK, EarlyStep
  <2>. QED  BY <2>1, <2>2 DEF EarlyStep
<1>. QED  BY <1>3, <1>5, <1>6, <1>7 DEF RosterInv

LEMMA GivesUp ==
  ASSUME RosterInv, NEW w \in Readers, EarlyStep(w, Roster!Unread)
  PROVE  RosterInv'
<1>1. ReadOK(Roster!Unread)
  BY UnreadType DEF ReadOK
<1>. QED  BY <1>1, UnreadType, EarlyKeeps DEF Early

LEMMA ReadTypes ==
  ASSUME RosterInv, NEW w \in Readers
  PROVE  read[w] \in Attempts /\ ReadOK(read[w]) /\ fc \in Seq(Characters) /\ Len(fc) \in Nat
         /\ slips \in 0..MaxSlips /\ lock \in Readers \cup {Unheld} /\ cool \in BOOLEAN
  BY DEF RosterInv, RosterTypes

LEMMA EndsEarly ==
  ASSUME RosterInv, NEW w \in Readers,
         Roster!Waits(w) \/ Roster!Reject(w) \/ Roster!Fail(w) \/ Roster!PlanLost(w)
  PROVE  RosterInv'
<1>. USE ReadTypes
<1>1. CASE Roster!Waits(w)
  BY <1>1, GivesUp DEF Roster!Waits, Roster!Set, Roster!GivesBack, EarlyStep, Roster!world, Roster!table
<1>2. CASE Roster!Reject(w)
  BY <1>2, GivesUp DEF Roster!Reject, Roster!Set, Roster!GivesBack, Roster!Release, EarlyStep, Roster!world, Roster!table
<1>3. CASE Roster!Fail(w)
  <2>1. slips' \in 0..MaxSlips
    BY <1>3, RosterConstants DEF Roster!Fail
  <2>. QED  BY <1>3, <2>1, GivesUp
            DEF Roster!Fail, Roster!Set, Roster!GivesBack, Roster!Release, EarlyStep, Roster!world, Roster!table
<1>4. CASE Roster!PlanLost(w)
  BY <1>4, GivesUp DEF Roster!PlanLost, Roster!Set, Roster!Release, EarlyStep, Roster!world, Roster!table, Roster!work
<1>. QED  BY <1>1, <1>2, <1>3, <1>4

LEMMA BeginKeeps ==
  ASSUME RosterInv, NEW w \in Readers, Roster!Begin(w)
  PROVE  RosterInv'
<1>1. PICK new : new = [Roster!Unread EXCEPT !.stage = "begun", !.there = Roster!ToSet(fc)]
  OBVIOUS
<1>2. Roster!ToSet(fc) \in SUBSET Characters
  BY ReadTypes, ListSets
<1>3. new \in Attempts /\ new.stage = "begun" /\ new.there = Roster!ToSet(fc) /\ new.next = 1
  BY <1>1, <1>2, UnreadType DEF Attempts, Roster!Stages
<1>4. ReadOK(new)
  BY <1>3 DEF ReadOK
<1>5. EarlyStep(w, new)
  BY <1>1, ReadTypes DEF Roster!Begin, Roster!Set, EarlyStep, Roster!world, Roster!table, Roster!work
<1>. QED  BY <1>3, <1>4, <1>5, EarlyKeeps DEF Early

LEMMA CountKeeps ==
  ASSUME RosterInv, NEW w \in Readers, Roster!CompanyBefore(w)
  PROVE  RosterInv'
<1>1. PICK new : new = [read[w] EXCEPT !.stage = "pages", !.count = Len(fc)]
  OBVIOUS
<1>2. /\ read[w] \in Attempts /\ ReadOK(read[w]) /\ Len(fc) \in Nat /\ read[w].stage = "begun"
      /\ PageSize \in Nat
  BY ReadTypes, RosterConstants DEF Roster!CompanyBefore
<1>3. /\ new \in Attempts /\ new.stage = "pages" /\ new.count = Len(fc) /\ new.there = read[w].there
      /\ new.next = read[w].next
  BY <1>1, <1>2 DEF Attempts, Roster!Stages
<1>4. ReadOK(new)
  <2>1. new.next = 1 /\ new.there \subseteq Roster!ToSet(fc)
    BY <1>2, <1>3 DEF ReadOK
  <2>. QED  BY <1>2, <1>3, <2>1 DEF ReadOK
<1>5. EarlyStep(w, new)
  BY <1>1, ReadTypes DEF Roster!CompanyBefore, Roster!Set, EarlyStep, Roster!world, Roster!table, Roster!work
<1>. QED  BY <1>3, <1>4, <1>5, EarlyKeeps DEF Early

LEMMA PageKeeps ==
  ASSUME RosterInv, NEW w \in Readers, Roster!ReadPage(w)
  PROVE  RosterInv'
<1>. DEFINE r == read[w]
<1>1. PICK new : new = [r EXCEPT !.members = @ \o Roster!Page(r.next), !.total = Roster!Pages,
                                 !.next = r.next + 1,
                                 !.stage = IF r.next = Roster!Pages THEN "closing" ELSE "pages"]
  OBVIOUS
<1>2. /\ r \in Attempts /\ ReadOK(r) /\ fc \in Seq(Characters) /\ Len(fc) \in Nat /\ r.stage = "pages"
  BY ReadTypes DEF Roster!ReadPage
<1>3. r.next \in Nat \ {0} /\ r.next <= Roster!Pages /\ r.next <= MaxPages /\ Roster!Pages \in Nat \ {0}
      /\ PageSize \in Nat \ {0} /\ MaxPages \in Nat
  <2>1. r.next \in Nat \ {0} /\ Roster!Pages \in Nat \ {0} /\ PageSize \in Nat \ {0} /\ MaxPages \in Nat
    BY <1>2, PagesCover, RosterConstants DEF Attempts
  <2>2. ~(r.next > Roster!Pages) /\ ~(Roster!Pages > MaxPages)
    BY DEF Roster!ReadPage, Roster!Refused
  <2>. QED  BY <2>1, <2>2
<1>4. /\ Roster!Page(r.next) \in Seq(Characters)
      /\ \A i \in 1..Len(fc) : (r.next - 1) * PageSize < i /\ i <= r.next * PageSize =>
              fc[i] \in Roster!ToSet(Roster!Page(r.next))
  BY <1>2, <1>3, PageLists
<1>5. r.members \o Roster!Page(r.next) \in Seq(Characters)
  BY <1>2, <1>4 DEF Attempts
<1>6. /\ new \in Attempts /\ new.there = r.there /\ new.changed = r.changed /\ new.count = r.count
      /\ new.next = r.next + 1 /\ new.members = r.members \o Roster!Page(r.next)
      /\ new.stage = IF r.next = Roster!Pages THEN "closing" ELSE "pages"
  <2>1. r.next + 1 \in 1..(MaxPages + 1) /\ Roster!Pages \in Nat
    BY <1>3
  <2>2. (IF r.next = Roster!Pages THEN "closing" ELSE "pages") \in Roster!Stages
    BY DEF Roster!Stages
  <2>. DEFINE stage == IF r.next = Roster!Pages THEN "closing" ELSE "pages"
  <2>3. PICK p : p = Roster!Pages
    OBVIOUS
  <2>4. PICK s : s = stage
    OBVIOUS
  <2>5. PICK m : m = r.members \o Roster!Page(r.next)
    OBVIOUS
  <2>6. new = [r EXCEPT !.members = m, !.total = p, !.next = r.next + 1, !.stage = s]
    BY <1>1, <2>3, <2>4, <2>5
  <2>7. p \in Nat /\ s \in Roster!Stages /\ m \in Seq(Characters)
    BY <1>5, <2>1, <2>2, <2>3, <2>4, <2>5
  <2>8. /\ new \in Attempts /\ new.there = r.there /\ new.changed = r.changed /\ new.count = r.count
        /\ new.next = r.next + 1 /\ new.members = m /\ new.stage = s
    BY <1>2, <2>1, <2>6, <2>7 DEF Attempts
  <2>. QED  BY <2>4, <2>5, <2>8
<1>7. ASSUME Steady(new), NEW i \in 1..Len(fc), i <= r.next * PageSize
      PROVE  fc[i] \in Roster!ToSet(new.members)
  <2>1. CASE i <= (r.next - 1) * PageSize
    <3>1. fc[i] \in Roster!ToSet(r.members)
      BY <1>2, <1>6, <1>7, <2>1 DEF ReadOK, Steady
    <3>. QED  BY <1>2, <1>4, <1>6, <3>1, ListSets DEF Attempts
  <2>2. CASE ~(i <= (r.next - 1) * PageSize)
    <3>1. (r.next - 1) * PageSize \in Nat
      BY <1>3
    <3>2. fc[i] \in Roster!ToSet(Roster!Page(r.next))
      BY <1>4, <1>7, <2>2, <3>1
    <3>. QED  BY <1>2, <1>4, <1>6, <3>2, ListSets DEF Attempts
  <2>. QED  BY <2>1, <2>2
<1>8. ReadOK(new)
  <2>1. new.there \subseteq Roster!ToSet(fc) /\ (new.changed = 0 => Len(fc) = new.count)
    BY <1>2, <1>6 DEF ReadOK
  <2>2. CASE r.next # Roster!Pages
    <3>1. new.stage = "pages" /\ new.next - 1 = r.next
      BY <1>3, <1>6, <2>2
    <3>. QED  BY <1>7, <2>1, <3>1 DEF ReadOK
  <2>3. CASE r.next = Roster!Pages
    <3>1. new.stage = "closing"
      BY <1>6, <2>3
    <3>2. \A i \in 1..Len(fc) : i <= r.next * PageSize
      <4>1. Len(fc) <= r.next * PageSize /\ r.next * PageSize \in Nat
        BY <1>2, <1>3, <2>3, PagesCover
      <4>. QED  BY <1>2, <4>1
    <3>3. \A x \in Roster!ToSet(fc) : \E i \in 1..Len(fc) : x = fc[i]
      BY <1>2 DEF Roster!ToSet
    <3>. QED  BY <1>7, <2>1, <3>1, <3>2, <3>3 DEF ReadOK
  <2>. QED  BY <2>2, <2>3
<1>9. EarlyStep(w, new)
  BY <1>1, ReadTypes DEF Roster!ReadPage, Roster!Set, EarlyStep, Roster!world, Roster!table, Roster!work
<1>10. new.stage \in Early
  BY <1>6 DEF Early
<1>. QED  BY <1>6, <1>8, <1>9, <1>10, EarlyKeeps

-----------------------------------------------------------------------------
LEMMA CompletesRead ==
  ASSUME RosterInv, NEW w \in Readers, Roster!CompanyAfter(w)
  PROVE  RosterInv'
<1>. DEFINE r == read[w]
<1>1. PICK new : new = [r EXCEPT !.stage = "observed", !.observed = reads + 1, !.aged = aged]
  OBVIOUS
<1>2. /\ r \in Attempts /\ ReadOK(r) /\ fc \in Seq(Characters) /\ Len(fc) \in Nat /\ r.stage = "closing"
      /\ Len(fc) = r.count
  BY ReadTypes DEF Roster!CompanyAfter, Roster!Incomplete
<1>3. /\ reads \in Nat /\ reads' = reads + 1 /\ reads' \in 0..MaxReads /\ accepted \in 0..reads
      /\ aged \in SUBSET Characters
  BY RosterConstants DEF RosterInv, RosterTypes, Roster!CompanyAfter
<1>4. /\ new \in Attempts /\ new.there = r.there /\ new.changed = r.changed /\ new.members = r.members
      /\ new.stage = "observed" /\ new.observed = reads + 1 /\ new.plan = r.plan
  <2>1. PICK n : n = reads + 1
    OBVIOUS
  <2>2. PICK old : old = aged
    OBVIOUS
  <2>3. new = [r EXCEPT !.stage = "observed", !.observed = n, !.aged = old]
    BY <1>1, <2>1, <2>2
  <2>4. n \in Nat /\ old \in SUBSET Characters
    BY <1>3, <2>1, <2>2
  <2>5. /\ new \in Attempts /\ new.there = r.there /\ new.changed = r.changed /\ new.members = r.members
        /\ new.stage = "observed" /\ new.observed = n /\ new.plan = r.plan
    BY <1>2, <2>3, <2>4 DEF Attempts, Roster!Stages
  <2>. QED  BY <2>1, <2>5
<1>5. r.changed = 2 \/ r.there \subseteq Roster!ToSet(r.members)
  <2>1. r.changed \in 0..2 /\ r.there \subseteq Roster!ToSet(fc)
    BY <1>2 DEF Attempts, ReadOK
  <2>2. r.changed < 2 => Roster!ToSet(fc) \subseteq Roster!ToSet(r.members)
    BY <1>2 DEF ReadOK, Steady
  <2>. QED  BY <2>1, <2>2
<1>6. /\ read' = [read EXCEPT ![w] = new]
      /\ UNCHANGED <<fc, changes, state, accepted, linked, aged, snapshot, misses, confirm, slips, lock,
                     cool, job, lease>>
  BY <1>1 DEF Roster!CompanyAfter, Roster!Set, Roster!world, Roster!table, Roster!work
<1>7. ReadOK(new)'
  <2>1. new.there \subseteq Roster!ToSet(fc)
    BY <1>2, <1>4 DEF ReadOK
  <2>2. new.observed <= reads' /\ (new.changed = 2 \/ new.there \subseteq Roster!ToSet(new.members))
    BY <1>3, <1>4, <1>5
  <2>. QED  BY <1>4, <1>6, <2>1, <2>2 DEF ReadOK
<1>8. /\ read' \in [Readers -> Attempts] /\ read'[w] = new
      /\ \A v \in Readers \ {w} : read'[v] = read[v]
      /\ (\A v \in Readers : ReadOK(read[v]))'
  <2>1. reads <= reads' /\ reads' \in Nat /\ fc' = fc
    BY <1>3, <1>6
  <2>. QED  BY <1>4, <1>6, <1>7, <2>1, OneAttempt
<1>9. RosterTypes'
  BY <1>3, <1>6, <1>8 DEF RosterInv, RosterTypes
<1>10. PlansOK'
  <2>1. reads + 1 > accepted
    BY <1>3
  <2>. QED  BY <1>2, <1>4, <1>6, <1>8, <2>1 DEF RosterInv, PlansOK
<1>11. SuspectsOK'
  BY <1>4, <1>6, <1>8 DEF RosterInv, RosterTypes, SuspectsOK
<1>. QED  BY <1>8, <1>9, <1>10, <1>11 DEF RosterInv

LEMMA ClaimKeeps ==
  ASSUME RosterInv, NEW w \in Readers, Roster!Claim(w)
  PROVE  RosterInv'
<1>1. PICK new : new = [Roster!Unread EXCEPT !.stage = "claimed"]
  OBVIOUS
<1>2. new \in Attempts /\ new.stage = "claimed"
  BY <1>1, UnreadType DEF Attempts, Roster!Stages
<1>3. /\ read' = [read EXCEPT ![w] = new]
      /\ UNCHANGED <<fc, changes, state, accepted, linked, aged, snapshot, misses, confirm, slips, lock,
                     cool, reads>>
      /\ job' = [status |-> "running", again |-> FALSE] /\ lease' = w
      /\ \A v \in Readers : read[v].stage # "planned"
  BY <1>1 DEF Roster!Claim, Roster!Set, Roster!world, Roster!table
<1>4. reads' \in Nat /\ reads <= reads' /\ fc' = fc /\ ReadOK(new)'
  BY <1>2, <1>3, RosterConstants DEF ReadOK, RosterInv, RosterTypes
<1>5. /\ read' \in [Readers -> Attempts] /\ read'[w] = new
      /\ \A v \in Readers \ {w} : read'[v] = read[v]
      /\ (\A v \in Readers : ReadOK(read[v]))'
  BY <1>2, <1>3, <1>4, OneAttempt
<1>6. RosterTypes'
  BY <1>3, <1>5 DEF RosterInv, RosterTypes
<1>7. PlansOK'
  BY <1>2, <1>3, <1>5 DEF RosterInv, PlansOK
<1>8. SuspectsOK'
  BY <1>2, <1>3, <1>5 DEF RosterInv, SuspectsOK
<1>. QED  BY <1>5, <1>6, <1>7, <1>8 DEF RosterInv

LEMMA CompleteKeeps ==
  ASSUME RosterInv, NEW w \in Readers, Roster!Complete(w)
  PROVE  RosterInv'
<1>1. PICK new : new = Roster!Unread
  OBVIOUS
<1>2. new \in Attempts /\ new.stage = "none"
  BY <1>1, UnreadType
<1>3. /\ read' = [read EXCEPT ![w] = new] /\ read[w].stage = "done"
      /\ UNCHANGED <<fc, changes, state, accepted, linked, aged, snapshot, misses, confirm, slips, lock,
                     cool, reads>>
  BY <1>1 DEF Roster!Complete, Roster!Set, Roster!world, Roster!table
<1>4. reads' \in Nat /\ reads <= reads' /\ fc' = fc /\ ReadOK(new)'
  BY <1>2, <1>3, RosterConstants DEF ReadOK, RosterInv, RosterTypes
<1>5. /\ read' \in [Readers -> Attempts] /\ read'[w] = new
      /\ \A v \in Readers \ {w} : read'[v] = read[v]
      /\ (\A v \in Readers : ReadOK(read[v]))'
  BY <1>2, <1>3, <1>4, OneAttempt
<1>6. CASE lease = w
  <2>1. /\ job' = IF job.again THEN Roster!Queued ELSE Roster!Idle
        /\ lease' = Unheld
    BY <1>6 DEF Roster!Complete
  <2>2. /\ job' \in [status : {"idle", "queued", "running"}, again : BOOLEAN]
        /\ job.again => job'.status = "queued"
    BY <2>1 DEF Roster!Queued, Roster!Idle
  <2>3. RosterTypes'
    BY <1>3, <1>5, <2>1, <2>2 DEF RosterInv, RosterTypes
  <2>4. PlansOK'
    BY <1>2, <1>3, <1>5, <2>1, RosterConstants DEF RosterInv, PlansOK
  <2>5. SuspectsOK'
    BY <1>3, <1>6, <2>1, <2>2, RosterConstants DEF RosterInv, SuspectsOK
  <2>. QED  BY <1>5, <2>3, <2>4, <2>5 DEF RosterInv
<1>7. CASE lease # w
  <2>1. job' = job /\ lease' = lease
    BY <1>7 DEF Roster!Complete
  <2>3. RosterTypes'
    BY <1>3, <1>5, <2>1 DEF RosterInv, RosterTypes
  <2>4. PlansOK'
    BY <1>2, <1>3, <1>5, <2>1 DEF RosterInv, PlansOK
  <2>5. SuspectsOK'
    BY <1>3, <1>5, <1>7, <2>1 DEF RosterInv, RosterTypes, SuspectsOK
  <2>. QED  BY <1>5, <2>3, <2>4, <2>5 DEF RosterInv
<1>. QED  BY <1>6, <1>7

LEMMA PlanKeeps ==
  ASSUME RosterInv, NEW w \in Readers, Roster!Plan(w)
  PROVE  RosterInv'
<1>. DEFINE r == read[w]
<1>1. PICK plan : plan = [c \in Characters |->
          IF c \in linked THEN Roster!Departure(state[c], c \in Roster!Listed(w), c \in r.aged)
          ELSE "none"]
  OBVIOUS
<1>2. PICK new : new = [r EXCEPT !.stage = "planned", !.plan = plan]
  OBVIOUS
<1>3. /\ r \in Attempts /\ ReadOK(r) /\ r.stage = "observed" /\ lease = w
  BY ReadTypes DEF Roster!Plan
<1>4. \A previous, appears, old :
        Roster!Departure(previous, appears, old) \in {"present", "absent", "missing"}
  BY DEF Roster!Departure
<1>5. /\ plan \in [Characters -> Roster!States]
      /\ \A c \in Characters : plan[c] = "none" <=> c \notin linked
      /\ \A c \in Characters : plan[c] = "missing" => c \notin Roster!ToSet(r.members)
  <2>1. \A previous, old : Roster!Departure(previous, TRUE, old) = "present"
    BY DEF Roster!Departure
  <2>2. \A c \in Characters : plan[c] = "missing" => c \notin Roster!Listed(w)
    BY <1>1, <2>1
  <2>. QED  BY <1>1, <1>4, <2>2 DEF Roster!States, Roster!Listed
<1>6. /\ new \in Attempts /\ new.there = r.there /\ new.changed = r.changed /\ new.members = r.members
      /\ new.stage = "planned" /\ new.observed = r.observed /\ new.plan = plan
  BY <1>2, <1>3, <1>5 DEF Attempts, Roster!Stages
<1>7. /\ read' = [read EXCEPT ![w] = new]
      /\ UNCHANGED <<fc, changes, state, accepted, linked, aged, snapshot, misses, confirm, slips, lock,
                     cool, job, lease, reads>>
  BY <1>1, <1>2 DEF Roster!Plan, Roster!Set, Roster!world, Roster!table, Roster!work
<1>8. reads' \in Nat /\ reads <= reads' /\ fc' = fc /\ ReadOK(new)'
  BY <1>3, <1>6, <1>7, RosterConstants DEF ReadOK, RosterInv, RosterTypes
<1>9. /\ read' \in [Readers -> Attempts] /\ read'[w] = new
      /\ \A v \in Readers \ {w} : read'[v] = read[v]
      /\ (\A v \in Readers : ReadOK(read[v]))'
  BY <1>6, <1>7, <1>8, OneAttempt
<1>10. RosterTypes'
  BY <1>7, <1>9 DEF RosterInv, RosterTypes
<1>11. PlansOK'
  <2>1. \A v \in Readers : read'[v].stage = "planned" => v = w
    BY <1>3, <1>9, RosterConstants DEF RosterInv, PlansOK
  <2>2. r.observed > accepted
    BY <1>3 DEF RosterInv, PlansOK
  <2>3. \A c \in Characters : IF plan[c] = "none" THEN state[c] # "missing" ELSE c \in linked
    BY <1>5 DEF RosterInv, SuspectsOK
  <2>. QED  BY <1>3, <1>5, <1>6, <1>7, <1>9, <2>1, <2>2, <2>3 DEF RosterInv, PlansOK
<1>12. SuspectsOK'
  BY <1>3, <1>6, <1>7, <1>9 DEF RosterInv, RosterTypes, SuspectsOK
<1>. QED  BY <1>9, <1>10, <1>11, <1>12 DEF RosterInv

LEMMA PublishKeeps ==
  ASSUME RosterInv, NEW w \in Readers, Roster!Publish(w)
  PROVE  RosterInv' /\ accepted' >= accepted
<1>. DEFINE r == read[w]
<1>1. PICK new : new = [Roster!Unread EXCEPT !.stage = "done"]
  OBVIOUS
<1>2. new \in Attempts /\ new.stage = "done"
  BY <1>1, UnreadType DEF Attempts, Roster!Stages
<1>3. /\ r \in Attempts /\ ReadOK(r) /\ r.stage = "planned" /\ lock \in Readers \cup {Unheld}
  BY ReadTypes DEF Roster!Publish
<1>4. /\ lease \in {w, Unheld} /\ (\A v \in Readers : read[v].stage = "planned" => v = w)
      /\ \A c \in Characters : IF r.plan[c] = "none" THEN state[c] # "missing" ELSE c \in linked
      /\ r.observed > accepted
      /\ \A c \in Characters : r.plan[c] = "missing" => c \notin Roster!ToSet(r.members)
  BY <1>3 DEF RosterInv, PlansOK
<1>5. /\ read' = [read EXCEPT ![w] = new]
      /\ UNCHANGED <<fc, changes, linked, slips, cool, job, lease, reads>>
      /\ lock' \in Readers \cup {Unheld}
  BY <1>1, <1>3 DEF Roster!Publish, Roster!Set, Roster!world, Roster!Release
<1>6. /\ state' = [c \in Characters |-> IF r.plan[c] = "none" THEN state[c] ELSE r.plan[c]]
      /\ aged' = {c \in aged : Roster!KeepsAbsence(r.plan[c])}
      /\ snapshot' = Roster!ToSet(r.members)
      /\ accepted' = r.observed
      /\ confirm' = (confirm \/ Roster!WantsConfirmation(w))
      /\ misses' = [c \in Characters |->
          IF c \in Roster!ToSet(r.members) THEN 0 ELSE IF misses[c] < 2 THEN misses[c] + 1 ELSE 2]
  BY DEF Roster!Publish, Roster!Listed
<1>7. /\ reads \in Nat /\ r.observed \in Nat /\ r.observed <= reads /\ accepted \in Nat
      /\ r.plan \in [Characters -> Roster!States] /\ r.members \in Seq(Characters)
  <2>1. reads \in Nat /\ accepted \in Nat
    BY RosterConstants DEF RosterInv, RosterTypes
  <2>2. r.observed \in Nat /\ r.plan \in [Characters -> Roster!States] /\ r.members \in Seq(Characters)
    BY <1>3 DEF Attempts
  <2>. QED  BY <1>3, <2>1, <2>2 DEF ReadOK
<1>8. reads' \in Nat /\ reads <= reads' /\ fc' = fc /\ ReadOK(new)'
  BY <1>2, <1>5, <1>7 DEF ReadOK
<1>9. /\ read' \in [Readers -> Attempts] /\ read'[w] = new
      /\ \A v \in Readers \ {w} : read'[v] = read[v]
      /\ (\A v \in Readers : ReadOK(read[v]))'
  BY <1>2, <1>5, <1>7, <1>8, OneAttempt
<1>10. state' \in [Characters -> Roster!States] /\ aged' \in SUBSET Characters
       /\ snapshot' \in SUBSET Characters /\ accepted' \in 0..reads' /\ confirm' \in BOOLEAN
       /\ misses' \in [Characters -> 0..2]
  <2>1. state' \in [Characters -> Roster!States]
    BY <1>6, <1>7 DEF RosterInv, RosterTypes
  <2>2. aged' \in SUBSET Characters /\ snapshot' \in SUBSET Characters
    BY <1>6, <1>7, ListSets DEF RosterInv, RosterTypes
  <2>3. accepted' \in 0..reads'
    BY <1>5, <1>6, <1>7
  <2>4. confirm' \in BOOLEAN
    <3>1. Roster!WantsConfirmation(w) \in BOOLEAN
      BY Zenon DEF Roster!WantsConfirmation
    <3>2. confirm \in BOOLEAN
      BY DEF RosterInv, RosterTypes
    <3>. QED  BY <1>6, <3>1, <3>2
  <2>5. misses' \in [Characters -> 0..2]
    <3>1. \A c \in Characters : misses[c] \in 0..2
      BY DEF RosterInv, RosterTypes
    <3>2. \A c \in Characters :
            (IF c \in Roster!ToSet(r.members) THEN 0 ELSE IF misses[c] < 2 THEN misses[c] + 1 ELSE 2) \in 0..2
      BY <3>1
    <3>. QED  BY <1>6, <3>2
  <2>. QED  BY <2>1, <2>2, <2>3, <2>4, <2>5
<1>11. RosterTypes'
  BY <1>5, <1>9, <1>10 DEF RosterInv, RosterTypes
<1>12. PlansOK'
  <2>1. \A v \in Readers : read'[v].stage # "planned"
    BY <1>2, <1>4, <1>9
  <2>2. \A v \in Readers : ~(read'[v].stage = "observed" /\ lease' = v)
    BY <1>2, <1>4, <1>5, <1>9, RosterConstants
  <2>. QED  BY <2>1, <2>2 DEF PlansOK
<1>13. SuspectsOK'
  <2>1. (lease # Unheld => job.status = "running")'
    BY <1>5 DEF RosterInv, SuspectsOK
  <2>2. \A c \in Characters : state'[c] = "missing" <=> r.plan[c] = "missing"
    BY <1>4, <1>6
  <2>3. \A c \in Characters \ linked' : state'[c] # "missing"
    BY <1>4, <1>5, <2>2
  <2>4. \A c \in aged' : state'[c] = "missing"
    BY <1>4, <1>6, <2>2 DEF Roster!KeepsAbsence, RosterInv, RosterTypes, SuspectsOK
  <2>5. (\E c \in Characters : state'[c] = "missing") => confirm'
    BY <1>6, <2>2 DEF Roster!WantsConfirmation
  <2>6. \A c \in Characters : state'[c] = "missing" => misses'[c] >= 1
    <3>1. \A c \in Characters : misses[c] \in 0..2
      BY DEF RosterInv, RosterTypes
    <3>. QED  BY <1>4, <1>6, <2>2, <3>1
  <2>. QED  BY <2>1, <2>3, <2>4, <2>5, <2>6 DEF SuspectsOK
<1>14. accepted' >= accepted
  BY <1>4, <1>6, <1>7
<1>. QED  BY <1>9, <1>11, <1>12, <1>13, <1>14 DEF RosterInv

-----------------------------------------------------------------------------
\* The Lodestone moves on: a read that was being compared with the list as it was is told so.
LEMMA ListMoves ==
  ASSUME RosterInv, NEW gone \in SUBSET Characters, Roster!Overtaken(gone),
         fc' \in Seq(Characters), Len(fc') # Len(fc), Roster!ToSet(fc) \ gone \subseteq Roster!ToSet(fc'),
         changes < MaxJoins, changes' = changes + 1,
         UNCHANGED <<lock, cool, job, lease, confirm, linked, state, aged, snapshot, accepted, reads,
                     slips, misses>>
  PROVE  RosterInv'
<1>1. changes' \in 0..MaxJoins
  BY RosterConstants DEF RosterInv, RosterTypes
<1>2. ASSUME NEW v \in Readers
      PROVE  /\ read'[v] \in Attempts /\ ReadOK(read[v])' /\ read'[v].stage = read[v].stage
             /\ read'[v].observed = read[v].observed /\ read'[v].plan = read[v].plan
             /\ read'[v].members = read[v].members
  <2>1. read[v] \in Attempts /\ ReadOK(read[v])
    BY ReadTypes
  <2>2. CASE Roster!Reading(v)
    <3>1. PICK there : there = read[v].there \ gone
      OBVIOUS
    <3>2. PICK changed : changed = IF read[v].changed < 2 THEN read[v].changed + 1 ELSE read[v].changed
      OBVIOUS
    <3>3. read'[v] = [read[v] EXCEPT !.there = there, !.changed = changed]
      BY <2>2, <3>1, <3>2 DEF Roster!Overtaken
    <3>4. there \in SUBSET Characters /\ changed \in 0..2 /\ changed # 0 /\ read[v].changed \in 0..2
          /\ (changed = 2 \/ read[v].changed = 0)
      BY <2>1, <3>1, <3>2 DEF Attempts
    <3>5. /\ read'[v] \in Attempts /\ read'[v].stage = read[v].stage
          /\ read'[v].observed = read[v].observed /\ read'[v].plan = read[v].plan
          /\ read'[v].next = read[v].next /\ read'[v].count = read[v].count
          /\ read'[v].members = read[v].members
          /\ read'[v].there = there /\ read'[v].changed = changed
      <4>1. ASSUME NEW old \in Attempts, NEW new, new = [old EXCEPT !.there = there, !.changed = changed]
            PROVE  /\ new \in Attempts /\ new.stage = old.stage
                   /\ new.observed = old.observed /\ new.plan = old.plan
                   /\ new.next = old.next /\ new.count = old.count
                   /\ new.members = old.members
                   /\ new.there = there /\ new.changed = changed
        BY <3>4, <4>1 DEF Attempts
      <4>. QED  BY <2>1, <3>3, <4>1
    <3>6. read[v].stage \in {"begun", "pages", "closing", "observed", "planned"} =>
            there \subseteq Roster!ToSet(fc')
      BY <2>1, <3>1 DEF ReadOK
    <3>7. read[v].stage \in {"pages", "closing"} => changed = 2 \/ Len(fc') # read[v].count
      BY <2>1, <3>4 DEF ReadOK
    <3>8. read[v].stage \in {"observed", "planned"} =>
            /\ read[v].observed <= reads
            /\ changed = 2 \/ there \subseteq Roster!ToSet(read[v].members)
      <4>1. read[v].changed = 2 => changed = 2
        BY <3>2
      <4>. QED  BY <2>1, <3>1, <4>1 DEF ReadOK
    <3>9. PICK r : r = read'[v]
      OBVIOUS
    <3>10. /\ r.stage \in {"begun", "pages", "closing", "observed", "planned"} =>
                r.there \subseteq Roster!ToSet(fc')
           /\ r.stage = "begun" => r.next = 1
           /\ r.changed # 0
           /\ r.stage \in {"pages", "closing"} => ~(r.changed < 2 /\ Len(fc') = r.count)
           /\ r.stage \in {"observed", "planned"} =>
                 /\ r.observed <= reads'
                 /\ r.changed = 2 \/ r.there \subseteq Roster!ToSet(r.members)
      BY <2>1, <3>4, <3>5, <3>6, <3>7, <3>8, <3>9 DEF ReadOK
    <3>11. ReadOK(r)'
      BY <3>10 DEF ReadOK, Steady
    <3>. QED  BY <3>5, <3>9, <3>11 DEF ReadOK, Steady
  <2>3. CASE ~Roster!Reading(v)
    <3>1. read'[v] = read[v] /\ read[v].stage \in {"none", "claimed", "done"}
      BY <2>3 DEF Roster!Overtaken, Roster!Reading
    <3>. QED  BY <2>1, <3>1 DEF ReadOK
  <2>. QED  BY <2>2, <2>3
<1>3. read' \in [Readers -> Attempts]
  <2>1. read' = [w \in Readers |-> read'[w]]
    BY Zenon DEF Roster!Overtaken
  <2>. QED  BY <1>2, <2>1
<1>4. \A v \in Readers : ReadOK(read[v])'
  BY <1>2
<1>5. RosterTypes'
  BY <1>1, <1>3 DEF RosterInv, RosterTypes
<1>6. PlansOK'
  BY <1>2 DEF RosterInv, PlansOK
<1>7. SuspectsOK'
  BY <1>2 DEF RosterInv, RosterTypes, SuspectsOK
<1>. QED  BY <1>4, <1>5, <1>6, <1>7 DEF RosterInv

LEMMA MovesKeep ==
  ASSUME RosterInv, NEW c \in Characters, Roster!Join(c) \/ Roster!Leave(c)
  PROVE  RosterInv'
<1>0. fc \in Seq(Characters) /\ Len(fc) \in Nat /\ Roster!ToSet(fc) \in SUBSET Characters
  <2>1. fc \in Seq(Characters)
    BY DEF RosterInv, RosterTypes
  <2>. QED  BY <2>1, ListSets
<1>1. CASE Roster!Join(c)
  <2>1. PICK i \in 1..(Len(fc) + 1) : fc' = Roster!InsertAt(fc, i, c)
    BY <1>1 DEF Roster!Join
  <2>2. fc' \in Seq(Characters) /\ Len(fc') = Len(fc) + 1 /\ Roster!ToSet(fc) \subseteq Roster!ToSet(fc')
    BY <1>0, <2>1, SomeoneJoins
  <2>3. Roster!ToSet(fc) \ {} \subseteq Roster!ToSet(fc') /\ Len(fc') # Len(fc)
    BY <1>0, <2>2
  <2>4. /\ Roster!Overtaken({}) /\ changes < MaxJoins /\ changes' = changes + 1
        /\ UNCHANGED <<lock, cool, job, lease, confirm, linked, state, aged, snapshot, accepted, reads,
                     slips, misses>>
    BY <1>1 DEF Roster!Join, Roster!work, Roster!table
  <2>. QED  BY <2>2, <2>3, <2>4, ListMoves
<1>2. CASE Roster!Leave(c)
  <2>1. PICK i \in DOMAIN fc : fc[i] = c /\ fc' = Roster!RemoveAt(fc, i)
    BY <1>2 DEF Roster!Leave
  <2>2. /\ fc' \in Seq(Characters) /\ Len(fc') = Len(fc) - 1
        /\ Roster!ToSet(fc) \ {c} \subseteq Roster!ToSet(fc')
    BY <1>0, <2>1, SomeoneLeaves
  <2>3. Len(fc') # Len(fc) /\ {c} \in SUBSET Characters
    BY <1>0, <2>2
  <2>4. /\ Roster!Overtaken({c}) /\ changes < MaxJoins /\ changes' = changes + 1
        /\ UNCHANGED <<lock, cool, job, lease, confirm, linked, state, aged, snapshot, accepted, reads,
                     slips, misses>>
    BY <1>2 DEF Roster!Leave, Roster!work, Roster!table
  <2>. QED  BY <2>2, <2>3, <2>4, ListMoves
<1>. QED  BY <1>1, <1>2

\* What happens outside the attempts.
LEMMA LinksKeep ==
  ASSUME RosterInv, NEW c \in Characters,
         Roster!Link(c) \/ Roster!SeedFreshLink(c) \/ Roster!AbsenceAges(c)
  PROVE  RosterInv'
<1>1. /\ linked' \in SUBSET Characters /\ linked \subseteq linked'
      /\ aged' \in SUBSET Characters /\ aged \subseteq aged'
      /\ \A d \in aged' \ aged : state[d] = "missing"
      /\ state' \in [Characters -> Roster!States]
      /\ \A d \in Characters : state'[d] # state[d] => state[d] # "missing" /\ state'[d] # "missing"
      /\ UNCHANGED <<fc, changes, read, lock, cool, job, lease, confirm, snapshot, accepted, reads, slips,
                     misses>>
  <2>1. /\ linked \in SUBSET Characters /\ aged \in SUBSET Characters
        /\ state \in [Characters -> Roster!States]
        /\ c \notin linked => state[c] # "missing"
    BY DEF RosterInv, RosterTypes, SuspectsOK
  <2>2. {"present", "absent", "none"} \subseteq Roster!States
    BY DEF Roster!States
  <2>3. CASE Roster!Link(c)
    BY <2>1, <2>2, <2>3 DEF Roster!Link, Roster!world, Roster!work
  <2>4. CASE Roster!SeedFreshLink(c)
    BY <2>1, <2>2, <2>4 DEF Roster!SeedFreshLink, Roster!world, Roster!work
  <2>5. CASE Roster!AbsenceAges(c)
    BY <2>1, <2>5 DEF Roster!AbsenceAges, Roster!world, Roster!work
  <2>. QED  BY <2>3, <2>4, <2>5
<1>2. RosterTypes'
  BY <1>1 DEF RosterInv, RosterTypes
<1>3. \A v \in Readers : ReadOK(read[v])'
  BY <1>1 DEF RosterInv, ReadOK, Steady
<1>4. PlansOK'
  BY <1>1 DEF RosterInv, PlansOK
<1>5. SuspectsOK'
  <2>1. \A d \in Characters : state'[d] = "missing" <=> state[d] = "missing"
    BY <1>1
  <2>2. \A d \in aged' : d \in Characters /\ state[d] = "missing"
    BY <1>1 DEF RosterInv, SuspectsOK
  <2>. QED  BY <1>1, <2>1, <2>2 DEF RosterInv, SuspectsOK
<1>. QED  BY <1>2, <1>3, <1>4, <1>5 DEF RosterInv

LEMMA RowsKeep ==
  ASSUME RosterInv,
         \/ Roster!Refresh \/ Roster!Confirm \/ Roster!CooldownEnds \/ Roster!LeaseExpires \/ Roster!LoseLock
  PROVE  RosterInv'
<1>1. /\ UNCHANGED <<fc, changes, read, linked, state, aged, snapshot, accepted, reads, misses>>
      /\ lock' \in {lock, Unheld} /\ cool' \in BOOLEAN /\ lease' \in {lease, Unheld}
      /\ slips' \in 0..MaxSlips
      /\ \/ job' = job /\ confirm' = confirm
         \/ job' = Roster!Asked /\ lease' = lease /\ confirm' \in BOOLEAN
  <2>0. cool \in BOOLEAN /\ slips \in 0..MaxSlips /\ confirm \in BOOLEAN /\ MaxSlips \in Nat
    BY RosterConstants DEF RosterInv, RosterTypes
  <2>1. CASE Roster!Refresh
    BY <2>0, <2>1 DEF Roster!Refresh, Roster!world, Roster!table
  <2>2. CASE Roster!Confirm
    BY <2>0, <2>2 DEF Roster!Confirm, Roster!world, Roster!table
  <2>3. CASE Roster!CooldownEnds
    BY <2>0, <2>3 DEF Roster!CooldownEnds, Roster!world, Roster!table, Roster!work
  <2>4. CASE Roster!LeaseExpires
    BY <2>0, <2>4 DEF Roster!LeaseExpires, Roster!world, Roster!table
  <2>5. CASE Roster!LoseLock
    BY <2>0, <2>5 DEF Roster!LoseLock, Roster!world, Roster!table, Roster!work
  <2>. QED  BY <2>1, <2>2, <2>3, <2>4, <2>5
<1>2. /\ Roster!Asked \in [status : {"idle", "queued", "running"}, again : BOOLEAN]
      /\ IF job.status = "running" THEN Roster!Asked.status = "running" /\ Roster!Asked.again
         ELSE Roster!Asked.status = "queued"
  BY DEF RosterInv, RosterTypes, Roster!Asked, Roster!Queued
<1>3. RosterTypes'
  BY <1>1, <1>2 DEF RosterInv, RosterTypes
<1>4. \A v \in Readers : ReadOK(read[v])'
  BY <1>1 DEF RosterInv, ReadOK, Steady
<1>5. PlansOK'
  BY <1>1, RosterConstants DEF RosterInv, PlansOK
<1>6. SuspectsOK'
  <2>1. CASE job' = job /\ confirm' = confirm
    BY <1>1, <2>1 DEF RosterInv, SuspectsOK
  <2>2. CASE job' = Roster!Asked /\ lease' = lease
    BY <1>1, <1>2, <2>2 DEF RosterInv, SuspectsOK
  <2>. QED  BY <1>1, <2>1, <2>2
<1>. QED  BY <1>3, <1>4, <1>5, <1>6 DEF RosterInv

LEMMA RosterStart == Roster!Init => RosterInv
<1>. SUFFICES ASSUME Roster!Init PROVE RosterInv
  OBVIOUS
<1>1. fc \in Seq(Characters) /\ Roster!ToSet(fc) \in SUBSET Characters
  <2>1. fc \in Seq(Characters)
    BY RosterConstants DEF Roster!Init
  <2>. QED  BY <2>1, ListSets
<1>2. RosterTypes
  <2>1. Roster!Queued \in [status : {"idle", "queued", "running"}, again : BOOLEAN] /\ "none" \in Roster!States
    BY DEF Roster!Queued, Roster!States
  <2>2. read \in [Readers -> Attempts]
    BY UnreadType DEF Roster!Init
  <2>3. /\ changes \in 0..MaxJoins /\ reads \in 0..MaxReads /\ slips \in 0..MaxSlips
        /\ accepted \in 0..reads
    BY RosterConstants DEF Roster!Init
  <2>4. /\ linked \in SUBSET Characters /\ snapshot \in SUBSET Characters /\ aged \in SUBSET Characters
        /\ state \in [Characters -> Roster!States] /\ misses \in [Characters -> 0..2]
    BY <1>1, <2>1 DEF Roster!Init
  <2>5. /\ lock \in Readers \cup {Unheld} /\ lease \in Readers \cup {Unheld}
        /\ cool \in BOOLEAN /\ confirm \in BOOLEAN
        /\ job \in [status : {"idle", "queued", "running"}, again : BOOLEAN]
    BY <2>1 DEF Roster!Init
  <2>. QED  BY <1>1, <2>2, <2>3, <2>4, <2>5 DEF RosterTypes
<1>3. \A w \in Readers : read[w].stage = "none"
  BY UnreadType DEF Roster!Init
<1>4. \A w \in Readers : ReadOK(read[w])
  BY <1>3 DEF ReadOK
<1>5. PlansOK
  BY <1>3 DEF PlansOK
<1>6. SuspectsOK
  BY DEF Roster!Init, SuspectsOK
<1>. QED  BY <1>2, <1>4, <1>5, <1>6 DEF RosterInv

LEMMA RosterSteps ==
  ASSUME RosterInv, Roster!Next
  PROVE  RosterInv' /\ accepted' >= accepted
<1>0. accepted \in Nat
  BY RosterConstants DEF RosterInv, RosterTypes
<1>1. ASSUME NEW c \in Characters, Roster!Join(c) \/ Roster!Leave(c)
      PROVE  RosterInv' /\ accepted' = accepted
  BY <1>1, MovesKeep DEF Roster!Join, Roster!Leave, Roster!table
<1>2. ASSUME NEW c \in Characters,
             Roster!Link(c) \/ Roster!SeedFreshLink(c) \/ Roster!AbsenceAges(c)
      PROVE  RosterInv' /\ accepted' = accepted
  BY <1>2, LinksKeep DEF Roster!Link, Roster!SeedFreshLink, Roster!AbsenceAges
<1>3. ASSUME NEW w \in Readers, Roster!Step(w) \/ Roster!Fail(w)
      PROVE  RosterInv' /\ accepted' >= accepted
  <2>0. \/ Roster!Claim(w) \/ Roster!Begin(w) \/ Roster!Waits(w) \/ Roster!CompanyBefore(w)
        \/ Roster!ReadPage(w) \/ Roster!CompanyAfter(w) \/ Roster!Reject(w) \/ Roster!Plan(w)
        \/ Roster!PlanLost(w) \/ Roster!Publish(w) \/ Roster!Complete(w) \/ Roster!Fail(w)
    BY <1>3, Zenon DEF Roster!Step
  <2>1. CASE Roster!Publish(w)
    BY <2>1, PublishKeeps
  <2>2. CASE ~Roster!Publish(w)
    <3>1. RosterInv'
      BY <2>0, <2>2, EndsEarly, ClaimKeeps, BeginKeeps, CountKeeps, PageKeeps, CompletesRead, PlanKeeps,
         CompleteKeeps, Zenon
    <3>2. accepted' = accepted
      BY <2>0, <2>2 DEF Roster!Claim, Roster!Begin, Roster!Waits, Roster!CompanyBefore, Roster!ReadPage,
         Roster!CompanyAfter, Roster!Reject, Roster!Plan, Roster!PlanLost, Roster!Complete, Roster!Fail,
         Roster!table
    <3>. QED  BY <1>0, <3>1, <3>2
  <2>. QED  BY <2>1, <2>2
<1>4. ASSUME \/ Roster!Refresh \/ Roster!Confirm \/ Roster!CooldownEnds \/ Roster!LeaseExpires
             \/ Roster!LoseLock
      PROVE  RosterInv' /\ accepted' = accepted
  BY <1>4, RowsKeep DEF Roster!Refresh, Roster!Confirm, Roster!CooldownEnds, Roster!LeaseExpires,
     Roster!LoseLock, Roster!table
<1>5. \/ \E c \in Characters : Roster!Join(c) \/ Roster!Leave(c)
      \/ \E c \in Characters : Roster!Link(c) \/ Roster!SeedFreshLink(c) \/ Roster!AbsenceAges(c)
      \/ \E w \in Readers : Roster!Step(w) \/ Roster!Fail(w)
      \/ Roster!Refresh \/ Roster!Confirm \/ Roster!CooldownEnds \/ Roster!LeaseExpires \/ Roster!LoseLock
  BY Zenon DEF Roster!Next
<1>. QED  BY <1>0, <1>1, <1>2, <1>3, <1>4, <1>5

\* What the invariant says of a roster that was observed, a suspicion and the types.
LEMMA RosterSafe ==
  ASSUME RosterInv
  PROVE  Roster!TypeOK /\ Roster!MissingIsConfirmed /\ Roster!OneChangeHidesNobody
<1>1. Roster!TypeOK
  <2>1. \A w \in Readers : read[w].stage \in Roster!Stages /\ read[w].next \in 1..(MaxPages + 1)
    BY DEF RosterInv, RosterTypes, Attempts
  <2>2. {lock, lease} \subseteq Readers \cup {Unheld}
    BY DEF RosterInv, RosterTypes
  <2>3. \A c \in aged : state[c] = "missing"
    BY DEF RosterInv, SuspectsOK
  <2>. QED  BY <2>1, <2>2, <2>3 DEF RosterInv, RosterTypes, Roster!TypeOK
<1>2. Roster!MissingIsConfirmed
  BY DEF RosterInv, RosterTypes, SuspectsOK, Roster!MissingIsConfirmed
<1>3. Roster!OneChangeHidesNobody
  <2>1. ASSUME NEW w \in Readers, read[w].stage = "observed", read[w].there \ Roster!Listed(w) # {}
        PROVE  read[w].changed >= 2
    <3>1. read[w].changed = 2
      BY <2>1 DEF RosterInv, ReadOK, Roster!Listed
    <3>. QED  BY <3>1
  <2>. QED  BY <2>1 DEF Roster!OneChangeHidesNobody
<1>. QED  BY <1>1, <1>2, <1>3

\* A member goes missing on two rosters, one change on the Lodestone while a roster is read
\* hides nobody, a departure follows a roster that lacked the member too, and accepted rosters
\* follow one another in the order they were read, for every list, page size and number of
\* workers.
THEOREM AbsencesStayConfirmed == PartsSpec => AbsencesAreConfirmed
<1>1. PartsInit => RosterInv
  BY RosterStart DEF PartsInit
<1>2. RosterInv /\ [PartsNext]_<<part, vars, overrideVars, rosterVars>> =>
        RosterInv' /\ accepted' >= accepted
  <2>. SUFFICES ASSUME RosterInv, [PartsNext]_<<part, vars, overrideVars, rosterVars>>
       PROVE  RosterInv' /\ accepted' >= accepted
    OBVIOUS
  <2>1. CASE Roster!Next
    BY <2>1, RosterSteps
  <2>2. CASE UNCHANGED rosterVars
    <3>1. UNCHANGED <<fc, changes, read, lock, cool, job, lease, linked, state, aged, snapshot, accepted,
                      reads, confirm, slips, misses>>
      BY <2>2 DEF rosterVars
    <3>2. accepted \in Nat
      BY RosterConstants DEF RosterInv, RosterTypes
    <3>3. RosterTypes' /\ PlansOK' /\ SuspectsOK'
      BY <3>1 DEF RosterInv, RosterTypes, PlansOK, SuspectsOK
    <3>4. (\A w \in Readers : ReadOK(read[w]))'
      BY <3>1 DEF RosterInv, ReadOK, Steady
    <3>. QED  BY <3>1, <3>2, <3>3, <3>4 DEF RosterInv
  <2>. QED  BY <2>1, <2>2, Zenon DEF PartsNext
<1>3. RosterInv => Roster!TypeOK /\ Roster!MissingIsConfirmed /\ Roster!OneChangeHidesNobody
  BY RosterSafe
<1>4. accepted' >= accepted => [accepted' >= accepted]_(Roster!vars)
  OBVIOUS
<1>5. RosterInv => [\A c \in Characters :
                      state[c] = "missing" /\ state'[c] = "absent" => misses[c] >= 1]_(Roster!vars)
  BY DEF RosterInv, SuspectsOK
<1>. QED
  BY <1>1, <1>2, <1>3, <1>4, <1>5, PTL
     DEF PartsSpec, AbsencesAreConfirmed, Roster!ObservationsAdvance, Roster!SuspicionIsConsecutive

=============================================================================
