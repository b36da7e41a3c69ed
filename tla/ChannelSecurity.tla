--------------------------- MODULE ChannelSecurity ---------------------------
(***************************************************************************)
(* Onboarding's channel policy (application/guild-access.ts, discord/         *)
(* guild-access.ts, /setup onboarding in application/role-administration.ts): *)
(* setup remembers which channels are private and turns the policy on; the   *)
(* job channels.access reads the server, writes each channel entry by entry  *)
(* and checks the result, while other people change channels, roles and      *)
(* settings, and the gateway tells TaruBot with a delay.                     *)
(*                                                                         *)
(* The rooms exist; choosing and creating them, the lobby's move out of a     *)
(* category, deleted channels, reading the roles and paused effects are left  *)
(* out.                                                                     *)
(***************************************************************************)
EXTENDS ChannelAccess, Sequences, FiniteSetsExt

CONSTANTS
  Channels, Lobby, Room,      \* all channels, the two rooms of onboarding
  Updates,                    \* the community-updates channel, outside onboarding
  Parent, None,               \* the category of each channel, or None
  Ordered,                    \* the managed channels in the order of a pass, categories first
  Rank,                       \* the order of IDs
  BaseBits,                   \* what @everyone's role grants besides View Channel
  BotBits,                    \* what TaruBot's role grants
  Bindings,                   \* the access roles /config may choose
  First,                      \* what the channels may look like before onboarding
  Made,                       \* what a new channel may look like that is not synced with its category
  Edits,                      \* [Channels -> what other people may write: an ID and its entry]
  Nobody,                     \* a member without an entry of their own
  MaxEdits, MaxFaults         \* bounds: changes by others, crashes and lost leases

Default == "default"
\* The rooms and the updates channel exist and are top-level, and so is every category.
PlacesOK ==
  /\ {Lobby, Room, Updates} \subseteq Channels /\ Updates \notin {Lobby, Room}
  /\ Ordered \in Seq(Channels \ {Updates}) /\ Channels = {Ordered[n] : n \in DOMAIN Ordered} \cup {Updates}
  /\ Default \notin Channels
  /\ Parent \in [Channels -> Channels \cup {None}] /\ None \notin Channels
  /\ \A c \in {Lobby, Room, Updates} : Parent[c] = None
  /\ \A c \in Channels : Parent[c] # None => Parent[Parent[c]] = None
ConstantsOK ==
  /\ PartiesOK /\ Bindings \subseteq Access /\ Nobody \in People /\ PlacesOK
  /\ Rank \in [Ids -> Nat] /\ \A id, other \in Ids : Rank[id] = Rank[other] => id = other
  /\ BaseBits \cup BotBits \subseteq Bits /\ None \notin Overwrites \cup Access
  /\ First \subseteq [Channels -> Overwrites \cup {None}]
  /\ \A ows \in First, c \in {Lobby, Room, Updates} : ows[c] # None
  /\ Made \subseteq Overwrites /\ Edits \in [Channels -> SUBSET [id : Ids, entry : Entry]]
  /\ {MaxEdits, MaxFaults} \subseteq Nat
ASSUME SecurityAssumption == ConstantsOK

VARIABLES
  chan,      \* Discord: each channel's overwrites, or None before it is created
  open,      \* Discord: @everyone's role grants View Channel
  cache,     \* the bot's copy of both, updated by its fetches and by events
  news,      \* an event of a change is on its way
  guild,     \* guilds: [enabled, revision, access]
  policy,    \* channel_access_policies: "unseen", "staff" or "open" for each channel
  row, newer,    \* the job channel-access:<guild>, and whether its generation rose while it runs
  setup,     \* /setup onboarding: [step, revision, enabled, seen]
  pass,      \* GuildAccess.reconcile
  private,   \* history: channels that were private when they appeared
  given,     \* history: private channels that other people opened
  meddled,   \* history: channels others changed since the pass last decided by their entries
  edits, faults

discord == <<chan, open, cache, news>>
histories == <<private, given, meddled>>
vars == <<discord, guild, policy, row, newer, setup, pass, histories, edits, faults>>

There == {c \in Channels : chan[c] # None}
Managed == There \ {Updates}
Base(isOpen) == BaseBits \cup IF isOpen THEN {"view"} ELSE {}
SeesNow(held, own, c) == Sees(Base(open), held, own, chan[c])
OpenTo(access, c) == VisibleTo(access, Base(open), chan[c])
OwnBits(ows) == Permissions(Base(open) \cup BotBits, {}, Self, ows)
Manages(ows) == {"view", "manage"} \subseteq OwnBits(ows)
Fetched == [seen |-> chan, open |-> open]
NoSetup == [step |-> "idle", revision |-> 0, enabled |-> FALSE, seen |-> None]
NoPass == [step |-> "idle", revision |-> 0, access |-> None, owner |-> FALSE, seen |-> None,
           todo |-> {}, from |-> None, left |-> {}]

-----------------------------------------------------------------------------
(* The queue and the events *)

\* secureGuildChannels(): enqueue() of the one key.
Queued == IF row = "running" THEN row' = row /\ newer' = TRUE ELSE row' = "queued" /\ newer' = newer
QueuedIfOn == IF guild.enabled THEN Queued ELSE UNCHANGED <<row, newer>>
\* channelChanged() and roleChanged().
Event ==
  /\ news /\ news' = FALSE /\ cache' = Fetched
  /\ QueuedIfOn
  /\ UNCHANGED <<chan, open, guild, policy, setup, pass, histories, edits, faults>>

-----------------------------------------------------------------------------
(* Other people, at Discord *)

\* An entry of a category is written to the channels that are synced with it.
Written(c, id, entry) ==
  LET synced == {d \in There : Parent[d] = c /\ chan[d] = chan[c]}
  IN  [d \in Channels |-> IF d = c \/ d \in synced THEN [chan[d] EXCEPT ![id] = entry] ELSE chan[d]]
\* What others open is theirs: a channel they show, or one synced with an ordinary category.
Shares(ows, c) == Parent[c] # None /\ ows[c] = ows[Parent[c]] /\ Parent[c] \notin private \ given
Given(ows, isOpen, access) ==
  {c \in There : (c \in private /\ VisibleTo(access, Base(isOpen), ows[c])) \/ Shares(ows, c)}
Meddles == edits < MaxEdits /\ edits' = edits + 1 /\ news' = TRUE
Edit(c) ==
  /\ c \in There /\ Meddles
  /\ \E e \in Edits[c] :
       /\ chan[c][e.id] # e.entry /\ chan' = Written(c, e.id, e.entry)
       /\ given' = given \cup Given(chan', open, guild.access)
  /\ meddled' = meddled \cup {d \in Channels : chan'[d] # chan[d]}
  /\ UNCHANGED <<open, cache, guild, policy, row, newer, setup, pass, private, faults>>
\* A new channel is synced with its category or has entries of its own.
Create(c) ==
  /\ c \notin There /\ Meddles
  /\ \E ows \in Made \cup {chan[p] : p \in There \cap {Parent[c]}} :
       /\ chan' = [chan EXCEPT ![c] = ows]
       /\ private' = IF InitiallyStaffOnly(guild.access, Base(open), ows, guild.enabled, FALSE)
                     THEN private \cup {c} ELSE private
       /\ given' = given \cup Given(chan', open, guild.access) \cup {d \in {c} : Shares(chan', d)}
  /\ meddled' = meddled \cup {c}
  /\ UNCHANGED <<open, cache, guild, policy, row, newer, setup, pass, faults>>
\* Someone gives @everyone View Channel again.
OpenDefault ==
  /\ ~open /\ Meddles /\ open' = TRUE
  /\ given' = given \cup Given(chan, TRUE, guild.access) /\ meddled' = There
  /\ UNCHANGED <<chan, cache, guild, policy, row, newer, setup, pass, private, faults>>

-----------------------------------------------------------------------------
(* Settings *)

LockFree == setup.step = "idle" /\ pass.step = "idle"

\* configure(): other access roles.
Configure ==
  /\ edits < MaxEdits /\ edits' = edits + 1
  /\ \E access \in Bindings \ {guild.access} :
       /\ guild' = [guild EXCEPT !.access = access, !.revision = @ + 1]
       /\ given' = given \cup Given(chan, open, access)
  /\ QueuedIfOn
  /\ UNCHANGED <<discord, policy, setup, pass, private, meddled, faults>>

\* remember(): the first observation stays, except for the two rooms; categories first.
StaffOnly(known, access, seen, isOpen, already, c, staffParent) ==
  IF c = Lobby THEN FALSE
  ELSE IF c = Room THEN TRUE
  ELSE IF known[c] # "unseen" THEN known[c] = "staff"
  ELSE InitiallyStaffOnly(access, Base(isOpen), seen[c], already, staffParent)
Word(staff) == IF staff THEN "staff" ELSE "open"
\* A mutant: what was seen last counts.
RememberLast(known, access, seen, isOpen, already) ==
  [c \in Channels |->
     IF seen[c] = None \/ c = Updates THEN known[c]
     ELSE Word(c = Room \/ (c # Lobby /\ InitiallyStaffOnly(access, Base(isOpen), seen[c], already, FALSE)))]
Remember(known, access, seen, isOpen, already) ==
  LET judged(c) == seen[c] # None /\ c # Updates
      top == [c \in Channels |->
                IF judged(c) /\ Parent[c] = None
                THEN Word(StaffOnly(known, access, seen, isOpen, already, c, FALSE)) ELSE known[c]]
  IN  [c \in Channels |->
         IF judged(c) /\ Parent[c] # None
         THEN Word(StaffOnly(known, access, seen, isOpen, already, c, top[Parent[c]] = "staff")) ELSE top[c]]

\* /setup onboarding reads the settings under the lock ...
SetupReads ==
  /\ LockFree /\ edits < MaxEdits /\ edits' = edits + 1
  /\ setup' = [step |-> "reads", revision |-> guild.revision, enabled |-> guild.enabled, seen |-> None]
  /\ UNCHANGED <<discord, guild, policy, row, newer, pass, histories, faults>>
\* ... then the channels; each must be one it can manage ...
SetupObserves ==
  /\ setup.step = "reads"
  /\ IF \A c \in Managed : Manages(chan[c])
     THEN setup' = [setup EXCEPT !.step = "observed", !.seen = Fetched] /\ cache' = Fetched
     ELSE setup' = NoSetup /\ cache' = cache
  /\ UNCHANGED <<chan, open, news, guild, policy, row, newer, pass, histories, edits, faults>>
\* ... and commits if the settings are still the ones it read.
SetupCommits ==
  /\ setup.step = "observed" /\ setup' = NoSetup
  /\ IF guild.revision = setup.revision
     THEN /\ guild' = [guild EXCEPT !.enabled = TRUE, !.revision = @ + 1]
          /\ policy' = Remember(policy, guild.access, setup.seen.seen, setup.seen.open, setup.enabled)
          /\ Queued
     ELSE UNCHANGED <<guild, policy, row, newer>>
  /\ UNCHANGED <<discord, pass, histories, edits, faults>>

-----------------------------------------------------------------------------
(* reconcile() *)

Audience(c) == IF c = Lobby THEN "lobby" ELSE IF c = Room \/ policy[c] = "staff" THEN "officers" ELSE "members"
To(c, ows) == Desired(pass.access, Audience(c), ows)
\* currentGuard(): the attempt's lease, the revision and the switch.
Guarded == pass.owner /\ guild.revision = pass.revision /\ guild.enabled
\* The attempt ends; a row that is no longer its own stays as it is.
Leaves(status) ==
  /\ pass' = NoPass
  /\ row' = IF ~pass.owner THEN row ELSE IF newer THEN "queued" ELSE status
  /\ newer' = IF pass.owner THEN FALSE ELSE newer
\* superseded, transient and busy are tried again; blocked is not.
TriedAgain == Leaves("queued")
\* A mutant: a refused pass counts as done.
BlockedEnds == Leaves("ended")
Blocked == Leaves("blocked")
\* The lobby, the default, then every channel the pass has seen, categories first.
Course == <<Lobby, Default>> \o Ordered
Targets(seen) == {n \in DOMAIN Course : n <= 2 \/ seen[Course[n]] # None}
Continues(next) == pass' = next /\ UNCHANGED <<row, newer>>
NextTarget == Continues([pass EXCEPT !.step = "check", !.todo = @ \ {Min(@)}, !.from = None, !.left = {}])
Quiet == UNCHANGED <<guild, policy, setup, private, given, edits, faults>>
Target == Course[Min(pass.todo)]

Claim ==
  /\ row = "queued" /\ LockFree
  /\ IF guild.enabled
     THEN /\ row' = "running" /\ newer' = FALSE
          /\ pass' = [NoPass EXCEPT !.step = "begin", !.revision = guild.revision, !.access = guild.access, !.owner = TRUE]
     ELSE row' = "ended" /\ UNCHANGED <<newer, pass>>
  /\ Quiet /\ UNCHANGED <<discord, meddled>>
\* begin(): one inventory for the pass, refused as a whole if a channel is out of reach.
Begin ==
  /\ pass.step = "begin"
  /\ IF ~Guarded THEN TriedAgain /\ UNCHANGED <<cache, meddled>>
     ELSE IF \E c \in Managed : ~Manages(chan[c]) THEN Blocked /\ cache' = Fetched /\ meddled' = meddled
     ELSE /\ Continues([pass EXCEPT !.step = "persist", !.seen = Fetched])
          /\ cache' = Fetched /\ meddled' = {}
  /\ Quiet /\ UNCHANGED <<chan, open, news>>
Persist ==
  /\ pass.step = "persist"
  /\ IF guild.revision = pass.revision
     THEN /\ policy' = Remember(policy, pass.access, pass.seen.seen, pass.seen.open, TRUE)
          /\ Continues([pass EXCEPT !.step = "check", !.seen = None, !.todo = Targets(pass.seen.seen)])
     ELSE TriedAgain /\ policy' = policy
  /\ UNCHANGED <<discord, guild, setup, histories, edits, faults>>

\* channelWithin(): nothing to do by the cache, or a fresh read.
Check ==
  /\ pass.step = "check" /\ pass.todo # {} /\ Target # Default
  /\ LET ows == cache.seen[Target]
     IN  IF ows = To(Target, ows) THEN NextTarget
         ELSE Continues([pass EXCEPT !.step = "fetch"])
  /\ Quiet /\ UNCHANGED <<discord, meddled>>
Fetch ==
  /\ pass.step = "fetch"
  /\ IF Guarded /\ "view" \in OwnBits(chan[Target])
     THEN /\ Continues([pass EXCEPT !.step = "plan", !.from = chan[Target]])
          /\ cache' = [cache EXCEPT !.seen[Target] = chan[Target]] /\ meddled' = meddled \ {Target}
     ELSE (IF Guarded THEN Blocked ELSE TriedAgain) /\ UNCHANGED <<cache, meddled>>
  /\ Quiet /\ UNCHANGED <<chan, open, news>>
\* A mutant: each changed entry at once.
WritesAtOnce(from, to) == {3} \X Changed(from, to)
\* overwriteWrites(): the step and the entry of each write.
Writes(from, to) ==
  ({1} \X OwnWrites(from, to)) \cup ({2} \X MeetWrites(from, to)) \cup ({3} \X FinalWrites(from, to))
Goal == To(Target, pass.from)
Plan ==
  /\ pass.step = "plan"
  /\ IF ~Guarded THEN TriedAgain
     ELSE IF pass.from = Goal THEN NextTarget
     ELSE Continues([pass EXCEPT !.step = "write", !.left = Writes(pass.from, Goal)])
  /\ Quiet /\ UNCHANGED <<discord, meddled>>
NextWrite ==
  CHOOSE w \in pass.left : \A v \in pass.left : w[1] < v[1] \/ (w[1] = v[1] /\ Rank[w[2]] <= Rank[v[2]])
Value(w) == IF w[1] = 2 THEN Meet(pass.from[w[2]], Goal[w[2]]) ELSE Goal[w[2]]
\* Discord takes a write from whom the channel lets manage it.
Write ==
  /\ pass.step = "write" /\ pass.left # {}
  /\ IF Manages(chan[Target])
     THEN /\ chan' = Written(Target, NextWrite[2], Value(NextWrite)) /\ news' = TRUE
          /\ LET left == pass.left \ {NextWrite}
             IN  Continues([pass EXCEPT !.left = left, !.step = IF left = {} THEN "readback" ELSE @])
     ELSE Blocked /\ UNCHANGED <<chan, news>>
  /\ Quiet /\ UNCHANGED <<open, cache, meddled>>
Readback ==
  /\ pass.step = "readback"
  /\ cache' = [cache EXCEPT !.seen[Target] = chan[Target]]
  /\ IF chan[Target] = To(Target, chan[Target]) THEN NextTarget ELSE TriedAgain
  /\ Quiet /\ UNCHANGED <<chan, open, news, meddled>>

\* restrictEveryone(): the updates channel must not depend on the default.
Inherits(ows) == "view" \notin ows[Everyone].allow \cup ows[Everyone].deny
Preserved(seen) == Inherits(seen[Updates])
CheckDefault ==
  /\ pass.step = "check" /\ pass.todo # {} /\ Target = Default
  /\ IF Preserved(cache.seen) \/ ~cache.open THEN NextTarget
     ELSE IF Guarded THEN Continues([pass EXCEPT !.step = "refresh"]) ELSE TriedAgain
  /\ Quiet /\ UNCHANGED <<discord, meddled>>
Refresh ==
  /\ pass.step = "refresh" /\ cache' = Fetched /\ meddled' = meddled \ {Updates}
  /\ IF Preserved(chan) \/ ~open THEN NextTarget ELSE Continues([pass EXCEPT !.step = "close"])
  /\ Quiet /\ UNCHANGED <<chan, open, news>>
Close ==
  /\ pass.step = "close"
  /\ IF ~Guarded THEN TriedAgain /\ UNCHANGED <<open, news>>
     ELSE IF Preserved(cache.seen) THEN NextTarget /\ UNCHANGED <<open, news>>
     ELSE open' = FALSE /\ news' = TRUE /\ Continues([pass EXCEPT !.step = "closed"])
  /\ Quiet /\ UNCHANGED <<chan, cache, meddled>>
Closed ==
  /\ pass.step = "closed" /\ cache' = [cache EXCEPT !.open = open]
  /\ IF open THEN TriedAgain ELSE NextTarget
  /\ Quiet /\ UNCHANGED <<chan, open, news, meddled>>

\* The pass ends on a fresh snapshot with nothing left to do.
AllSettled ==
  /\ open => Preserved(chan)
  /\ \A c \in Managed : policy[c] # "unseen" /\ chan[c] = To(c, chan[c])
Verify ==
  /\ pass.step = "check" /\ pass.todo = {}
  /\ IF ~Guarded THEN TriedAgain /\ UNCHANGED <<cache, meddled>>
     ELSE /\ cache' = Fetched /\ meddled' = {}
          /\ IF \E c \in Managed : ~Manages(chan[c]) THEN Blocked
             ELSE IF AllSettled THEN Continues([pass EXCEPT !.step = "ending"])
             ELSE TriedAgain
  /\ Quiet /\ UNCHANGED <<chan, open, news>>
Ends == pass.step = "ending" /\ Leaves("ended") /\ Quiet /\ UNCHANGED <<discord, meddled>>

-----------------------------------------------------------------------------
(* Faults *)

\* The worker stalls past its lease; it goes on until its next guard.
Lapse ==
  /\ row = "running" /\ faults < MaxFaults /\ faults' = faults + 1
  /\ row' = "queued" /\ newer' = FALSE /\ pass' = [pass EXCEPT !.owner = FALSE]
  /\ UNCHANGED <<discord, guild, policy, setup, histories, edits>>
\* The bot stops between any two steps, misses events, and queues a pass at its start.
Restart ==
  /\ faults < MaxFaults /\ faults' = faults + 1
  /\ pass' = NoPass /\ setup' = NoSetup /\ news' = FALSE /\ cache' = Fetched /\ newer' = FALSE
  /\ row' = IF guild.enabled \/ row = "running" THEN "queued" ELSE row
  /\ UNCHANGED <<chan, open, guild, policy, histories, edits>>

-----------------------------------------------------------------------------
Init ==
  /\ chan \in First /\ open = TRUE /\ cache = Fetched /\ news = FALSE
  /\ \E access \in Bindings : guild = [enabled |-> FALSE, revision |-> 0, access |-> access]
  /\ policy = [c \in Channels |-> "unseen"] /\ row = "none" /\ newer = FALSE
  /\ setup = [NoSetup EXCEPT !.step = "reads"] /\ pass = NoPass
  /\ private = {c \in Managed : ~OpenTo(guild.access, c)} /\ given = {} /\ meddled = {}
  /\ edits = 0 /\ faults = 0

Others == \/ \E c \in Channels : Edit(c) \/ Create(c)
          \/ OpenDefault \/ Configure
Reconcile ==
  \/ Claim \/ Begin \/ Persist \/ Check \/ Fetch \/ Plan \/ Write \/ Readback
  \/ CheckDefault \/ Refresh \/ Close \/ Closed \/ Verify \/ Ends
Next ==
  \/ Others \/ Event \/ SetupReads \/ SetupObserves \/ SetupCommits
  \/ Reconcile \/ Lapse \/ Restart
Spec == Init /\ [][Next]_vars

-----------------------------------------------------------------------------
(* Properties *)

Snapshot == [seen : [Channels -> Overwrites \cup {None}], open : BOOLEAN]
Steps == {"idle", "begin", "persist", "check", "fetch", "plan", "write", "readback", "refresh",
          "close", "closed", "ending"}
TypeOK ==
  /\ chan \in [Channels -> Overwrites \cup {None}] /\ open \in BOOLEAN
  /\ cache \in Snapshot /\ news \in BOOLEAN
  /\ guild \in [enabled : BOOLEAN, revision : Nat, access : Bindings]
  /\ policy \in [Channels -> {"unseen", "staff", "open"}]
  /\ row \in {"none", "queued", "running", "ended", "blocked"} /\ newer \in BOOLEAN
  /\ setup \in [step : {"idle", "reads", "observed"}, revision : Nat, enabled : BOOLEAN,
                seen : Snapshot \cup {None}]
  /\ pass \in [step : Steps, revision : Nat, access : Bindings \cup {None}, owner : BOOLEAN,
               seen : Snapshot \cup {None}, todo : SUBSET DOMAIN Course,
               from : Overwrites \cup {None}, left : SUBSET ((1..3) \X Ids)]
  /\ {private, given, meddled} \subseteq SUBSET Channels /\ {edits, faults} \subseteq Nat

\* Once the row has succeeded and no event is on its way, every managed channel is as
\* the policy wants it, whatever others changed during the pass and whatever was lost
\* with a restart.
NothingIsLeftOpen ==
  row = "ended" /\ ~news /\ guild.enabled =>
    /\ open => Preserved(chan)
    /\ \A c \in Managed : policy[c] # "unseen" /\ Settled(guild.access, Audience(c), chan[c])

\* "Existing private areas are treated as staff-only from the moment onboarding first
\* sees them, and stay that way" (site/src/content/docs/admin/setup.md): nothing that
\* TaruBot does shows a private channel to members, guests or newcomers, and no
\* ordinary channel is taken for a private one.
PrivateStaysPrivate ==
  /\ \A c \in (private \cap Managed) \ (given \cup {Lobby}) : ~OpenTo(guild.access, c)
  /\ \A c \in Managed \ (private \cup given \cup {Room}) : policy[c] = "staff" => Parent[c] # None /\ policy[Parent[c]] = "staff"

\* While a channel that nobody else touches is being written, no member may do more in
\* it than before the writes or after them, and TaruBot can finish.
Subjects == {h \in SUBSET Roles : Cardinality(h) <= 2}
WritesStayWithin ==
  pass.step \in {"write", "readback"} /\ Target \notin meddled =>
    /\ \A h \in Subjects, p \in People :
         \/ Permissions(Base(open), h, p, chan[Target]) \subseteq Permissions(Base(open), h, p, pass.from)
         \/ Permissions(Base(open), h, p, chan[Target]) \subseteq Permissions(Base(open), h, p, Goal)
    /\ Manages(pass.from) => Manages(chan[Target])
\* The default closes only behind a lobby that newcomers see, and nothing TaruBot does
\* changes what anyone sees of the updates channel.
ClosesSafely ==
  /\ open /\ ~open' /\ Lobby \notin meddled => SeesNow({}, Nobody, Lobby)'
  /\ <<open, chan>>' # <<open, chan>> /\ edits' = edits /\ Updates \notin meddled =>
       \A h \in Subjects, p \in People : SeesNow(h, p, Updates)' = SeesNow(h, p, Updates)
\* While a channel is being written nobody may do more in it than before or after, the
\* default closes behind an open lobby, and the updates channel is left as it was.
WritesAreSafe == [](TypeOK /\ WritesStayWithin) /\ [][ClosesSafely]_vars
=============================================================================
