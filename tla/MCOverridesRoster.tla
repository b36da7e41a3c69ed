---------------------------- MODULE MCOverridesRoster ----------------------------
(***************************************************************************)
(* One run for Overrides, RosterSync and ChannelSecurity.  part says which of  *)
(* them a behavior is about; the others stay in one initial state.  /setup     *)
(* overrides runs in a server with one category, a child synced with it and a  *)
(* posting channel, each private to a role TaruBot does not hold.  The FC has  *)
(* one character and a newcomer, or four on two pages.  Onboarding secures a   *)
(* lobby, an officer room, a category with a child and a channel that may be   *)
(* created in it, beside the updates channel; a custom role sees what is       *)
(* private or is kept out of what is shown, and may become the guest role.     *)
(***************************************************************************)
EXTENDS ChannelSecurity, TLC

CONSTANTS
  Cat, Child, Post, Crew, Bot,   \* a category, a synced child, a posting channel, two roles
  Layout, PostsIn, Namings, Shape,   \* the server of /setup overrides, its settings and its roles
  Parts,                 \* the parts this run is about
  MaxRuns, MaxOthers,    \* bounds of Overrides
  Characters, Founders,  \* characters, and the rosters an FC may start with
  Readers, Unheld,       \* workers that may hold the job roster:<fc>, or nobody
  PageSize, MaxPages,    \* of the Lodestone's list
  MaxJoins, MaxReads, MaxSlips, Budget    \* bounds of RosterSync

-----------------------------------------------------------------------------
VARIABLES part, disc, delivered, admin, configured, revision, recorded, parked, run, runs, spent,
          judged, untouched, quiet
overrideVars == <<disc, delivered, admin, configured, revision, recorded, parked, run, runs, spent,
                  judged, untouched, quiet>>

MCStaffOnly == [p \in {Everyone, Crew} |-> IF p = Crew THEN [allow |-> {"view"}, deny |-> {}]
                                          ELSE [allow |-> {}, deny |-> {"view"}]]
MCInitial == [c \in {Cat, Child, Post} |->
  [category |-> c = Cat, parent |-> IF c = Child THEN Cat ELSE None, overwrites |-> MCStaffOnly,
   obfuscated |-> FALSE, fetched |-> FALSE]]
MCPosting == {Post}
MCSettings == {{Post}, {Child}}
MCGuild == [held |-> {Bot}, botRole |-> Bot,
  perms |-> [r \in {Everyone, Bot} |-> {"view", "send", "history"} \cup
    IF r = Bot THEN {"manage", "connect", "mention", "administrator"} ELSE {}]]
Overriding == INSTANCE Overrides WITH
  Initial <- Layout, Posting <- PostsIn, Settings <- Namings, Guild <- Shape,
  MaxChanges <- MaxOthers, cache <- delivered
ASSUME OverridesAssumption == Overriding!Apart /\ Overriding!ServerOK

-----------------------------------------------------------------------------
VARIABLES fc, changes, read, lock, cool, job, lease, linked, state, aged, snapshot, accepted,
          reads, confirm, slips, misses
rosterVars == <<fc, changes, read, lock, cool, job, lease, linked, state, aged, snapshot, accepted,
                reads, confirm, slips, misses>>

FewAndMany == {<<"a">>, <<"a", "b", "c", "d">>}
Roster == INSTANCE RosterSync WITH
  Workers <- Readers, Nobody <- Unheld, MaxChanges <- MaxJoins, MaxFaults <- MaxSlips,
  faults <- slips
ASSUME RosterAssumption == Roster!ConstantsOK
ReaderSymmetry == Permutations(Readers)

\* Bound: what changes, is read and fails in one behavior of RosterSync.
In(list) == {list[i] : i \in DOMAIN list}
WithinBudget ==
  \/ In(fc) \cup linked \subseteq {"a", "x"} /\ changes + slips < 3 /\ changes + reads + slips < Budget
  \/ changes < 2 /\ reads < 1 /\ slips = 0 /\ linked = {} /\ "b" \in In(fc)

-----------------------------------------------------------------------------
InOrder == <<"category", "lobby", "room", "child", "later">>
Places == {"lobby", "room", "category", "child", "later", "updates"}
ParentOf == [c \in Places |-> IF c \in {"child", "later"} THEN "category" ELSE None]
RankOf == Everyone :> 1 @@ "other" :> 2 @@ "member" :> 3 @@ "guest" :> 4 @@ "officer" :> 5
          @@ "leader" :> 6 @@ Self :> 7 @@ "someone" :> 8
Bound(guest) == [member |-> "member", guest |-> guest, officer |-> "officer", leader |-> "leader"]
AccessRoles == {Bound("guest"), Bound("other")}
E(id, allow, deny) == [id |-> id, entry |-> [allow |-> allow, deny |-> deny]]
Plain == [id \in DOMAIN RankOf |-> [allow |-> {}, deny |-> {}]]
Entries(entries) ==
  [id \in DOMAIN RankOf |-> IF \E e \in entries : e.id = id THEN (CHOOSE e \in entries : e.id = id).entry
                            ELSE Plain[id]]
KeptTo == Entries({E(Everyone, {}, {"view"}), E("other", {"view"}, {}), E(Self, {"view"}, {})})
ShownTo == Entries({E(Everyone, {"view"}, {}), E("other", {}, {"view"})})
At(category, child, updates) ==
  [c \in Places |-> IF c = "category" THEN category ELSE IF c = "child" THEN child
                    ELSE IF c = "later" THEN None ELSE IF c = "room" THEN KeptTo
                    ELSE IF c = "updates" THEN updates ELSE Plain]
OneServer == At(Plain, KeptTo, Plain)
Servers == {OneServer, At(KeptTo, KeptTo, KeptTo), At(KeptTo, ShownTo, KeptTo), At(ShownTo, Plain, KeptTo)}
CreatedAs == {ShownTo}
EditsOf == [c \in Places |->
  IF c = "category" THEN {E(Everyone, {}, {}), E(Everyone, {}, {"view"})}
  ELSE IF c = "child" THEN {E(Everyone, {"view"}, {}), E("member", {"view", "send"}, {}),
                            E(Self, {}, {"view"})}
  ELSE IF c = "lobby" THEN {E(Everyone, {}, {"view"})} ELSE {}]
-----------------------------------------------------------------------------
PartsInit ==
  /\ part \in Parts
  /\ Overriding!Init /\ (part = "overrides" \/ configured = PostsIn)
  /\ Roster!Init /\ (part = "roster" \/ (Len(fc) = 1 /\ linked = {}))
  /\ Init /\ guild.access = Bound("guest") /\ (part = "onboarding" \/ chan = OneServer)
PartsNext ==
  \/ part = "overrides" /\ Overriding!Next /\ UNCHANGED <<part, vars, rosterVars>>
  \/ part = "roster" /\ Roster!Next /\ UNCHANGED <<part, vars, overrideVars>>
  \/ part = "onboarding" /\ Next /\ UNCHANGED <<part, overrideVars, rosterVars>>
PartsSpec == PartsInit /\ [][PartsNext]_<<part, vars, overrideVars, rosterVars>>

\* TaruBot's own denies are remembered, and no run writes over what someone denied
\* (Overrides).
DeniesAreKept ==
  [](part = "overrides" => Overriding!DeniesRemembered) /\ Overriding!DeniesStand
\* A synced child stays synced, a run adds every entry that was missing, and no deny is
\* undone or forgotten (Overrides).
OverridesAreKept ==
  [](part = "overrides" => Overriding!SyncKept /\ Overriding!RunRepairsAll) /\ DeniesAreKept
\* A member goes missing on two rosters in a row, one change on the Lodestone during a
\* read hides nobody, and accepted rosters follow one another in the order they were
\* read (RosterSync).
AbsencesAreConfirmed ==
  /\ [](part = "roster" => Roster!TypeOK /\ Roster!MissingIsConfirmed /\ Roster!OneChangeHidesNobody)
  /\ Roster!ObservationsAdvance /\ Roster!SuspicionIsConsecutive
\* A departure takes two rosters (RosterSync).
DepartureTakesTwoRosters == Roster!DepartureTakesTwoRosters
=============================================================================
