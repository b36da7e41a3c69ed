--------------------------- MODULE SelfRolesProofs ---------------------------
(***************************************************************************)
(* Proofs about self-service roles, for any number of members, officers and  *)
(* tabs: the rules of the menu (RoleMenu), that an access role is never on   *)
(* it, that a pick-one category never gains a second role, and that members   *)
(* hold what they were told. About the parts that run beside them, too: every  *)
(* link of a character has its controller's proof (Verification), a manager's   *)
(* pause is lifted by a manager alone (Moderation), and a member's own nickname *)
(* comes back (NicknameSync).                                                  *)
(***************************************************************************)
EXTENDS MCMembers, FiniteSetTheorems, SequenceTheorems, TLAPS

-----------------------------------------------------------------------------
(* The rules of the menu *)

\* Whatever the menu is by the time the job runs: in a category the job adds a role
\* to, the plan leaves the member with no more than planSelfRoles() counted there,
\* so a category at its limit never gains one - provided no access role is on the
\* menu, which is what assertNotOnMenu() keeps.
THEOREM PlanStaysWithinLimit ==
  ASSUME NEW list \in Menus, NEW choice \in [chosen : SUBSET Roles, offered : SUBSET Roles],
         NEW held \in SUBSET Roles, NEW untouchable \in SUBSET (Roles \cup {None}),
         untouchable \cap OnMenu(list) = {},
         NEW r \in PlanAdd(list, choice, held, untouchable)
  PROVE  LET c == list.roles[r].at
             after == (held \ PlanRemove(list, choice, held, untouchable))
                        \cup PlanAdd(list, choice, held, untouchable)
         IN /\ after \cap Options(list, c) \subseteq After(list, choice, held, c)
            /\ ~OverLimit(list, choice, held, c)
<1> DEFINE c == list.roles[r].at
           add == PlanAdd(list, choice, held, untouchable)
           remove == PlanRemove(list, choice, held, untouchable)
<1>1. r \in Roles /\ c # None /\ Listed(list, r) /\ ~OverLimit(list, choice, held, c)
  BY DEF PlanAdd, Planned, Listed, StateOf, Differs
<1>2. ASSUME NEW x \in (held \ remove) \cup add, x \in Options(list, c)
      PROVE  x \in choice.chosen \cup (held \ choice.offered)
  <2>1. x \in Roles /\ list.roles[x].at = c /\ Listed(list, x)
    BY <1>1, <1>2 DEF Options, Listed, StateOf
  <2>2. CASE x \in add
    BY <2>2 DEF PlanAdd
  <2>3. CASE x \in held /\ x \notin remove /\ x \in choice.offered /\ x \notin choice.chosen
    <3>1. x \in Differs(choice, held)
      BY <2>3 DEF Differs
    <3>2. x \notin untouchable
      BY <1>1, <2>1 DEF OnMenu
    <3>3. x \in remove
      BY <1>1, <2>1, <2>3, <3>1, <3>2 DEF PlanRemove, Planned
    <3>4. QED  BY <2>3, <3>3
  <2>4. QED  BY <1>2, <2>2, <2>3
<1>3. QED  BY <1>1, <1>2 DEF After

\* A save never undoes what a waiting change asks in a category the save left alone,
\* and asks exactly what its form asked in the others (mergeChoice()).
THEOREM MergeBuildsOnWaiting ==
  ASSUME NEW list \in Menus,
         NEW waiting \in [chosen : SUBSET Roles, offered : SUBSET Roles],
         NEW next \in [chosen : SUBSET Roles, offered : SUBSET Roles],
         next.chosen \subseteq next.offered, next.offered \subseteq OnMenu(list),
         NEW r \in OnMenu(list)
  PROVE  LET merged == MergeChoice(list, waiting, next)
             changed == list.roles[r].at \in CategoriesOf(list, next.offered)
         IN /\ ~changed => /\ (r \in merged.offered) <=> (r \in waiting.offered)
                           /\ r \in waiting.offered =>
                                ((r \in merged.chosen) <=> (r \in waiting.chosen))
            /\ changed => /\ (r \in merged.offered) <=> (r \in next.offered)
                          /\ (r \in merged.chosen) <=> (r \in next.chosen)
<1> DEFINE merged == MergeChoice(list, waiting, next)
           changed == list.roles[r].at \in CategoriesOf(list, next.offered)
<1>1. r \in next.offered => changed
  BY DEF CategoriesOf
<1>2. /\ merged.chosen = (waiting.chosen \cap Kept(list, waiting, next)) \cup next.chosen
      /\ merged.offered = Kept(list, waiting, next) \cup next.offered
  BY DEF MergeChoice
<1>3. (r \in Kept(list, waiting, next)) <=> (r \in waiting.offered /\ ~changed)
  BY DEF Kept
<1>4. QED  BY <1>1, <1>2, <1>3

\* However officers edit, a role is listed by at most one category that exists: a
\* menu stays well formed through every operation applyOperation() applies.
THEOREM EditsKeepMenusWellFormed ==
  ASSUME NEW list, WellFormed(list), NEW c \in Cats, NEW r \in Roles, NEW max \in Nat,
         NEW state \in States \ {"gone"}, NEW row \in {"remove", "removal_only", "offer"}
  PROVE  /\ WellFormed(Reset(list)) /\ WellFormed(PublishAll(list)) /\ WellFormed(Create(list, c, max))
         /\ WellFormed(Delete(list, c))
         /\ list.cats[c].state # "gone" =>
              /\ WellFormed(Edit(list, c, max)) /\ WellFormed(SetState(list, c, state))
              /\ AddAllowed(list, r, c) => WellFormed(Add(list, r, c))
         /\ WellFormed(EditRow(list, r, row))
<1> USE NoneAssumption
<1>1. /\ list.cats \in [Cats -> [state : States, max : Nat]]
      /\ list.roles \in [Roles -> [at : Cats \cup {None}, only : BOOLEAN]]
      /\ \A x \in Roles : list.roles[x].at # None => list.cats[list.roles[x].at].state # "gone"
  BY DEF WellFormed, Menus, OnMenu
<1>2. ASSUME NEW cats \in [Cats -> [state : States, max : Nat]],
             NEW roles \in [Roles -> [at : Cats \cup {None}, only : BOOLEAN]],
             \A x \in Roles : roles[x].at # None => cats[roles[x].at].state # "gone"
      PROVE  WellFormed([cats |-> cats, roles |-> roles])
  BY <1>2 DEF WellFormed, Menus, OnMenu
<1>3. WellFormed(Reset(list))
  <2>1. Gone \in [state : States, max : Nat] /\ Off \in [at : Cats \cup {None}, only : BOOLEAN] /\ Off.at = None
    BY DEF Gone, Off, States, Unlimited
  <2>2. QED  BY <2>1, <1>2 DEF Reset, EmptyMenu
<1>4. WellFormed(PublishAll(list))
  <2> DEFINE cats == [x \in Cats |-> IF list.cats[x].state = "draft"
                            THEN [state |-> "published", max |-> list.cats[x].max] ELSE list.cats[x]]
  <2>1. cats \in [Cats -> [state : States, max : Nat]]
    BY <1>1 DEF States
  <2>2. \A x \in Cats : cats[x].state = "gone" => list.cats[x].state = "gone"
    OBVIOUS
  <2>3. \A x \in Roles : list.roles[x].at # None => cats[list.roles[x].at].state # "gone"
    BY <1>1, <2>2
  <2> HIDE DEF cats
  <2>4. WellFormed([cats |-> cats, roles |-> list.roles])
    BY <1>1, <1>2, <2>1, <2>3
  <2>5. QED  BY <2>4 DEF PublishAll, cats
<1>5. ASSUME NEW s \in States \ {"gone"}, NEW n \in Nat
      PROVE  WellFormed(WithCategory(list, c, s, n))
  <2> DEFINE cats == [list.cats EXCEPT ![c] = [state |-> s, max |-> n]]
  <2>1. cats \in [Cats -> [state : States, max : Nat]]
    BY <1>1
  <2>2. \A x \in Roles : list.roles[x].at # None => cats[list.roles[x].at].state # "gone"
    BY <1>1
  <2> HIDE DEF cats
  <2>3. WellFormed([cats |-> cats, roles |-> list.roles])
    BY <1>1, <1>2, <2>1, <2>2
  <2>4. QED  BY <2>3 DEF WithCategory, cats
<1>6. ASSUME NEW place \in [at : Cats \cup {None}, only : BOOLEAN],
             place.at # None => list.cats[place.at].state # "gone"
      PROVE  WellFormed(WithRole(list, r, place))
  <2> DEFINE roles == [list.roles EXCEPT ![r] = place]
  <2>1. roles \in [Roles -> [at : Cats \cup {None}, only : BOOLEAN]]
    BY <1>1
  <2>2. \A x \in Roles : roles[x].at # None => list.cats[roles[x].at].state # "gone"
    BY <1>1, <1>6
  <2> HIDE DEF roles
  <2>3. WellFormed([cats |-> list.cats, roles |-> roles])
    BY <1>1, <1>2, <2>1, <2>2
  <2>4. QED  BY <2>3 DEF WithRole, roles
<1>7. WellFormed(Create(list, c, max))
  BY <1>5 DEF Create, States
<1>8. WellFormed(Delete(list, c))
  <2> DEFINE cats == [list.cats EXCEPT ![c] = Gone]
             roles == [x \in Roles |-> IF list.roles[x].at = c THEN Off ELSE list.roles[x]]
  <2>1. cats \in [Cats -> [state : States, max : Nat]]
    BY <1>1 DEF Gone, States, Unlimited
  <2>2. roles \in [Roles -> [at : Cats \cup {None}, only : BOOLEAN]]
    BY <1>1 DEF Off
  <2>3. \A x \in Roles : roles[x].at # None => cats[roles[x].at].state # "gone"
    BY <1>1 DEF Off
  <2> HIDE DEF cats, roles
  <2>4. WellFormed([cats |-> cats, roles |-> roles])
    BY <1>2, <2>1, <2>2, <2>3
  <2>5. QED  BY <2>4 DEF Delete, cats, roles
<1>9. list.cats[c].state # "gone" =>
        /\ WellFormed(Edit(list, c, max)) /\ WellFormed(SetState(list, c, state))
        /\ AddAllowed(list, r, c) => WellFormed(Add(list, r, c))
  <2>1. list.cats[c].state \in States /\ list.cats[c].max \in Nat
    BY <1>1
  <2>2. list.cats[c].state # "gone" => WellFormed(WithRole(list, r, [at |-> c, only |-> FALSE]))
    BY <1>6
  <2>3. QED  BY <2>1, <2>2, <1>5 DEF Edit, SetState, Add
<1>10. WellFormed(EditRow(list, r, row))
  <2> DEFINE place == IF row = "remove" THEN Off ELSE [at |-> list.roles[r].at, only |-> row = "removal_only"]
  <2>1. place \in [at : Cats \cup {None}, only : BOOLEAN] /\ place.at \in {None, list.roles[r].at}
    BY <1>1 DEF Off
  <2>2. place.at # None => list.cats[place.at].state # "gone"
    BY <1>1, <2>1
  <2> HIDE DEF place
  <2>3. WellFormed(WithRole(list, r, place))
    BY <1>6, <2>1, <2>2
  <2>4. QED  BY <2>3 DEF EditRow, place
<1>11. QED  BY <1>3, <1>4, <1>7, <1>8, <1>9, <1>10

-----------------------------------------------------------------------------
(* The inductive invariant *)

Choices == [chosen : SUBSET Roles, offered : SUBSET Roles]
Marks == {"any", "yes", "no"}
EditRows ==
  [kind : EditKinds \cup {"none"}, role : Roles \cup {None}, cat : Cats \cup {None},
   to : States \cup {"none"}, revision : Nat, view : SUBSET Roles,
   untouchable : SUBSET (Roles \cup {None})]
SaveRows ==
  [stage : {"none", "sent", "read"}, cat : Cats \cup {None}, seen : SUBSET Roles,
   picked : SUBSET Roles, next : Choices, held : SUBSET Roles, moved : SUBSET Roles]
JobRows == [status : {"none", "queued", "running", "blocked", "disabled"}, choice : Choices,
            newer : BOOLEAN]
RunRows ==
  [stage : {"none", "claimed", "planned", "writing"}, choice : Choices, add : SUBSET Roles,
   remove : SUBSET Roles, left : SUBSET Roles, given : SUBSET Roles,
   one : SUBSET (Roles \X Roles), access : BOOLEAN]

MenuTyped ==
  /\ WellFormed(menu) /\ revision \in Nat /\ effects \in BOOLEAN
  /\ bound \in Roles \cup {None} /\ retired \subseteq Roles /\ spent \in Nat
  /\ edits \in [Officers -> EditRows]
WorldTyped ==
  /\ check \in [Roles -> Verdicts] /\ holds \in [Members -> SUBSET Roles]
  /\ access \in [Members -> BOOLEAN]
  /\ pass \in [Members -> [due : BOOLEAN, busy : BOOLEAN, remove : SUBSET Roles]]
WorkTyped ==
  /\ saves \in [Members -> [Tabs -> SaveRows]]
  /\ jobs \in [Members -> JobRows] /\ lately \in [Members -> BOOLEAN]
  /\ runs \in [Members -> RunRows] /\ told \in [Members -> [Roles -> Marks]]

\* An edit in flight names what the page showed.
EditsOK ==
  \A o \in Officers : edits[o].kind # "none" =>
    edits[o].role \in Roles /\ edits[o].cat \in Cats /\ edits[o].to \in States \ {"gone"}

\* A row runs while an attempt works for it; only a running row has a newer choice.
RowOK(m) ==
  /\ jobs[m].status = "none" => jobs[m].choice = NoChoice
  /\ runs[m].stage # "none" <=> jobs[m].status = "running"
  /\ jobs[m].newer => jobs[m].status = "running"
  /\ jobs[m].status = "running" /\ ~jobs[m].newer => runs[m].choice = jobs[m].choice
\* A save asks only for what it covers.  What it read of the member is what they hold,
\* unless a change of theirs waits or ended lately or the role moved in Discord.
SavesOK(m) ==
  \A t \in Tabs :
    /\ saves[m][t].next.chosen \subseteq saves[m][t].next.offered
    /\ saves[m][t].stage = "read" =>
         \/ Waiting(m) \/ lately[m]
         \/ \A r \in Roles \ saves[m][t].moved : r \in saves[m][t].held <=> r \in holds[m]
\* What the member was told of a role is what the waiting row asks of it, or what they
\* hold when that says nothing of it; a running attempt touches no other role.
ToldOK(m) ==
  \A r \in Roles : told[m][r] # "any" =>
    /\ r \in jobs[m].choice.offered => (told[m][r] = "yes" <=> r \in jobs[m].choice.chosen)
    /\ r \notin jobs[m].choice.offered => (told[m][r] = "yes" <=> r \in holds[m])
    /\ runs[m].stage # "none" /\ r \in runs[m].choice.offered => r \in jobs[m].choice.offered
\* The attempt's plan is about its choice; what it neither has to write nor left alone
\* is as the member was told.
PlanOK(m) ==
  /\ runs[m].add \subseteq runs[m].choice.chosen \cap runs[m].choice.offered
  /\ runs[m].remove \subseteq runs[m].choice.offered \ runs[m].choice.chosen
  /\ runs[m].stage \in {"planned", "writing"} /\ ~jobs[m].newer =>
       \A r \in runs[m].choice.offered \ (runs[m].add \cup runs[m].remove \cup runs[m].left) :
         told[m][r] # "any" => (told[m][r] = "yes" <=> r \in holds[m])
\* Of a pick-one category one role at most is to be added, and the others the member
\* holds are to be removed first, were left alone or were given since.
OneOK(m) ==
  \A r \in runs[m].add, x \in Roles : <<r, x>> \in runs[m].one =>
    x \notin runs[m].add
    /\ (x \in holds[m] => x \in runs[m].remove \cup runs[m].left \cup runs[m].given)

MemberOK(m) == RowOK(m) /\ SavesOK(m) /\ ToldOK(m) /\ PlanOK(m) /\ OneOK(m)

Typed == MenuTyped /\ WorldTyped /\ WorkTyped
IInv == Typed /\ EditsOK /\ MenuNeverBindsAccess /\ \A m \in Members : MemberOK(m)

LEMMA Rows ==
  ASSUME Typed, NEW m \in Members
  PROVE  /\ holds[m] \in SUBSET Roles /\ saves[m] \in [Tabs -> SaveRows] /\ jobs[m] \in JobRows
         /\ lately[m] \in BOOLEAN /\ runs[m] \in RunRows /\ told[m] \in [Roles -> Marks]
         /\ NoChoice \in Choices /\ NoJob \in JobRows /\ NoRun \in RunRows /\ NoSave \in SaveRows
  BY DEF Typed, WorldTyped, WorkTyped, NoChoice, NoJob, NoRun, NoSave, Choices, JobRows, RunRows, SaveRows

LEMMA InitInv == Init => IInv
  <1> SUFFICES ASSUME Init PROVE IInv
    OBVIOUS
  <1>1. NoChoice \in Choices /\ NoJob \in JobRows /\ NoRun \in RunRows /\ NoSave \in SaveRows
        /\ NoEdit \in EditRows /\ NoEdit.kind = "none"
    BY DEF NoChoice, NoJob, NoRun, NoSave, NoEdit, Choices, JobRows, RunRows, SaveRows, EditRows
  <1>2. MenuTyped
    <2>1. menu \in Menus /\ \A c \in Cats : menu.cats[c].state = "published"
      BY DEF Init, Menus, States, Unlimited
    <2>2. WellFormed(menu)
      BY <2>1 DEF WellFormed, OnMenu, Menus
    <2> QED
      BY <1>1, <2>2 DEF Init, MenuTyped
  <1>3. WorldTyped /\ WorkTyped
    BY <1>1 DEF Init, WorldTyped, WorkTyped, Verdicts, Marks
  <1>4. EditsOK /\ MenuNeverBindsAccess
    BY <1>1, NoneAssumption DEF Init, EditsOK, MenuNeverBindsAccess, OnMenu
  <1>5. ASSUME NEW m \in Members PROVE MemberOK(m)
    BY <1>5 DEF Init, MemberOK, RowOK, SavesOK, ToldOK, PlanOK, OneOK, NoJob, NoRun, NoSave, NoChoice
  <1> QED
    BY <1>2, <1>3, <1>4, <1>5 DEF IInv, Typed

-----------------------------------------------------------------------------
(* The menu and its edits *)

\* What an edit in flight would make of the menu is well formed, and lists no role more
\* than the one it adds.
LEMMA AppliedKeeps ==
  ASSUME Typed, EditsOK, NEW o \in Officers, edits[o].kind \notin {"none", "reset"},
         ~NamesGone(edits[o]),
         edits[o].kind = "add" => AddAllowed(menu, edits[o].role, edits[o].cat)
  PROVE  /\ WellFormed(Applied(edits[o]))
         /\ OnMenu(Applied(edits[o])) \subseteq
              OnMenu(menu) \cup (IF edits[o].kind = "add" THEN {edits[o].role} ELSE {})
  <1> DEFINE e == edits[o]
  <1>1. e.role \in Roles /\ e.cat \in Cats /\ e.to \in States \ {"gone"} /\ e.kind \in EditKinds \ {"reset"}
    BY DEF EditsOK, Typed, MenuTyped, EditRows
  <1>2. WellFormed(menu) /\ menu.roles \in [Roles -> [at : Cats \cup {None}, only : BOOLEAN]]
    BY DEF Typed, MenuTyped, WellFormed, Menus
  <1>3. CASE e.kind = "add"
    <2>1. WellFormed(Add(menu, e.role, e.cat))
      BY <1>1, <1>2, <1>3, EditsKeepMenusWellFormed DEF NamesGone
    <2>2. OnMenu(Add(menu, e.role, e.cat)) \subseteq OnMenu(menu) \cup {e.role}
      BY <1>1, <1>2 DEF Add, WithRole, OnMenu
    <2> QED
      BY <1>3, <2>1, <2>2 DEF Applied
  <1>4. CASE e.kind \in {"remove", "removal_only", "offer"}
    <2>1. WellFormed(EditRow(menu, e.role, e.kind))
      BY <1>1, <1>2, <1>4, EditsKeepMenusWellFormed
    <2>2. OnMenu(EditRow(menu, e.role, e.kind)) \subseteq OnMenu(menu)
      BY <1>1, <1>2 DEF EditRow, WithRole, OnMenu, Off
    <2>3. Applied(e) = EditRow(menu, e.role, e.kind)
      BY <1>4 DEF Applied
    <2> QED
      BY <1>4, <2>1, <2>2, <2>3
  <1>5. CASE e.kind = "state"
    <2>1. WellFormed(SetState(menu, e.cat, e.to))
      BY <1>1, <1>2, <1>5, EditsKeepMenusWellFormed DEF NamesGone
    <2>2. OnMenu(SetState(menu, e.cat, e.to)) = OnMenu(menu)
      BY DEF SetState, WithCategory, OnMenu
    <2> QED
      BY <1>5, <2>1, <2>2 DEF Applied
  <1>6. CASE e.kind = "delete"
    <2>1. WellFormed(Delete(menu, e.cat))
      BY <1>1, <1>2, EditsKeepMenusWellFormed
    <2>2. OnMenu(Delete(menu, e.cat)) \subseteq OnMenu(menu)
      BY DEF Delete, OnMenu, Off
    <2> QED
      BY <1>6, <2>1, <2>2 DEF Applied
  <1> QED
    BY <1>1, <1>3, <1>4, <1>5, <1>6 DEF EditKinds

\* Neither an officer's edit nor a change of the Member role puts an access role on the
\* menu; nothing else writes to either.
LEMMA MenuStep ==
  ASSUME Typed, EditsOK, MenuNeverBindsAccess, [Next]_vars
  PROVE  MenuTyped' /\ EditsOK' /\ MenuNeverBindsAccess'
  <1>0. MenuTyped /\ edits \in [Officers -> EditRows] /\ OnMenu(menu) \subseteq Roles
    BY DEF Typed, MenuTyped, OnMenu
  <1>1. ASSUME NEW o \in Officers, EditSends(o) PROVE MenuTyped' /\ EditsOK' /\ MenuNeverBindsAccess'
    <2>1. PICK kind \in EditKinds, r \in Roles, c \in Cats, to \in States \ {"gone"} :
            edits' = [edits EXCEPT ![o] = [kind |-> kind, role |-> r, cat |-> c, to |-> to,
              revision |-> revision, view |-> {x \in Roles : check[x] = "ok"},
              untouchable |-> Untouchable]]
      BY <1>1 DEF EditSends
    <2>2. edits'[o] \in EditRows /\ edits'[o].role = r /\ edits'[o].cat = c /\ edits'[o].to = to
      BY <1>0, <2>1 DEF MenuTyped, EditRows, Untouchable
    <2>3. edits' \in [Officers -> EditRows] /\ EditsOK'
      BY <1>0, <2>1, <2>2 DEF EditsOK
    <2> QED
      BY <1>0, <1>1, <2>3 DEF EditSends, Spend, saved, MenuTyped, MenuNeverBindsAccess
  <1>2. ASSUME NEW o \in Officers, EditCommits(o)
        PROVE  MenuTyped' /\ EditsOK' /\ MenuNeverBindsAccess'
    <2> DEFINE e == edits[o]
    <2>1. NoEdit \in EditRows /\ NoEdit.kind = "none"
      BY DEF NoEdit, EditRows
    <2>2. edits' \in [Officers -> EditRows] /\ EditsOK'
      BY <1>0, <1>2, <2>1 DEF EditCommits, EditsOK
    <2>3. CASE menu' = menu /\ revision' = revision
      BY <1>0, <1>2, <2>2, <2>3 DEF EditCommits, MenuTyped, MenuNeverBindsAccess
    <2>4. CASE menu' # menu \/ revision' # revision
      <3>1. /\ menu' = Applied(e) /\ revision' = revision + 1 /\ ~NamesGone(e)
            /\ e.kind \notin {"none", "reset"}
            /\ e.kind = "add" => AddAllowed(menu, e.role, e.cat) /\ AddPasses(e)
        BY <1>2, <2>4 DEF EditCommits
      <3>2. WellFormed(menu') /\ OnMenu(menu') \subseteq OnMenu(menu) \cup
                                   (IF e.kind = "add" THEN {e.role} ELSE {})
        BY <3>1, AppliedKeeps
      <3>3. bound' = bound /\ UNCHANGED <<retired, effects, spent>>
        BY <1>2 DEF EditCommits
      <3>4. bound \notin OnMenu(menu')
        BY <3>1, <3>2 DEF AddPasses, Untouchable, MenuNeverBindsAccess
      <3>5. MenuNeverBindsAccess'
        BY <3>3, <3>4 DEF MenuNeverBindsAccess
      <3> QED
        BY <1>0, <2>2, <3>1, <3>2, <3>3, <3>5 DEF MenuTyped
    <2> QED
      BY <2>3, <2>4
  <1>3. CASE Configure
    BY <1>0, <1>3 DEF Configure, Spend, MenuTyped, EditsOK, MenuNeverBindsAccess
  <1>4. CASE SwitchEffects
    BY <1>0, <1>4 DEF SwitchEffects, Spend, MenuTyped, EditsOK, MenuNeverBindsAccess
  <1>5. CASE UNCHANGED <<saved, edits>> /\ spent' \in Nat
    BY <1>0, <1>5 DEF saved, MenuTyped, EditsOK, MenuNeverBindsAccess
  <1>6. ASSUME NEW m \in Members, NEW t \in Tabs, SaveSends(m, t) \/ SaveReads(m, t) \/ SaveCommits(m, t)
        PROVE  UNCHANGED <<saved, edits>> /\ spent' \in Nat
    <2>1. CASE SaveSends(m, t)
      BY <1>0, <2>1 DEF SaveSends, Spend, MenuTyped
    <2>2. CASE SaveReads(m, t)
      BY <1>0, <2>2 DEF SaveReads, MenuTyped
    <2>3. CASE SaveCommits(m, t)
      BY <1>0, <2>3 DEF SaveCommits, MenuTyped
    <2> QED
      BY <1>6, <2>1, <2>2, <2>3
  <1>7. ASSUME NEW m \in Members,
               \/ OfficerGives(m) \/ AccessChanges(m) \/ LongAgo(m) \/ Claim(m) \/ JobPlans(m)
               \/ JobChecks(m) \/ JobBlocked(m) \/ Unblocked(m)
        PROVE  UNCHANGED <<saved, edits>> /\ spent' \in Nat
    BY <1>0, <1>7 DEF OfficerGives, AccessChanges, LongAgo, Claim, JobPlans, JobChecks, JobBlocked,
       Unblocked, Spend, MenuTyped
  <1>8. ASSUME NEW m \in Members,
               \/ JobRemoves(m) \/ JobAdds(m) \/ JobEnds(m) \/ JobFails(m) \/ JobGivesUp(m)
               \/ Expires(m) \/ PassReads(m) \/ PassRemoves(m) \/ PassEnds(m)
        PROVE  UNCHANGED <<saved, edits>> /\ spent' \in Nat
    BY <1>0, <1>8 DEF JobRemoves, JobAdds, JobEnds, JobFails, JobGivesUp, Expires, PassReads,
       PassRemoves, PassEnds, Spend, MenuTyped
  <1>9. CASE RoleChanges
    BY <1>0, <1>5, <1>9 DEF RoleChanges, Spend, MenuTyped
  <1>10. CASE UNCHANGED vars
    BY <1>0, <1>5, <1>10 DEF vars, saved, MenuTyped
  <1> QED
    BY <1>1, <1>2, <1>3, <1>4, <1>5, <1>6, <1>7, <1>8, <1>9, <1>10 DEF Next

-----------------------------------------------------------------------------
(* One member's roles *)

\* A step that writes to the rows of m alone.
Touches(m) ==
  /\ holds' = [holds EXCEPT ![m] = holds'[m]] /\ holds'[m] \in SUBSET Roles
  /\ saves' = [saves EXCEPT ![m] = saves'[m]] /\ saves'[m] \in [Tabs -> SaveRows]
  /\ jobs' = [jobs EXCEPT ![m] = jobs'[m]] /\ jobs'[m] \in JobRows
  /\ lately' = [lately EXCEPT ![m] = lately'[m]] /\ lately'[m] \in BOOLEAN
  /\ runs' = [runs EXCEPT ![m] = runs'[m]] /\ runs'[m] \in RunRows
  /\ told' = [told EXCEPT ![m] = told'[m]] /\ told'[m] \in [Roles -> Marks]

\* What a step does to one member's rows is all it does to the invariant.
MembersOK == /\ holds \in [Members -> SUBSET Roles] /\ WorkTyped
             /\ \A m \in Members : MemberOK(m)

LEMMA OneMember ==
  ASSUME IInv, NEW m \in Members, Touches(m), MemberOK(m)'
  PROVE  MembersOK'
  <1>1. /\ holds \in [Members -> SUBSET Roles] /\ saves \in [Members -> [Tabs -> SaveRows]]
        /\ jobs \in [Members -> JobRows] /\ lately \in [Members -> BOOLEAN]
        /\ runs \in [Members -> RunRows] /\ told \in [Members -> [Roles -> Marks]]
    BY DEF IInv, Typed, WorldTyped, WorkTyped
  <1>2. holds' \in [Members -> SUBSET Roles] /\ WorkTyped'
    BY <1>1 DEF Touches, WorkTyped
  <1>3. ASSUME NEW x \in Members \ {m} PROVE MemberOK(x)'
    <2>1. /\ holds'[x] = holds[x] /\ saves'[x] = saves[x] /\ jobs'[x] = jobs[x]
          /\ lately'[x] = lately[x] /\ runs'[x] = runs[x] /\ told'[x] = told[x]
      BY <1>1 DEF Touches
    <2>2. MemberOK(x)
      BY DEF IInv
    <2> QED
      BY <2>1, <2>2 DEF MemberOK, RowOK, SavesOK, Waiting, ToldOK, PlanOK, OneOK
  <1> QED
    BY <1>2, <1>3 DEF MembersOK

\* A step that writes to no member's rows.
LEMMA NoMember ==
  ASSUME IInv, UNCHANGED <<holds, saves, jobs, lately, runs, told>>
  PROVE  MembersOK'
  BY DEF IInv, Typed, WorldTyped, WorkTyped, MembersOK, MemberOK, RowOK, SavesOK, Waiting, ToldOK,
     PlanOK, OneOK

\* The functions the rows are in, for the steps below.
Shape == /\ holds \in [Members -> SUBSET Roles] /\ saves \in [Members -> [Tabs -> SaveRows]]
         /\ jobs \in [Members -> JobRows] /\ lately \in [Members -> BOOLEAN]
         /\ runs \in [Members -> RunRows] /\ told \in [Members -> [Roles -> Marks]]
LEMMA Shapes == IInv => Shape
  BY DEF IInv, Typed, WorldTyped, WorkTyped, Shape

\* claim() takes the row as it stands; the dispatcher parks it while effects are off.
LEMMA ClaimKeeps == ASSUME IInv, NEW m \in Members, Claim(m) PROVE MembersOK'
  <1>1. Shape /\ MemberOK(m) /\ jobs[m] \in JobRows /\ runs[m] \in RunRows
    BY Shapes, Rows DEF IInv
  <1>2. /\ UNCHANGED <<holds, saves, lately, told>> /\ jobs[m].status = "queued"
        /\ runs[m].stage = "none"
    BY DEF Claim, world
  <1>3. CASE effects
    <2>1. /\ jobs' = [jobs EXCEPT ![m].status = "running"]
          /\ runs' = [runs EXCEPT ![m] = [NoRun EXCEPT !.stage = "claimed", !.choice = jobs[m].choice]]
      BY <1>3 DEF Claim
    <2>2. /\ jobs'[m] = [jobs[m] EXCEPT !.status = "running"]
          /\ runs'[m] = [NoRun EXCEPT !.stage = "claimed", !.choice = jobs[m].choice]
      BY <1>1, <2>1 DEF Shape
    <2>3. Touches(m)
      BY <1>1, <1>2, <2>1, <2>2, Rows DEF Touches, Shape, JobRows, RunRows, IInv
    <2>4. jobs'[m].choice = jobs[m].choice /\ jobs'[m].newer = jobs[m].newer
          /\ jobs'[m].status = "running" /\ runs'[m].choice = jobs[m].choice
          /\ runs'[m].stage = "claimed" /\ runs'[m].add = {} /\ runs'[m].remove = {}
      BY <1>1, <2>2 DEF NoRun, JobRows
    <2>5. MemberOK(m)'
      BY <1>1, <1>2, <2>4 DEF MemberOK, RowOK, SavesOK, ToldOK, PlanOK, OneOK, Waiting
    <2> QED
      BY <2>3, <2>5, OneMember
  <1>4. CASE ~effects
    <2>1. jobs' = [jobs EXCEPT ![m].status = "disabled"] /\ runs' = runs
      BY <1>4 DEF Claim
    <2>2. jobs'[m] = [jobs[m] EXCEPT !.status = "disabled"]
      BY <1>1, <2>1 DEF Shape
    <2>3. Touches(m)
      BY <1>1, <1>2, <2>1, <2>2 DEF Touches, Shape, JobRows
    <2>4. jobs'[m].choice = jobs[m].choice /\ jobs'[m].newer = jobs[m].newer
          /\ jobs'[m].status = "disabled"
      BY <1>1, <2>2 DEF JobRows
    <2>5. MemberOK(m)'
      BY <1>1, <1>2, <2>1, <2>4 DEF MemberOK, RowOK, SavesOK, ToldOK, PlanOK, OneOK, Waiting
    <2> QED
      BY <2>3, <2>5, OneMember
  <1> QED
    BY <1>3, <1>4

\* Of two roles of one pick-one category, a plan within its limit holds one at most.
LEMMA OneAtMost ==
  ASSUME NEW list \in Menus, NEW choice \in Choices, NEW held \in SUBSET Roles, NEW c \in Cats,
         Limited(list, c), list.cats[c].max = 1, ~OverLimit(list, choice, held, c),
         NEW r \in After(list, choice, held, c), NEW x \in After(list, choice, held, c)
  PROVE  r = x
  <1> DEFINE A == After(list, choice, held, c)
  <1>1. A \subseteq Roles /\ IsFiniteSet(A)
    <2>1. A \subseteq Roles
      BY DEF After, Options
    <2> QED
      BY <2>1, RolesAssumption, FS_Subset
  <1>2. Cardinality(A) \in Nat /\ ~(Cardinality(A) > 1)
    BY <1>1, FS_CardinalityType DEF OverLimit
  <1>3. SUFFICES ASSUME r # x PROVE FALSE
    OBVIOUS
  <1>4. IsFiniteSet({r, x}) /\ Cardinality({r, x}) = 2
    <2>1. IsFiniteSet({r}) /\ Cardinality({r}) = 1
      BY FS_Singleton
    <2>2. IsFiniteSet({r} \cup {x}) /\ Cardinality({r} \cup {x}) = Cardinality({r}) + 1
      BY <1>3, <2>1, FS_AddElement
    <2>3. {r, x} = {r} \cup {x}
      OBVIOUS
    <2> QED
      BY <2>1, <2>2, <2>3
  <1>5. Cardinality({r, x}) <= Cardinality(A)
    BY <1>1, FS_Subset
  <1> QED
    BY <1>2, <1>4, <1>5

\* What planSelfRoles() adds in a category limited to one: nothing else of it is to be
\* added, and what the member holds of it is to be removed or left alone.
LEMMA PlanPicksOne ==
  ASSUME NEW list \in Menus, NEW choice \in Choices, NEW held \in SUBSET Roles, NEW untouchable,
         NEW r \in PlanAdd(list, choice, held, untouchable), NEW x \in Roles \ {r},
         list.roles[x].at = list.roles[r].at,
         Limited(list, list.roles[r].at), list.cats[list.roles[r].at].max = 1
  PROVE  /\ x \notin PlanAdd(list, choice, held, untouchable)
         /\ x \in held => x \in Differs(choice, held) \ PlanAdd(list, choice, held, untouchable)
  <1> DEFINE c == list.roles[r].at
  <1>1. r \in Roles /\ c \in Cats /\ c # None /\ ~OverLimit(list, choice, held, c)
        /\ r \in choice.chosen /\ Listed(list, r)
    <2>1. r \in Planned(list, choice, held, untouchable) /\ r \in choice.chosen
      BY DEF PlanAdd
    <2>2. r \in Differs(choice, held) /\ Listed(list, r) /\ ~OverLimit(list, choice, held, c)
      BY <2>1 DEF Planned
    <2>3. r \in Roles /\ c # None
      BY <2>2 DEF Differs, Choices, Listed, StateOf
    <2> QED
      BY <2>1, <2>2, <2>3 DEF Menus
  <1>2. r \in After(list, choice, held, c)
    BY <1>1 DEF After, Options
  <1>3. x \notin After(list, choice, held, c)
    BY <1>1, <1>2, OneAtMost
  <1>4. x \notin choice.chosen /\ (x \in held => x \in choice.offered)
    BY <1>3 DEF After, Options
  <1> QED
    BY <1>4 DEF PlanAdd, Differs

\* apply() plans over the choice the attempt claimed, the roles held now and the menu now.
LEMMA PlansKeeps == ASSUME IInv, NEW m \in Members, JobPlans(m) PROVE MembersOK'
  <1>1. Shape /\ MemberOK(m) /\ jobs[m] \in JobRows /\ runs[m] \in RunRows /\ holds[m] \in SUBSET Roles
        /\ menu \in Menus /\ access[m] \in BOOLEAN
    BY Shapes, Rows DEF IInv, Typed, MenuTyped, WellFormed, WorldTyped
  <1>2. UNCHANGED <<holds, saves, lately, told, jobs>> /\ runs[m].stage = "claimed"
    BY DEF JobPlans, world
  <1> DEFINE c == runs[m].choice
             add == PlanAdd(menu, c, holds[m], Untouchable)
             remove == PlanRemove(menu, c, holds[m], Untouchable)
             left == Differs(c, holds[m]) \ (add \cup remove)
             one == {p \in Roles \X Roles : p[1] # p[2] /\ menu.roles[p[1]].at \in PickOnes
                                              /\ menu.roles[p[2]].at = menu.roles[p[1]].at}
  <1>3. runs' = [runs EXCEPT ![m] = [runs[m] EXCEPT !.stage = "planned", !.add = add,
          !.remove = remove, !.left = left, !.given = {}, !.access = access[m], !.one = one]]
    BY DEF JobPlans
  <1>4. c \in Choices /\ c.chosen \subseteq Roles /\ c.offered \subseteq Roles
    BY <1>1 DEF RunRows, Choices
  <1>5. /\ add \subseteq c.chosen \cap Differs(c, holds[m]) /\ remove \subseteq Differs(c, holds[m]) \ c.chosen
        /\ Differs(c, holds[m]) \subseteq c.offered /\ one \subseteq Roles \X Roles
    BY DEF PlanAdd, PlanRemove, Planned, Differs
  <1>6. \A r \in add, x \in Roles : <<r, x>> \in one =>
          x \notin add /\ (x \in holds[m] => x \in remove \cup left)
    <2> SUFFICES ASSUME NEW r \in add, NEW x \in Roles, <<r, x>> \in one
                 PROVE  x \notin add /\ (x \in holds[m] => x \in remove \cup left)
      OBVIOUS
    <2>1. r # x /\ menu.roles[r].at \in PickOnes /\ menu.roles[x].at = menu.roles[r].at
      OBVIOUS
    <2>2. Limited(menu, menu.roles[r].at) /\ menu.cats[menu.roles[r].at].max = 1
      BY <2>1 DEF PickOnes
    <2> HIDE DEF one
    <2> QED
      BY <1>1, <1>4, <2>1, <2>2, PlanPicksOne
  <1> HIDE DEF add, remove, left, one
  <1>7. /\ runs'[m].stage = "planned" /\ runs'[m].choice = c /\ runs'[m].add = add
        /\ runs'[m].remove = remove /\ runs'[m].left = left /\ runs'[m].given = {}
        /\ runs'[m].one = one /\ runs'[m].access = access[m]
        /\ runs' = [runs EXCEPT ![m] = runs'[m]]
    BY <1>1, <1>3 DEF Shape, RunRows
  <1>8. runs'[m] \in RunRows
    <2>1. add \subseteq Roles /\ remove \subseteq Roles /\ left \subseteq Roles
      BY <1>4, <1>5 DEF left
    <2> QED
      BY <1>1, <1>3, <1>4, <1>5, <2>1 DEF Shape, RunRows
  <1>9. Touches(m)
    BY <1>1, <1>2, <1>7, <1>8, Rows DEF Touches, Shape, IInv
  <1>10. RowOK(m)' /\ SavesOK(m)' /\ ToldOK(m)'
    BY <1>1, <1>2, <1>7 DEF MemberOK, RowOK, SavesOK, ToldOK, Waiting
  <1>11. PlanOK(m)'
    <2>1. ASSUME ~jobs[m].newer, NEW r \in c.offered \ (add \cup remove \cup left), told[m][r] # "any"
          PROVE  told[m][r] = "yes" <=> r \in holds[m]
      <3>1. jobs[m].choice = c
        BY <1>1, <1>2, <2>1 DEF MemberOK, RowOK, JobRows
      <3>2. r \in Roles /\ r \notin Differs(c, holds[m])
        BY <1>4, <2>1 DEF left
      <3> QED
        BY <1>1, <2>1, <3>1, <3>2 DEF MemberOK, ToldOK, Differs
    <2> QED
      BY <1>2, <1>5, <1>7, <2>1 DEF PlanOK
  <1>12. OneOK(m)'
    BY <1>2, <1>6, <1>7 DEF OneOK
  <1> QED
    BY <1>9, <1>10, <1>11, <1>12, OneMember DEF MemberOK

\* A row of the attempt's record, after a step that changes part of it.
LEMMA RunStep ==
  ASSUME IInv, NEW m \in Members, NEW run \in RunRows, runs' = [runs EXCEPT ![m] = run],
         UNCHANGED <<saves, jobs, lately, told>>, NEW held \in SUBSET Roles,
         holds' = [holds EXCEPT ![m] = held]
  PROVE  /\ Touches(m) /\ runs'[m] = run /\ holds'[m] = held
         /\ saves'[m] = saves[m] /\ jobs'[m] = jobs[m] /\ lately'[m] = lately[m] /\ told'[m] = told[m]
  <1>1. Shape
    BY Shapes
  <1>2. runs'[m] = run /\ holds'[m] = held
    BY <1>1 DEF Shape
  <1> QED
    BY <1>1, <1>2, Rows DEF Touches, Shape, IInv

\* A member's row that no step writes to is written with what it was.
LEMMA SameHolds == ASSUME IInv, NEW m \in Members, holds' = holds
                   PROVE  holds' = [holds EXCEPT ![m] = holds[m]]
  BY Shapes DEF Shape

\* The fresh view moves what it refuses to what is left alone.
LEMMA ChecksKeeps == ASSUME IInv, NEW m \in Members, JobChecks(m) PROVE MembersOK'
  <1>1. MemberOK(m) /\ runs[m] \in RunRows /\ holds[m] \in SUBSET Roles /\ jobs[m] \in JobRows
    BY Rows DEF IInv
  <1> DEFINE run == runs[m]
             add == {r \in run.add : Verdict[r] = "ok" /\ (run.access \/ bound = None \/ r \notin Opens)}
             remove == {r \in run.remove : RemovableBy(Verdict[r])}
             left == run.left \cup (run.add \ add) \cup (run.remove \ remove)
             new == [run EXCEPT !.stage = "writing", !.add = add, !.remove = remove, !.left = left]
  <1>2. UNCHANGED <<saves, jobs, lately, told>> /\ holds' = [holds EXCEPT ![m] = holds[m]]
        /\ run.stage = "planned"
    BY SameHolds DEF JobChecks, world
  <1>3. runs' = [runs EXCEPT ![m] = new]
    BY <1>1 DEF JobChecks, RunRows
  <1>4. add \subseteq run.add /\ remove \subseteq run.remove
        /\ run.add \cup run.remove \cup run.left \subseteq add \cup remove \cup left
        /\ run.left \subseteq left /\ run.remove \subseteq remove \cup left /\ left \subseteq Roles
    BY <1>1 DEF RunRows
  <1> HIDE DEF add, remove, left
  <1>5. /\ new \in RunRows /\ new.stage = "writing" /\ new.choice = run.choice /\ new.add = add
        /\ new.remove = remove /\ new.left = left /\ new.given = run.given /\ new.one = run.one
    BY <1>1, <1>4 DEF RunRows
  <1> HIDE DEF new
  <1>6. Touches(m) /\ runs'[m] = new /\ holds'[m] = holds[m] /\ jobs'[m] = jobs[m]
        /\ saves'[m] = saves[m] /\ lately'[m] = lately[m] /\ told'[m] = told[m]
    BY <1>1, <1>2, <1>3, <1>5, RunStep
  <1>7. RowOK(m)' /\ SavesOK(m)' /\ ToldOK(m)'
    BY <1>1, <1>2, <1>5, <1>6 DEF MemberOK, RowOK, SavesOK, ToldOK, Waiting
  <1>8. PlanOK(m)'
    BY <1>1, <1>2, <1>4, <1>5, <1>6 DEF MemberOK, PlanOK
  <1>9. OneOK(m)'
    BY <1>1, <1>4, <1>5, <1>6 DEF MemberOK, OneOK
  <1> QED
    BY <1>6, <1>7, <1>8, <1>9, OneMember DEF MemberOK

\* One write of selfRoles(): what it writes is as the attempt's choice has it.
LEMMA WriteKeeps ==
  ASSUME IInv, NEW m \in Members, runs[m].stage = "writing", NEW r \in Roles,
         UNCHANGED <<saves, jobs, lately, told>>, NEW held \in SUBSET Roles, Write(m, r, held),
         \/ r \in runs[m].add /\ held = holds[m] \cup {r} /\ runs[m].remove = {}
         \/ r \in runs[m].remove /\ held = holds[m] \ {r}
  PROVE  MembersOK'
  <1>1. MemberOK(m) /\ runs[m] \in RunRows /\ holds[m] \in SUBSET Roles /\ jobs[m] \in JobRows
        /\ Shape
    BY Rows, Shapes DEF IInv
  <1> DEFINE run == runs[m]
  <1>2. PICK new \in RunRows, now \in SUBSET Roles :
          /\ runs' = [runs EXCEPT ![m] = new] /\ holds' = [holds EXCEPT ![m] = now]
          /\ new.stage = "writing" /\ new.choice = run.choice /\ new.given = run.given
          /\ new.one = run.one /\ new.add = run.add \ {r} /\ new.remove = run.remove \ {r}
          /\ \/ new.left = run.left \cup {r} /\ now = holds[m]
             \/ new.left = run.left /\ now = held
    <2>1. CASE check[r] = "fixed"
      <3> DEFINE new == [run EXCEPT !.left = run.left \cup {r}, !.add = run.add \ {r},
                                    !.remove = run.remove \ {r}]
      <3>1. runs' = [runs EXCEPT ![m] = new]
        BY <1>1, <2>1 DEF Write, RunRows, Shape
      <3>2. /\ new \in RunRows /\ new.stage = "writing" /\ new.choice = run.choice
            /\ new.given = run.given /\ new.one = run.one /\ new.add = run.add \ {r}
            /\ new.remove = run.remove \ {r} /\ new.left = run.left \cup {r}
        BY <1>1 DEF RunRows
      <3>3. holds' = [holds EXCEPT ![m] = holds[m]]
        BY <2>1, SameHolds DEF Write
      <3> HIDE DEF new
      <3> QED
        BY <1>1, <3>1, <3>2, <3>3
    <2>2. CASE check[r] # "fixed"
      <3> DEFINE new == [run EXCEPT !.add = run.add \ {r}, !.remove = run.remove \ {r}]
      <3>1. runs' = [runs EXCEPT ![m] = new]
        BY <1>1, <2>2 DEF Write, RunRows, Shape
      <3>2. /\ new \in RunRows /\ new.stage = "writing" /\ new.choice = run.choice
            /\ new.given = run.given /\ new.one = run.one /\ new.add = run.add \ {r}
            /\ new.remove = run.remove \ {r} /\ new.left = run.left
        BY <1>1 DEF RunRows
      <3>3. holds' = [holds EXCEPT ![m] = held]
        BY <2>2 DEF Write
      <3> HIDE DEF new
      <3> QED
        BY <3>1, <3>2, <3>3
    <2> QED
      BY <2>1, <2>2
  <1>3. Touches(m) /\ runs'[m] = new /\ holds'[m] = now /\ jobs'[m] = jobs[m]
        /\ saves'[m] = saves[m] /\ lately'[m] = lately[m] /\ told'[m] = told[m]
    BY <1>2, RunStep
  <1>4. RowOK(m)'
    BY <1>1, <1>2, <1>3 DEF MemberOK, RowOK
  <1>5. SavesOK(m)'
    BY <1>1, <1>3 DEF MemberOK, RowOK, SavesOK, Waiting
  <1>6. r \in run.choice.offered /\ (r \in held <=> r \in run.choice.chosen)
        /\ \A x \in Roles \ {r} : x \in now <=> x \in holds[m]
    BY <1>1, <1>2 DEF MemberOK, PlanOK
  <1>7. ToldOK(m)'
    <2>1. ASSUME NEW x \in Roles, told[m][x] # "any", x \notin jobs[m].choice.offered
          PROVE  told[m][x] = "yes" <=> x \in now
      <3>1. x # r
        BY <1>1, <1>6, <2>1 DEF MemberOK, ToldOK
      <3> QED
        BY <1>1, <1>6, <2>1, <3>1 DEF MemberOK, ToldOK
    <2> QED
      BY <1>1, <1>2, <1>3, <2>1 DEF MemberOK, ToldOK
  <1>8. PlanOK(m)'
    <2>1. ASSUME ~jobs[m].newer, told[m][r] # "any", r \notin new.left
          PROVE  told[m][r] = "yes" <=> r \in now
      <3>1. jobs[m].choice = run.choice /\ now = held
        BY <1>1, <1>2, <2>1 DEF MemberOK, RowOK, JobRows
      <3> QED
        BY <1>1, <1>6, <2>1, <3>1 DEF MemberOK, ToldOK
    <2>2. ASSUME ~jobs[m].newer, NEW x \in Roles \ {r}, x \in run.choice.offered,
                 x \notin new.add \cup new.remove \cup new.left, told[m][x] # "any"
          PROVE  told[m][x] = "yes" <=> x \in now
      BY <1>1, <1>2, <1>6, <2>2 DEF MemberOK, PlanOK
    <2>3. new.choice.offered \subseteq Roles
      BY DEF RunRows, Choices
    <2> QED
      BY <1>1, <1>2, <1>3, <2>1, <2>2, <2>3 DEF MemberOK, PlanOK
  <1>9. OneOK(m)'
    <2> SUFFICES ASSUME NEW p \in new.add, NEW x \in Roles, <<p, x>> \in run.one
                 PROVE  /\ x \notin new.add
                        /\ x \in now => x \in new.remove \cup new.left \cup new.given
      BY <1>2, <1>3 DEF OneOK
    <2>1. p \in run.add /\ x \notin run.add
          /\ (x \in holds[m] => x \in run.remove \cup run.left \cup run.given)
      BY <1>1, <1>2 DEF MemberOK, OneOK
    <2>2. CASE x # r
      BY <1>2, <1>6, <2>1, <2>2
    <2>3. CASE x = r
      BY <1>2, <2>1, <2>3
    <2> QED
      BY <2>2, <2>3
  <1> QED
    BY <1>3, <1>4, <1>5, <1>7, <1>8, <1>9, OneMember DEF MemberOK

LEMMA WritesKeep == ASSUME IInv, NEW m \in Members, JobRemoves(m) \/ JobAdds(m) PROVE MembersOK'
  <1>1. runs[m] \in RunRows /\ holds[m] \in SUBSET Roles
    BY Rows DEF IInv
  <1>2. CASE JobRemoves(m)
    <2>1. PICK r \in runs[m].remove : Write(m, r, holds[m] \ {r})
      BY <1>2 DEF JobRemoves
    <2>2. r \in Roles /\ holds[m] \ {r} \in SUBSET Roles /\ runs[m].stage = "writing"
          /\ UNCHANGED <<saves, jobs, lately, told>>
      BY <1>1, <1>2 DEF JobRemoves, RunRows
    <2> QED
      BY <2>1, <2>2, WriteKeeps
  <1>3. CASE JobAdds(m)
    <2>1. PICK r \in runs[m].add : Write(m, r, holds[m] \cup {r})
      BY <1>3 DEF JobAdds
    <2>2. r \in Roles /\ holds[m] \cup {r} \in SUBSET Roles /\ runs[m].stage = "writing"
          /\ UNCHANGED <<saves, jobs, lately, told>> /\ runs[m].remove = {}
      BY <1>1, <1>3, <2>1 DEF JobAdds, RunRows
    <2> QED
      BY <2>1, <2>2, WriteKeeps
  <1> QED
    BY <1>2, <1>3

\* An attempt that ends leaves a row with the newest choice, or none; a choice that
\* succeeded was written but for what the attempt left alone, and one that is given up
\* answers nothing more.
LEMMA EndsKeep == ASSUME IInv, NEW m \in Members,
                         JobEnds(m) \/ JobBlocked(m) \/ JobFails(m) \/ JobGivesUp(m)
                  PROVE MembersOK'
  <1>1. MemberOK(m) /\ runs[m] \in RunRows /\ holds[m] \in SUBSET Roles /\ jobs[m] \in JobRows
        /\ lately[m] \in BOOLEAN /\ told[m] \in [Roles -> Marks] /\ Shape
        /\ NoRun \in RunRows /\ NoJob \in JobRows
    BY Rows, Shapes DEF IInv
  <1>2. UNCHANGED <<holds, saves>> /\ runs' = [runs EXCEPT ![m] = NoRun] /\ runs[m].stage # "none"
    BY DEF JobEnds, JobBlocked, JobFails, JobGivesUp, Ended, world
  <1>3. runs'[m] = NoRun /\ NoRun.stage = "none" /\ NoRun.add = {} /\ NoRun.remove = {}
    BY <1>1, <1>2 DEF Shape, NoRun
  <1>4. holds'[m] = holds[m] /\ saves'[m] = saves[m] /\ jobs[m].status = "running"
    BY <1>1, <1>2 DEF MemberOK, RowOK
  <1>5. ASSUME NEW row \in JobRows, jobs' = [jobs EXCEPT ![m] = row],
               NEW l \in BOOLEAN, lately' = [lately EXCEPT ![m] = l],
               NEW t \in [Roles -> Marks], told' = [told EXCEPT ![m] = t]
        PROVE  Touches(m) /\ jobs'[m] = row /\ lately'[m] = l /\ told'[m] = t
    <2>1. jobs'[m] = row /\ lately'[m] = l /\ told'[m] = t
      BY <1>1, <1>5 DEF Shape
    <2> QED
      BY <1>1, <1>2, <1>3, <1>4, <1>5, <2>1, Rows DEF Touches, Shape, IInv
  <1>6. told' = told => told' = [told EXCEPT ![m] = told[m]]
    BY <1>1 DEF Shape
  <1>7. lately' = lately => lately' = [lately EXCEPT ![m] = lately[m]]
    BY <1>1 DEF Shape
  <1>8. ASSUME NEW row \in JobRows, jobs' = [jobs EXCEPT ![m] = row], row.choice = jobs[m].choice,
               row.status \in {"queued", "blocked"}, ~row.newer,
               NEW l \in BOOLEAN, lately' = [lately EXCEPT ![m] = l], told' = told
        PROVE  MembersOK'
    <2>1. Touches(m) /\ jobs'[m] = row /\ lately'[m] = l /\ told'[m] = told[m]
      BY <1>1, <1>5, <1>6, <1>8
    <2>2. MemberOK(m)'
      BY <1>1, <1>3, <1>4, <1>8, <2>1 DEF MemberOK, RowOK, SavesOK, Waiting, ToldOK, PlanOK, OneOK
    <2> QED
      BY <2>1, <2>2, OneMember
  <1>9. CASE JobFails(m)
    <2> DEFINE row == [jobs[m] EXCEPT !.status = "queued", !.newer = FALSE]
    <2>1. row \in JobRows /\ row.choice = jobs[m].choice /\ row.status = "queued" /\ ~row.newer
      BY <1>1 DEF JobRows
    <2>2. jobs' = [jobs EXCEPT ![m] = row] /\ lately' = lately /\ told' = told
      BY <1>1, <1>9 DEF JobFails, Shape
    <2> HIDE DEF row
    <2> QED
      BY <1>1, <1>7, <1>8, <2>1, <2>2
  <1>10. CASE JobBlocked(m)
    <2> DEFINE row == [jobs[m] EXCEPT !.status = "blocked", !.newer = FALSE]
    <2>1. row \in JobRows /\ row.choice = jobs[m].choice /\ row.status = "blocked" /\ ~row.newer
      BY <1>1 DEF JobRows
    <2>2. jobs' = [jobs EXCEPT ![m] = row] /\ lately' = [lately EXCEPT ![m] = lately[m]] /\ told' = told
      BY <1>1, <1>10 DEF JobBlocked, Ended, Shape
    <2> HIDE DEF row
    <2> QED
      BY <1>1, <1>8, <2>1, <2>2
  <1>11. CASE JobEnds(m) /\ jobs[m].newer
    <2> DEFINE row == [jobs[m] EXCEPT !.status = "queued", !.newer = FALSE]
    <2>1. row \in JobRows /\ row.choice = jobs[m].choice /\ row.status = "queued" /\ ~row.newer
      BY <1>1 DEF JobRows
    <2>2. jobs' = [jobs EXCEPT ![m] = row] /\ lately' = [lately EXCEPT ![m] = TRUE] /\ told' = told
      BY <1>1, <1>11 DEF JobEnds, Ended, Shape
    <2> HIDE DEF row
    <2> QED
      BY <1>1, <1>8, <2>1, <2>2
  <1>12. CASE JobEnds(m) /\ ~jobs[m].newer
    <2> DEFINE t == [r \in Roles |-> IF r \in runs[m].left THEN "any" ELSE told[m][r]]
    <2>1. t \in [Roles -> Marks]
      BY <1>1 DEF Marks
    <2>2. jobs' = [jobs EXCEPT ![m] = NoJob] /\ lately' = [lately EXCEPT ![m] = TRUE]
          /\ told' = [told EXCEPT ![m] = t] /\ runs[m].stage = "writing"
          /\ runs[m].add = {} /\ runs[m].remove = {}
      BY <1>1, <1>12 DEF JobEnds, Ended, Shape
    <2>3. \A r \in Roles : t[r] # "any" => t[r] = told[m][r] /\ r \notin runs[m].left
      OBVIOUS
    <2> HIDE DEF t
    <2>4. Touches(m) /\ jobs'[m] = NoJob /\ lately'[m] = TRUE /\ told'[m] = t
      BY <1>1, <1>5, <2>1, <2>2
    <2>5. NoJob.status = "none" /\ NoJob.choice = NoChoice /\ ~NoJob.newer /\ NoChoice.offered = {}
      BY DEF NoJob, NoChoice
    <2>6. RowOK(m)' /\ PlanOK(m)' /\ OneOK(m)' /\ SavesOK(m)'
      BY <1>1, <1>3, <1>4, <2>4, <2>5 DEF MemberOK, RowOK, SavesOK, Waiting, PlanOK, OneOK
    <2>7. ASSUME NEW r \in Roles, t[r] # "any" PROVE t[r] = "yes" <=> r \in holds[m]
      <3>1. jobs[m].choice = runs[m].choice
        BY <1>1, <1>4, <1>12 DEF MemberOK, RowOK, JobRows
      <3> QED
        BY <1>1, <1>12, <2>2, <2>3, <2>7, <3>1 DEF MemberOK, ToldOK, PlanOK
    <2>8. ToldOK(m)'
      BY <1>3, <1>4, <2>4, <2>5, <2>7 DEF ToldOK
    <2> QED
      BY <2>4, <2>6, <2>8, OneMember DEF MemberOK
  <1>13. CASE JobGivesUp(m)
    <2> DEFINE t == [r \in Roles |-> IF r \in jobs[m].choice.offered THEN "any" ELSE told[m][r]]
    <2>1. t \in [Roles -> Marks]
      BY <1>1 DEF Marks
    <2>2. jobs' = [jobs EXCEPT ![m] = NoJob] /\ lately' = [lately EXCEPT ![m] = TRUE]
          /\ told' = [told EXCEPT ![m] = t]
      BY <1>13 DEF JobGivesUp
    <2>3. \A r \in Roles : t[r] # "any" => t[r] = told[m][r] /\ r \notin jobs[m].choice.offered
      OBVIOUS
    <2> HIDE DEF t
    <2>4. Touches(m) /\ jobs'[m] = NoJob /\ lately'[m] = TRUE /\ told'[m] = t
      BY <1>1, <1>5, <2>1, <2>2
    <2>5. NoJob.status = "none" /\ NoJob.choice = NoChoice /\ ~NoJob.newer /\ NoChoice.offered = {}
      BY DEF NoJob, NoChoice
    <2>6. RowOK(m)' /\ PlanOK(m)' /\ OneOK(m)' /\ SavesOK(m)'
      BY <1>1, <1>3, <1>4, <2>4, <2>5 DEF MemberOK, RowOK, SavesOK, Waiting, PlanOK, OneOK
    <2>7. ASSUME NEW r \in Roles, t[r] # "any" PROVE t[r] = "yes" <=> r \in holds[m]
      BY <1>1, <2>3, <2>7 DEF MemberOK, ToldOK
    <2>8. ToldOK(m)'
      BY <1>3, <1>4, <2>4, <2>5, <2>7 DEF ToldOK
    <2> QED
      BY <2>4, <2>6, <2>8, OneMember DEF MemberOK
  <1> QED
    BY <1>9, <1>10, <1>11, <1>12, <1>13

\* A blocked row is claimed again, a waiting one expires, and 5 minutes pass.
LEMMA WaitsKeep == ASSUME IInv, NEW m \in Members, Unblocked(m) \/ Expires(m) \/ LongAgo(m)
                   PROVE MembersOK'
  <1>1. MemberOK(m) /\ runs[m] \in RunRows /\ holds[m] \in SUBSET Roles /\ jobs[m] \in JobRows
        /\ lately[m] \in BOOLEAN /\ told[m] \in [Roles -> Marks] /\ Shape /\ NoJob \in JobRows
    BY Rows, Shapes DEF IInv
  <1>2. UNCHANGED <<holds, saves, runs>>
    BY DEF Unblocked, Expires, LongAgo, world
  <1>3. CASE Unblocked(m)
    <2>1. jobs' = [jobs EXCEPT ![m].status = "queued"] /\ UNCHANGED <<lately, told>>
          /\ jobs[m].status = "blocked"
      BY <1>3 DEF Unblocked
    <2>2. jobs'[m] \in JobRows /\ jobs'[m].choice = jobs[m].choice /\ jobs'[m].status = "queued"
          /\ jobs'[m].newer = jobs[m].newer /\ jobs' = [jobs EXCEPT ![m] = jobs'[m]]
      BY <1>1, <2>1 DEF Shape, JobRows
    <2>3. Touches(m)
      BY <1>1, <1>2, <2>1, <2>2, Rows DEF Touches, Shape, IInv
    <2>4. MemberOK(m)'
      BY <1>1, <1>2, <2>1, <2>2 DEF MemberOK, RowOK, SavesOK, Waiting, ToldOK, PlanOK, OneOK
    <2> QED
      BY <2>3, <2>4, OneMember
  <1>4. CASE Expires(m)
    <2>1. jobs' = [jobs EXCEPT ![m] = NoJob] /\ lately' = [lately EXCEPT ![m] = TRUE]
          /\ told' = [told EXCEPT ![m] = [r \in Roles |-> "any"]]
          /\ jobs[m].status \in {"queued", "blocked", "disabled"}
      BY <1>4 DEF Expires
    <2>2. jobs'[m] = NoJob /\ lately'[m] = TRUE /\ told'[m] = [r \in Roles |-> "any"]
      BY <1>1, <2>1 DEF Shape
    <2>3. Touches(m)
      BY <1>1, <1>2, <2>1, <2>2, Rows DEF Touches, Shape, IInv, Marks
    <2>4. NoJob.status = "none" /\ NoJob.choice = NoChoice /\ ~NoJob.newer
          /\ \A r \in Roles : told'[m][r] = "any"
      BY <2>2 DEF NoJob
    <2>5. MemberOK(m)'
      BY <1>1, <1>2, <2>1, <2>2, <2>4 DEF MemberOK, RowOK, SavesOK, ToldOK, PlanOK, OneOK
    <2> QED
      BY <2>3, <2>5, OneMember
  <1>5. CASE LongAgo(m)
    <2>1. lately' = [lately EXCEPT ![m] = FALSE] /\ UNCHANGED <<jobs, told>>
          /\ \A t \in Tabs : saves[m][t].stage # "read"
      BY <1>5 DEF LongAgo
    <2>2. Touches(m)
      BY <1>1, <1>2, <2>1, Rows DEF Touches, Shape, IInv
    <2>3. MemberOK(m)'
      BY <1>1, <1>2, <2>1 DEF MemberOK, RowOK, SavesOK, ToldOK, PlanOK, OneOK
    <2> QED
      BY <2>2, <2>3, OneMember
  <1> QED
    BY <1>3, <1>4, <1>5

\* A restart requeues every parked row.
LEMMA SwitchKeeps == ASSUME IInv, SwitchEffects PROVE MembersOK'
  <1>1. Shape
    BY Shapes
  <1>2. UNCHANGED <<holds, saves, lately, runs, told>>
        /\ jobs' = [m \in Members |-> IF effects' /\ jobs[m].status = "disabled"
                                      THEN [jobs[m] EXCEPT !.status = "queued"] ELSE jobs[m]]
    BY DEF SwitchEffects, world
  <1>3. ASSUME NEW m \in Members
        PROVE  /\ jobs'[m] \in JobRows /\ jobs'[m].choice = jobs[m].choice
               /\ jobs'[m].newer = jobs[m].newer
               /\ \/ jobs'[m].status = jobs[m].status
                  \/ jobs[m].status = "disabled" /\ jobs'[m].status = "queued"
    BY <1>1, <1>2 DEF Shape, JobRows
  <1>4. ASSUME NEW m \in Members PROVE MemberOK(m)'
    <2>1. MemberOK(m)
      BY DEF IInv
    <2> QED
      BY <1>2, <1>3, <2>1 DEF MemberOK, RowOK, SavesOK, Waiting, ToldOK, PlanOK, OneOK
  <1>5. jobs' \in [Members -> JobRows]
    BY <1>2, <1>3
  <1> QED
    BY <1>1, <1>2, <1>4, <1>5 DEF MembersOK, WorkTyped, Shape

\* A role that changes hands outside the job is no longer what the member was told, and
\* no longer what a save in flight read.
LEMMA OutsideKeeps ==
  ASSUME IInv, NEW m \in Members, NEW r \in Roles, NEW held \in SUBSET Roles,
         \A x \in Roles \ {r} : x \in held <=> x \in holds[m],
         holds' = [holds EXCEPT ![m] = held], Voided(m, r), saves' = SavesMoved(m, r),
         UNCHANGED <<jobs, lately>>,
         \/ runs' = runs /\ held \subseteq holds[m]
         \/ runs' = [runs EXCEPT ![m].given = @ \cup {r}]
  PROVE  MembersOK'
  <1>1. MemberOK(m) /\ runs[m] \in RunRows /\ holds[m] \in SUBSET Roles /\ jobs[m] \in JobRows
        /\ told[m] \in [Roles -> Marks] /\ saves[m] \in [Tabs -> SaveRows] /\ Shape
    BY Rows, Shapes DEF IInv
  <1>2. /\ runs'[m] \in RunRows /\ runs' = [runs EXCEPT ![m] = runs'[m]]
        /\ runs'[m].stage = runs[m].stage /\ runs'[m].choice = runs[m].choice
        /\ runs'[m].add = runs[m].add /\ runs'[m].remove = runs[m].remove
        /\ runs'[m].left = runs[m].left /\ runs'[m].one = runs[m].one
        /\ runs[m].given \subseteq runs'[m].given
        /\ held \subseteq holds[m] \/ r \in runs'[m].given
    <2>1. CASE runs' = runs /\ held \subseteq holds[m]
      BY <1>1, <2>1 DEF Shape
    <2>2. CASE runs' = [runs EXCEPT ![m].given = @ \cup {r}]
      <3>1. runs'[m] = [runs[m] EXCEPT !.given = runs[m].given \cup {r}]
        BY <1>1, <2>2 DEF Shape
      <3> QED
        BY <1>1, <2>2, <3>1 DEF Shape, RunRows
    <2> QED
      BY <2>1, <2>2
  <1>3. /\ told'[m] \in [Roles -> Marks] /\ told' = [told EXCEPT ![m] = told'[m]]
        /\ told'[m][r] = "any" /\ \A x \in Roles \ {r} : told'[m][x] = told[m][x]
    <2>1. told' = [told EXCEPT ![m] = [told[m] EXCEPT ![r] = "any"]]
      BY <1>1 DEF Voided, Shape
    <2>2. told'[m] = [told[m] EXCEPT ![r] = "any"]
      BY <1>1, <2>1 DEF Shape
    <2> QED
      BY <1>1, <2>1, <2>2 DEF Marks
  <1>4. /\ saves'[m] \in [Tabs -> SaveRows] /\ saves' = [saves EXCEPT ![m] = saves'[m]]
        /\ \A t \in Tabs : /\ saves'[m][t].next = saves[m][t].next
                           /\ saves'[m][t].stage = saves[m][t].stage
                           /\ saves'[m][t].held = saves[m][t].held
                           /\ saves'[m][t].moved = saves[m][t].moved \cup {r}
    <2> DEFINE s == [t \in Tabs |-> [saves[m][t] EXCEPT !.moved = saves[m][t].moved \cup {r}]]
    <2>1. saves' = [saves EXCEPT ![m] = s]
      BY DEF SavesMoved
    <2>2. ASSUME NEW t \in Tabs
          PROVE  /\ s[t] \in SaveRows /\ s[t].next = saves[m][t].next
                 /\ s[t].stage = saves[m][t].stage /\ s[t].held = saves[m][t].held
                 /\ s[t].moved = saves[m][t].moved \cup {r}
      <3>1. saves[m][t] \in SaveRows /\ s[t] = [saves[m][t] EXCEPT !.moved = saves[m][t].moved \cup {r}]
        BY <1>1
      <3> HIDE DEF s
      <3> QED
        BY <3>1 DEF SaveRows
    <2>3. s \in [Tabs -> SaveRows]
      BY <2>2
    <2> HIDE DEF s
    <2>4. saves'[m] = s
      BY <1>1, <2>1 DEF Shape
    <2> QED
      BY <2>1, <2>2, <2>3, <2>4
  <1>5. holds'[m] = held
    BY <1>1 DEF Shape
  <1>6. Touches(m)
    BY <1>1, <1>2, <1>3, <1>4, <1>5, Rows DEF Touches, Shape, IInv
  <1>7. RowOK(m)' /\ ToldOK(m)'
    BY <1>1, <1>2, <1>3, <1>5 DEF MemberOK, RowOK, ToldOK
  <1>8. SavesOK(m)'
    BY <1>1, <1>4, <1>5 DEF MemberOK, SavesOK, Waiting
  <1>9. PlanOK(m)'
    <2>1. \A x \in runs[m].choice.offered : x \in Roles
      BY <1>1 DEF RunRows, Choices
    <2> QED
      BY <1>1, <1>2, <1>3, <1>5, <2>1 DEF MemberOK, PlanOK
  <1>10. OneOK(m)'
    <2> SUFFICES ASSUME NEW p \in runs[m].add, NEW x \in Roles, <<p, x>> \in runs[m].one
                 PROVE  /\ x \notin runs[m].add
                        /\ x \in held => x \in runs[m].remove \cup runs[m].left \cup runs'[m].given
      BY <1>2, <1>5 DEF OneOK
    <2>1. /\ x \notin runs[m].add
          /\ x \in holds[m] => x \in runs[m].remove \cup runs[m].left \cup runs[m].given
      BY <1>1 DEF MemberOK, OneOK
    <2> QED
      BY <1>2, <2>1
  <1> QED
    BY <1>6, <1>7, <1>8, <1>9, <1>10, OneMember DEF MemberOK

LEMMA OutsidersKeep == ASSUME IInv, NEW m \in Members, OfficerGives(m) \/ PassRemoves(m)
                       PROVE MembersOK'
  <1>1. holds[m] \in SUBSET Roles /\ Shape /\ pass[m].remove \subseteq Roles
    BY Rows, Shapes DEF IInv, Typed, WorldTyped
  <1>2. CASE OfficerGives(m)
    <2>1. PICK r \in Roles :
            /\ holds' = [holds EXCEPT ![m] = IF r \in @ THEN @ \ {r} ELSE @ \cup {r}]
            /\ runs' = [runs EXCEPT ![m].given = @ \cup {r}]
            /\ Voided(m, r) /\ saves' = SavesMoved(m, r)
      BY <1>2 DEF OfficerGives
    <2> DEFINE held == IF r \in holds[m] THEN holds[m] \ {r} ELSE holds[m] \cup {r}
    <2>2. holds' = [holds EXCEPT ![m] = held] /\ held \in SUBSET Roles
          /\ \A x \in Roles \ {r} : x \in held <=> x \in holds[m]
      BY <1>1, <2>1
    <2>3. UNCHANGED <<jobs, lately>>
      BY <1>2 DEF OfficerGives
    <2> HIDE DEF held
    <2> QED
      BY <2>1, <2>2, <2>3, OutsideKeeps
  <1>3. CASE PassRemoves(m)
    <2>1. PICK r \in pass[m].remove :
            IF check[r] = "fixed" \/ r \notin holds[m] THEN UNCHANGED <<holds, told, saves>>
            ELSE holds' = [holds EXCEPT ![m] = @ \ {r}] /\ Voided(m, r) /\ saves' = SavesMoved(m, r)
      BY <1>3 DEF PassRemoves
    <2>2. UNCHANGED <<jobs, lately, runs>> /\ r \in Roles
      BY <1>1, <1>3, <2>1 DEF PassRemoves
    <2>3. CASE UNCHANGED <<holds, told, saves>>
      BY <2>2, <2>3, NoMember
    <2>4. CASE holds' = [holds EXCEPT ![m] = @ \ {r}] /\ Voided(m, r) /\ saves' = SavesMoved(m, r)
      <3>1. holds' = [holds EXCEPT ![m] = holds[m] \ {r}] /\ holds[m] \ {r} \in SUBSET Roles
            /\ holds[m] \ {r} \subseteq holds[m]
            /\ \A x \in Roles \ {r} : x \in holds[m] \ {r} <=> x \in holds[m]
        BY <1>1, <2>4
      <3> QED
        BY <2>2, <2>4, <3>1, OutsideKeeps
    <2> QED
      BY <2>1, <2>3, <2>4
  <1> QED
    BY <1>2, <1>3

\* A page is sent, and the member is read: a save in flight asks only for what it covers.
LEMMA SaveStep ==
  ASSUME IInv, NEW m \in Members, NEW t \in Tabs, NEW s \in SaveRows,
         saves' = [saves EXCEPT ![m][t] = s], UNCHANGED <<holds, jobs, lately, runs, told>>,
         s.next.chosen \subseteq s.next.offered,
         s.stage = "read" => \A r \in Roles : r \in s.held <=> r \in holds[m]
  PROVE  MembersOK'
  <1>1. MemberOK(m) /\ saves[m] \in [Tabs -> SaveRows] /\ Shape
    BY Rows, Shapes DEF IInv
  <1>2. saves' = [saves EXCEPT ![m] = [saves[m] EXCEPT ![t] = s]]
    BY <1>1 DEF Shape
  <1>3. saves'[m] = [saves[m] EXCEPT ![t] = s]
    BY <1>1, <1>2 DEF Shape
  <1>4. saves'[m] \in [Tabs -> SaveRows] /\ saves'[m][t] = s
        /\ \A x \in Tabs \ {t} : saves'[m][x] = saves[m][x]
    BY <1>1, <1>3
  <1>5. Touches(m)
    BY <1>1, <1>2, <1>3, <1>4, Rows DEF Touches, Shape, IInv
  <1>6. SavesOK(m)'
    BY <1>1, <1>4 DEF MemberOK, SavesOK, Waiting
  <1>7. RowOK(m)' /\ ToldOK(m)' /\ PlanOK(m)' /\ OneOK(m)'
    BY <1>1 DEF MemberOK, RowOK, ToldOK, PlanOK, OneOK
  <1> QED
    BY <1>5, <1>6, <1>7, OneMember DEF MemberOK

LEMMA SavesKeep == ASSUME IInv, NEW m \in Members, NEW t \in Tabs, SaveSends(m, t) \/ SaveReads(m, t)
                   PROVE MembersOK'
  <1>1. saves[m][t] \in SaveRows /\ NoSave \in SaveRows /\ NoChoice \in Choices
        /\ holds[m] \in SUBSET Roles /\ NoSave.next.chosen = {} /\ NoSave.next.offered = {}
        /\ NoSave.stage = "none"
    BY Rows DEF IInv, NoSave, NoChoice
  <1>2. CASE SaveSends(m, t)
    <2>1. PICK c \in Cats, picked \in SUBSET Roles :
            saves' = [saves EXCEPT ![m][t] = [NoSave EXCEPT !.stage = "sent", !.cat = c, !.picked = picked,
              !.seen = Ticked(menu, holds[m], Verdict, jobs[m].choice, c)]]
      BY <1>2 DEF SaveSends, Options
    <2>2. picked \subseteq Roles /\ Ticked(menu, holds[m], Verdict, jobs[m].choice, c) \subseteq Roles
      BY DEF Options, Ticked
    <2> DEFINE s == [NoSave EXCEPT !.stage = "sent", !.cat = c, !.picked = picked,
                       !.seen = Ticked(menu, holds[m], Verdict, jobs[m].choice, c)]
    <2>3. s \in SaveRows /\ s.stage = "sent" /\ s.next = NoSave.next
      BY <1>1, <2>2 DEF SaveRows, NoSave
    <2>4. saves' = [saves EXCEPT ![m][t] = s]
      BY <2>1
    <2> HIDE DEF s
    <2> QED
      BY <1>1, <1>2, <2>3, <2>4, SaveStep DEF SaveSends, world
  <1>3. CASE SaveReads(m, t)
    <2> DEFINE s == saves[m][t]
               next == ChangedCategory(menu, holds[m], Verdict, s.cat, s.seen, s.picked)
               read == [s EXCEPT !.stage = "read", !.next = next, !.held = holds[m], !.moved = {}]
    <2>1. UNCHANGED <<holds, jobs, lately, runs, told>>
          /\ (saves' = [saves EXCEPT ![m][t] = NoSave] \/ saves' = [saves EXCEPT ![m][t] = read])
      BY <1>3 DEF SaveReads, world
    <2>2. next \in Choices /\ next.chosen \subseteq next.offered
      BY <1>1 DEF ChangedCategory, Choices, CanChange, Options, NoChoice
    <2>3. read \in SaveRows /\ read.next = next /\ read.held = holds[m]
      BY <1>1, <2>2 DEF SaveRows
    <2> HIDE DEF next, read
    <2>4. CASE saves' = [saves EXCEPT ![m][t] = NoSave]
      BY <1>1, <2>1, <2>4, SaveStep
    <2>5. CASE saves' = [saves EXCEPT ![m][t] = read]
      BY <2>1, <2>2, <2>3, <2>5, SaveStep
    <2> QED
      BY <2>1, <2>4, <2>5
  <1> QED
    BY <1>2, <1>3

\* What the member is told of a role: what the save asks of it, or what they were told
\* before, when the save does not speak of its category.
LEMMA ToldBy ==
  ASSUME Typed, NEW m \in Members, NEW s \in SaveRows, NEW r \in Roles, Told(m, s)[r] # "any"
  PROVE  /\ r \notin s.moved
         /\ r \in s.next.offered => (Told(m, s)[r] = "yes" <=> r \in s.next.chosen)
         /\ r \notin s.next.offered =>
              /\ Told(m, s)[r] = told[m][r] /\ r \in OnMenu(menu)
              /\ menu.roles[r].at \notin CategoriesOf(menu, s.next.offered)
  BY DEF Told

LEMMA ToldType == ASSUME Typed, NEW m \in Members, NEW s \in SaveRows
                  PROVE  Told(m, s) \in [Roles -> Marks]
  BY Rows DEF Told, Marks

\* choose()'s transaction: a save changes nothing only when the waiting row already asks
\* it, or when the member still holds it; else the merged choice waits, and a running
\* attempt stays within it.
LEMMA CommitKeeps == ASSUME IInv, NEW m \in Members, NEW t \in Tabs, SaveCommits(m, t)
                     PROVE MembersOK'
  <1> DEFINE s == saves[m][t]
             merged == MergeChoice(menu, jobs[m].choice, s.next)
             row == Enqueued(jobs[m], merged)
  <1>1. /\ MemberOK(m) /\ s \in SaveRows /\ saves[m] \in [Tabs -> SaveRows] /\ jobs[m] \in JobRows
        /\ NoSave \in SaveRows /\ told[m] \in [Roles -> Marks] /\ lately[m] \in BOOLEAN
        /\ holds[m] \in SUBSET Roles /\ runs[m] \in RunRows /\ Shape /\ Typed
    BY Rows, Shapes DEF IInv
  <1>2. UNCHANGED <<holds, runs>> /\ s.stage = "read" /\ saves' = [saves EXCEPT ![m][t] = NoSave]
        /\ lately' = [lately EXCEPT ![m] = lately[m] \/ jobs[m].status = "disabled"]
    BY DEF SaveCommits, world
  <1>3. /\ saves'[m] \in [Tabs -> SaveRows] /\ saves' = [saves EXCEPT ![m] = saves'[m]]
        /\ saves'[m][t] = NoSave /\ \A x \in Tabs \ {t} : saves'[m][x] = saves[m][x]
        /\ lately'[m] = (lately[m] \/ jobs[m].status = "disabled")
        /\ lately' = [lately EXCEPT ![m] = lately'[m]]
    <2>1. saves' = [saves EXCEPT ![m] = [saves[m] EXCEPT ![t] = NoSave]]
      BY <1>1, <1>2 DEF Shape
    <2>2. saves'[m] = [saves[m] EXCEPT ![t] = NoSave]
      BY <1>1, <2>1 DEF Shape
    <2> QED
      BY <1>1, <1>2, <2>1, <2>2 DEF Shape
  <1>4. NoSave.next.chosen = {} /\ NoSave.stage = "none"
    BY DEF NoSave, NoChoice
  <1>5. /\ OneOK(m)'
        /\ (jobs[m].status # "none" => jobs'[m].status # "none") => SavesOK(m)'
    BY <1>1, <1>2, <1>3, <1>4 DEF MemberOK, SavesOK, Waiting, OneOK
  <1>6. s.next.chosen \subseteq s.next.offered /\ s.next \in Choices /\ jobs[m].choice \in Choices
    BY <1>1 DEF MemberOK, SavesOK, SaveRows, JobRows
  <1>7. CASE UNCHANGED <<jobs, told>>
    <2>1. Touches(m)
      BY <1>1, <1>2, <1>3, <1>7 DEF Touches, Shape
    <2>2. RowOK(m)' /\ ToldOK(m)' /\ PlanOK(m)'
      BY <1>1, <1>2, <1>7 DEF MemberOK, RowOK, ToldOK, PlanOK
    <2> QED
      BY <1>5, <1>7, <2>1, <2>2, OneMember DEF MemberOK
  <1>8. CASE ~Repeats(m, merged) /\ NothingToDo(m, s)
    <2>1. jobs' = jobs /\ told' = [told EXCEPT ![m] = Told(m, s)]
      BY <1>8 DEF SaveCommits
    <2>2. Told(m, s) \in [Roles -> Marks] /\ told'[m] = Told(m, s)
      BY <1>1, <2>1, ToldType DEF Shape
    <2>3. Touches(m)
      BY <1>1, <1>2, <1>3, <2>1, <2>2 DEF Touches, Shape
    <2>4. /\ jobs[m].choice = NoChoice /\ runs[m].stage = "none" /\ NoChoice.offered = {}
          /\ \A r \in Roles \ s.moved : r \in s.held <=> r \in holds[m]
          /\ \A r \in s.next.offered : r \in s.next.chosen <=> r \in s.held
      BY <1>1, <1>2, <1>8 DEF NothingToDo, ChoiceHeld, Waiting, MemberOK, RowOK, SavesOK, NoChoice
    <2>5. RowOK(m)' /\ PlanOK(m)'
      BY <1>1, <1>2, <2>1, <2>4 DEF MemberOK, RowOK, PlanOK
    <2>6. ASSUME NEW r \in Roles, Told(m, s)[r] # "any"
          PROVE  Told(m, s)[r] = "yes" <=> r \in holds[m]
      <3>1. r \notin s.moved
        BY <1>1, <2>6, ToldBy
      <3>2. CASE r \in s.next.offered
        BY <1>1, <2>4, <2>6, <3>1, <3>2, ToldBy
      <3>3. CASE r \notin s.next.offered
        BY <1>1, <2>4, <2>6, <3>3, ToldBy DEF MemberOK, ToldOK
      <3> QED
        BY <3>2, <3>3
    <2>7. ToldOK(m)'
      BY <1>2, <2>1, <2>2, <2>4, <2>6 DEF ToldOK
    <2> QED
      BY <1>5, <2>1, <2>3, <2>5, <2>7, OneMember DEF MemberOK
  <1>9. CASE ~Repeats(m, merged) /\ ~NothingToDo(m, s)
    <2>1. jobs' = [jobs EXCEPT ![m] = row] /\ told' = [told EXCEPT ![m] = Told(m, s)]
      BY <1>9 DEF SaveCommits
    <2>2. /\ row.choice = merged /\ row.status \in {"running", "queued"}
          /\ (row.status = "running" <=> jobs[m].status = "running")
          /\ (row.newer <=> jobs[m].status = "running")
      BY DEF Enqueued
    <2>3. /\ merged.offered = Kept(menu, jobs[m].choice, s.next) \cup s.next.offered
          /\ merged.chosen = (jobs[m].choice.chosen \cap Kept(menu, jobs[m].choice, s.next))
                               \cup s.next.chosen
          /\ merged \in Choices
      BY <1>6 DEF MergeChoice, Kept, Choices
    <2>4. row \in JobRows
      BY <2>2, <2>3 DEF Enqueued, JobRows
    <2> HIDE DEF row, merged
    <2>5. Told(m, s) \in [Roles -> Marks] /\ told'[m] = Told(m, s) /\ jobs'[m] = row
      BY <1>1, <2>1, ToldType DEF Shape
    <2>6. Touches(m)
      BY <1>1, <1>2, <1>3, <2>1, <2>4, <2>5 DEF Touches, Shape
    <2>7. RowOK(m)' /\ PlanOK(m)'
      BY <1>1, <1>2, <2>2, <2>5 DEF MemberOK, RowOK, PlanOK
    <2>8. ASSUME NEW r \in Roles, Told(m, s)[r] # "any"
          PROVE  /\ r \in merged.offered => (Told(m, s)[r] = "yes" <=> r \in merged.chosen)
                 /\ r \notin merged.offered => (Told(m, s)[r] = "yes" <=> r \in holds[m])
                 /\ runs[m].stage # "none" /\ r \in runs[m].choice.offered => r \in merged.offered
      <3>1. CASE r \in s.next.offered
        <4>1. menu.roles[r].at \in CategoriesOf(menu, s.next.offered)
          BY <3>1 DEF CategoriesOf
        <4>2. r \in merged.offered /\ (r \in merged.chosen <=> r \in s.next.chosen)
          BY <2>3, <3>1, <4>1 DEF Kept
        <4> QED
          BY <1>1, <2>8, <3>1, <4>2, ToldBy
      <3>2. CASE r \notin s.next.offered
        <4>1. Told(m, s)[r] = told[m][r] /\ r \in OnMenu(menu)
              /\ menu.roles[r].at \notin CategoriesOf(menu, s.next.offered)
          BY <1>1, <2>8, <3>2, ToldBy
        <4>2. r \notin s.next.chosen
              /\ (r \in Kept(menu, jobs[m].choice, s.next) <=> r \in jobs[m].choice.offered)
          BY <1>6, <3>2, <4>1 DEF Kept
        <4>3. (r \in merged.offered <=> r \in jobs[m].choice.offered)
              /\ (r \in merged.offered => (r \in merged.chosen <=> r \in jobs[m].choice.chosen))
          BY <2>3, <3>2, <4>2
        <4> QED
          BY <1>1, <2>8, <4>1, <4>3 DEF MemberOK, ToldOK
      <3> QED
        BY <3>1, <3>2
    <2>9. ToldOK(m)'
      BY <1>2, <2>2, <2>5, <2>8 DEF ToldOK
    <2> QED
      BY <1>5, <2>2, <2>5, <2>6, <2>7, <2>9, OneMember DEF MemberOK
  <1> QED
    BY <1>7, <1>8, <1>9 DEF SaveCommits

-----------------------------------------------------------------------------
LEMMA MembersStep == IInv /\ [Next]_vars => MembersOK'
  <1> SUFFICES ASSUME IInv, [Next]_vars PROVE MembersOK'
    OBVIOUS
  <1>1. ASSUME NEW o \in Officers, EditSends(o) \/ EditCommits(o) PROVE MembersOK'
    BY <1>1, NoMember DEF EditSends, EditCommits, world
  <1>2. CASE Configure \/ RoleChanges \/ UNCHANGED vars
    BY <1>2, NoMember DEF Configure, RoleChanges, vars, world
  <1>3. ASSUME NEW m \in Members, AccessChanges(m) \/ PassReads(m) \/ PassEnds(m) PROVE MembersOK'
    BY <1>3, NoMember DEF AccessChanges, PassReads, PassEnds, world
  <1>4. ASSUME NEW m \in Members, NEW t \in Tabs, SaveSends(m, t) \/ SaveReads(m, t) \/ SaveCommits(m, t)
        PROVE  MembersOK'
    BY <1>4, SavesKeep, CommitKeeps
  <1>5. ASSUME NEW m \in Members, Claim(m) \/ JobPlans(m) \/ JobChecks(m) \/ JobRemoves(m) \/ JobAdds(m)
        PROVE  MembersOK'
    BY <1>5, ClaimKeeps, PlansKeeps, ChecksKeeps, WritesKeep
  <1>6. ASSUME NEW m \in Members,
               \/ JobEnds(m) \/ JobBlocked(m) \/ JobFails(m) \/ JobGivesUp(m) \/ Unblocked(m)
               \/ Expires(m) \/ LongAgo(m) \/ OfficerGives(m) \/ PassRemoves(m)
        PROVE  MembersOK'
    BY <1>6, EndsKeep, WaitsKeep, OutsidersKeep
  <1> QED
    BY <1>1, <1>2, <1>3, <1>4, <1>5, <1>6, SwitchKeeps DEF Next

\* What remains: the world outside a member's own rows.
LEMMA WorldStep == IInv /\ [Next]_vars /\ MembersOK' => WorldTyped'
  <1> SUFFICES ASSUME IInv, [Next]_vars, MembersOK' PROVE WorldTyped'
    OBVIOUS
  <1>0. WorldTyped /\ holds' \in [Members -> SUBSET Roles]
    BY DEF IInv, Typed, MembersOK
  <1>1. CASE UNCHANGED <<check, access, pass>>
    BY <1>0, <1>1 DEF WorldTyped
  <1>2. CASE RoleChanges
    BY <1>0, <1>2 DEF RoleChanges, WorldTyped
  <1>3. ASSUME NEW m \in Members, AccessChanges(m) PROVE WorldTyped'
    BY <1>0, <1>3 DEF AccessChanges, WorldTyped
  <1>4. ASSUME NEW m \in Members, PassReads(m) PROVE WorldTyped'
    <2>1. AccessLossRemovals(menu, holds[m], Opens, Verdict) \subseteq Roles
      BY Rows DEF AccessLossRemovals, IInv
    <2>2. pass' = [pass EXCEPT ![m] = [due |-> FALSE, busy |-> TRUE,
            remove |-> IF access[m] \/ bound = None THEN {}
                       ELSE AccessLossRemovals(menu, holds[m], Opens, Verdict)]]
          /\ UNCHANGED <<check, access>>
      BY <1>4 DEF PassReads, world
    <2> QED
      BY <1>0, <2>1, <2>2 DEF WorldTyped
  <1>5. ASSUME NEW m \in Members, PassRemoves(m) \/ PassEnds(m) PROVE WorldTyped'
    <2>1. CASE PassEnds(m)
      BY <1>0, <2>1 DEF PassEnds, WorldTyped, world
    <2>2. CASE PassRemoves(m)
      <3>1. PICK r \in pass[m].remove : pass' = [pass EXCEPT ![m].remove = @ \ {r}]
        BY <2>2 DEF PassRemoves
      <3>2. UNCHANGED <<check, access>>
        BY <2>2 DEF PassRemoves
      <3> QED
        BY <1>0, <3>1, <3>2 DEF WorldTyped
    <2> QED
      BY <1>5, <2>1, <2>2
  <1>6. ASSUME NEW o \in Officers, EditSends(o) \/ EditCommits(o)
        PROVE  UNCHANGED <<check, access, pass>>
    BY <1>6 DEF EditSends, EditCommits, world
  <1>7. ASSUME Configure \/ SwitchEffects \/ UNCHANGED vars PROVE UNCHANGED <<check, access, pass>>
    BY <1>7 DEF Configure, SwitchEffects, vars, world
  <1>8. ASSUME NEW m \in Members, NEW t \in Tabs, SaveSends(m, t) \/ SaveReads(m, t)
        PROVE  UNCHANGED <<check, access, pass>>
    BY <1>8 DEF SaveSends, SaveReads, world
  <1>9. ASSUME NEW m \in Members, NEW t \in Tabs, SaveCommits(m, t)
        PROVE  UNCHANGED <<check, access, pass>>
    BY <1>9 DEF SaveCommits, world
  <1>10. ASSUME NEW m \in Members,
               \/ OfficerGives(m) \/ LongAgo(m) \/ Claim(m) \/ JobPlans(m) \/ JobChecks(m)
               \/ JobBlocked(m) \/ Unblocked(m)
        PROVE  UNCHANGED <<check, access, pass>>
    BY <1>10 DEF OfficerGives, LongAgo, Claim, JobPlans, JobChecks, JobBlocked, Unblocked, world
  <1>11. ASSUME NEW m \in Members,
               \/ JobRemoves(m) \/ JobAdds(m) \/ JobEnds(m) \/ JobFails(m) \/ JobGivesUp(m) \/ Expires(m)
        PROVE  UNCHANGED <<check, access, pass>>
    BY <1>11 DEF JobRemoves, JobAdds, JobEnds, JobFails, JobGivesUp, Expires, world
  <1> QED
    BY <1>1, <1>2, <1>3, <1>4, <1>5, <1>6, <1>7, <1>8, <1>9, <1>10, <1>11 DEF Next

LEMMA NextInv == IInv /\ [Next]_vars => IInv'
  <1> SUFFICES ASSUME IInv, [Next]_vars PROVE IInv'
    OBVIOUS
  <1>1. MenuTyped' /\ EditsOK' /\ MenuNeverBindsAccess'
    BY MenuStep DEF IInv
  <1>2. MembersOK'
    BY MembersStep
  <1>3. WorldTyped'
    BY <1>2, WorldStep
  <1> QED
    BY <1>1, <1>2, <1>3 DEF IInv, Typed, MembersOK

LEMMA Invariance == Spec => []IInv
  <1>1. IInv /\ [Next]_vars => IInv'
    BY NextInv
  <1> QED
    BY InitInv, <1>1, PTL DEF Spec

\* However officers' edits and /config roles interleave, no access role is on the menu
\* (assertNotOnMenu(), edit() under the guild row's lock).
THEOREM MenuIsSafe == Spec => []MenuNeverBindsAccess
  <1>1. IInv => MenuNeverBindsAccess
    BY DEF IInv
  <1> QED
    BY <1>1, Invariance, PTL

\* A save is never answered "unchanged" and lost: with nothing waiting, every member
\* holds what they were told of every role that nobody else changed, that the job did not
\* skip and whose row neither failed for good nor expired (choose(), endedLately(),
\* perform()).  Such a row voids what its choice covers, a save made while its last attempt
\* ran included, and nothing else the member was told.
THEOREM SavesAreKept == Spec => []AnswersHold
  <1>1. IInv => AnswersHold
    <2> SUFFICES ASSUME IInv, NEW m \in Members, ~Waiting(m), NEW r \in Roles, told[m][r] # "any"
                 PROVE  told[m][r] = "yes" <=> r \in holds[m]
      BY DEF AnswersHold
    <2>1. r \notin jobs[m].choice.offered
      BY DEF IInv, MemberOK, RowOK, Waiting, NoChoice
    <2> QED
      BY <2>1 DEF IInv, MemberOK, ToldOK
  <1> QED
    BY <1>1, Invariance, PTL

\* The job adds no second role of a pick-one category, whatever saves, edits and changes
\* in Discord came between its plan and its writes (planSelfRoles(), selfRoles()).
THEOREM PicksOne == Spec => PickOneHolds
  <1> DEFINE A == \A m \in Members : \A r \in holds'[m] \ holds[m] :
                    JobAdds(m) => \A x \in holds[m] : <<r, x>> \in runs[m].one => x \in runs[m].given \cup runs[m].left
  <1>1. IInv /\ [Next]_vars => [A]_vars
    <2> SUFFICES ASSUME IInv, NEW m \in Members, NEW r \in holds'[m] \ holds[m], JobAdds(m),
                        NEW x \in holds[m], <<r, x>> \in runs[m].one
                 PROVE  x \in runs[m].given \cup runs[m].left
      OBVIOUS
    <2>1. runs[m].remove = {} /\ holds[m] \in SUBSET Roles /\ Shape
      BY Rows, Shapes DEF JobAdds, IInv
    <2>2. PICK y \in runs[m].add : Write(m, y, holds[m] \cup {y})
      BY DEF JobAdds
    <2>3. holds'[m] \subseteq holds[m] \cup {y}
      BY <2>1, <2>2 DEF Write, Shape
    <2>4. r \in runs[m].add /\ x \in Roles
      BY <2>1, <2>2, <2>3
    <2>5. OneOK(m)
      BY DEF IInv, MemberOK
    <2> QED
      BY <2>1, <2>4, <2>5 DEF OneOK
  <1> QED
    BY <1>1, Invariance, PTL DEF Spec, PickOneHolds

-----------------------------------------------------------------------------
(* Claims and links (Verification) *)

ClaimRows == [user : Users, char : Chars, issued : Nat, expires : Nat,
              consumed : BOOLEAN, replaced : BOOLEAN]
Working == {"counting", "locked", "trusting"}
LinkCalls == [pc : {"idle", "claiming", "profiled"} \cup Working, verify : BOOLEAN,
              user : Users \cup {NoUser}, char : Chars \cup {NoChar}, start : Nat,
              seen : SUBSET Nat, id : Nat, old : SUBSET Nat,
              created : BOOLEAN, first : BOOLEAN, becomes : BOOLEAN]

LinkTypes ==
  /\ clock \in Nat /\ claims \in Seq(ClaimRows) /\ bio \in [Chars -> SUBSET Nat]
  /\ owner \in [Chars -> Users \cup {NoUser}] /\ linked \in SUBSET Users
  /\ main \in [Users -> Chars \cup {NoChar}] /\ sync \in [Users -> BOOLEAN]
  /\ proofs \in SUBSET [claim : Nat, at : Nat] /\ clashed \in BOOLEAN
  /\ call \in [Tries -> LinkCalls]

\* The claims of a character whose member may edit its biography.
Given(c) == {i \in Links!Ids : claims[i].char = c /\ Controller[c] = claims[i].user}
\* What a call that holds the lock of claims has counted.
Counts(s) == {i \in Links!Ids \ s.old : Links!Unfinished(i) /\ claims[i].expires > s.start}

\* What a call knows: what it saw in a biography was given to who may edit it, what it
\* counted bounds what is valid, and what it read under its locks is still so.
LinkCallOK(s) ==
  /\ s.pc # "idle" => s.user \in Users /\ s.char \in Chars /\ s.start <= clock
  /\ s.pc = "profiled" => s.seen \subseteq Given(s.char)
  /\ s.pc \in {"locked", "trusting"} /\ s.verify => s.id \in Given(s.char)
  /\ s.pc = "counting" =>
       /\ {i \in Links!Ids : Links!Of(i, s.user, s.char) /\ Links!Unfinished(i)} \subseteq s.old
       /\ Cardinality(Counts(s)) < AllLimit
       /\ Cardinality({i \in Counts(s) : claims[i].user = s.user}) < OwnLimit
  /\ s.pc = "trusting" =>
       /\ s.created => owner[s.char] = NoUser
       /\ s.first => s.user \notin linked
       /\ s.becomes => main[s.user] = NoChar

\* No two calls hold a member's row, a character's row or the lock of claims.
Apart(s, t) ==
  /\ s.pc \in Working /\ t.pc \in Working => s.user # t.user
  /\ s.pc = "trusting" /\ t.pc = "trusting" => s.char # t.char
  /\ ~(s.pc = "counting" /\ t.pc = "counting")

ProofOK(p) ==
  /\ p.claim \in Links!Ids /\ claims[p.claim].consumed
  /\ Controller[claims[p.claim].char] = claims[p.claim].user
  /\ claims[p.claim].issued <= p.at /\ p.at < claims[p.claim].expires

LinkWorld ==
  /\ \A c \in Chars : bio[c] \subseteq Given(c)
  /\ \A i \in Links!Ids : claims[i].issued <= clock
  /\ \A c \in Chars : owner[c] # NoUser => owner[c] \in linked
  /\ \A p \in proofs : ProofOK(p)
  /\ \A p, q \in proofs : p.claim = q.claim => p = q
  /\ ~clashed

LinkInv ==
  /\ LinkTypes /\ LinkWorld /\ Links!MainIsLinked /\ Links!ClaimsBounded
  /\ \A k \in Tries : LinkCallOK(call[k])
  /\ \A k, l \in Tries : k # l => Apart(call[k], call[l])

-----------------------------------------------------------------------------
LEMMA LinkConstants ==
  /\ NoUser \notin Users /\ NoChar \notin Chars /\ Controller \in [Chars -> Users]
  /\ Window \in Nat \ {0} /\ OwnLimit \in Nat \ {0} /\ AllLimit \in Nat \ {0}
  BY LinksAssumption DEF Links!ConstantsOK

LEMMA ClaimTypes ==
  ASSUME LinkTypes
  PROVE  /\ Links!Ids \in SUBSET Nat /\ Links!Ids = 1 .. Len(claims) /\ Len(claims) \in Nat
         /\ IsFiniteSet(Links!Ids)
         /\ \A i \in Links!Ids : claims[i] \in ClaimRows
<1>1. claims \in Seq(ClaimRows)
  BY DEF LinkTypes
<1>2. Len(claims) \in Nat /\ \A i \in 1 .. Len(claims) : claims[i] \in ClaimRows
  BY <1>1
<1>3. IsFiniteSet(1 .. Len(claims))
  BY <1>2, FS_Interval
<1>. QED  BY <1>2, <1>3 DEF Links!Ids

LEMMA IdleCall ==
  /\ Links!Idle \in LinkCalls /\ Links!Idle.pc = "idle"
  BY DEF Links!Idle, LinkCalls, Working

LEMMA IdleKnows == LinkCallOK(Links!Idle) /\ \A s : Apart(Links!Idle, s) /\ Apart(s, Links!Idle)
  BY IdleCall DEF LinkCallOK, Apart, Working

\* A call that changes nothing but itself.
LEMMA CallAlone ==
  ASSUME LinkInv, NEW k \in Tries, NEW new \in LinkCalls, call' = [call EXCEPT ![k] = new],
         LinkCallOK(new), \A l \in Tries \ {k} : Apart(new, call[l]),
         UNCHANGED <<clock, claims, bio, owner, linked, main, sync, proofs, clashed>>
  PROVE  LinkInv'
<1>1. call \in [Tries -> LinkCalls]
  BY DEF LinkInv, LinkTypes
<1>2. call' \in [Tries -> LinkCalls] /\ call'[k] = new /\ \A l \in Tries \ {k} : call'[l] = call[l]
  BY <1>1
<1>3. LinkTypes' /\ LinkWorld' /\ Links!MainIsLinked' /\ Links!ClaimsBounded'
  BY <1>2 DEF LinkInv, LinkTypes, LinkWorld, Given, ProofOK, Links!Ids, Links!MainIsLinked,
              Links!ClaimsBounded, Links!Unfinished
<1>4. ASSUME NEW s, LinkCallOK(s) PROVE LinkCallOK(s)'
  BY <1>4 DEF LinkCallOK, Given, Counts, Links!Ids, Links!Unfinished, Links!Of
<1>5. ASSUME NEW l \in Tries PROVE LinkCallOK(call[l])'
  <2>1. LinkCallOK(call'[l])
    BY <1>2 DEF LinkInv
  <2>2. PICK s : s = call'[l]
    OBVIOUS
  <2>3. LinkCallOK(s)'
    BY <2>1, <2>2, <1>4
  <2>. QED  BY <2>2, <2>3
<1>6. \A s, t : Apart(s, t) => Apart(t, s)
  BY DEF Apart
<1>7. \A l, m \in Tries : l # m => Apart(call'[l], call'[m])
  BY <1>2, <1>6 DEF LinkInv
<1>. QED  BY <1>3, <1>5, <1>7 DEF LinkInv

\* A call that ends without a word.
LEMMA CallEnds ==
  ASSUME LinkInv, NEW k \in Tries, Links!Ends(k),
         UNCHANGED <<clock, claims, bio, owner, linked, main, sync, proofs, clashed>>
  PROVE  LinkInv'
  BY IdleCall, IdleKnows, CallAlone DEF Links!Ends

LEMMA CallsBegin ==
  ASSUME LinkInv, NEW k \in Tries, NEW u \in Users, NEW c \in Chars, Links!Begin(k, u, c)
  PROVE  LinkInv'
<1>1. Links!Idle \in LinkCalls /\ clock \in Nat /\ bio[c] \in SUBSET Nat /\ bio[c] \subseteq Given(c)
  BY IdleCall DEF LinkInv, LinkTypes, LinkWorld
<1>2. CASE Links!BeginClaim(k, u, c)
  <2>1. PICK new : new = [Links!Idle EXCEPT !.pc = "claiming", !.user = u, !.char = c, !.start = clock]
    OBVIOUS
  <2>2. /\ new \in LinkCalls /\ new.pc = "claiming" /\ new.user = u /\ new.char = c /\ new.start = clock
    BY <1>1, <2>1 DEF LinkCalls
  <2>3. LinkCallOK(new) /\ \A s : Apart(new, s)
    BY <1>1, <2>2 DEF LinkCallOK, Apart, Working
  <2>. QED  BY <1>2, <2>1, <2>2, <2>3, CallAlone DEF Links!BeginClaim, Links!links
<1>3. CASE Links!ReadProfile(k, u, c)
  <2>1. PICK new : new = [Links!Idle EXCEPT !.pc = "profiled", !.verify = TRUE, !.user = u,
                                            !.char = c, !.seen = bio[c]]
    OBVIOUS
  <2>2. /\ new \in LinkCalls /\ new.pc = "profiled" /\ new.user = u /\ new.char = c /\ new.seen = bio[c]
        /\ new.start = 0
    BY <1>1, <2>1 DEF LinkCalls, Links!Idle
  <2>3. LinkCallOK(new) /\ \A s : Apart(new, s)
    BY <1>1, <2>2 DEF LinkCallOK, Apart, Working
  <2>. QED  BY <1>3, <2>1, <2>2, <2>3, CallAlone DEF Links!ReadProfile, Links!links
<1>4. CASE Links!BeginAssign(k, u, c)
  <2>1. PICK new : new = [Links!Idle EXCEPT !.pc = "locked", !.user = u, !.char = c]
    OBVIOUS
  <2>2. /\ new \in LinkCalls /\ new.pc = "locked" /\ new.user = u /\ new.char = c
        /\ new.start = 0 /\ ~new.verify
    BY <1>1, <2>1 DEF LinkCalls, Links!Idle, Working
  <2>3. LinkCallOK(new) /\ \A l \in Tries \ {k} : Apart(new, call[l])
    BY <1>1, <1>4, <2>2 DEF LinkCallOK, Apart, Working, Links!BeginAssign, Links!UserFree
  <2>. QED  BY <1>4, <2>1, <2>2, <2>3, CallAlone DEF Links!BeginAssign, Links!links
<1>. QED  BY <1>2, <1>3, <1>4 DEF Links!Begin

LEMMA SameCount == \A S : Links!Cardinality(S) = Cardinality(S)
  BY DEF Links!Cardinality, Cardinality

LEMMA NotFull ==
  ASSUME NEW S, NEW w, ~Links!Full(S, w),
         Cardinality(S) \in Nat, Cardinality({i \in S : claims[i].user = w}) \in Nat
  PROVE  Cardinality(S) < AllLimit /\ Cardinality({i \in S : claims[i].user = w}) < OwnLimit
<1>1. ~(\/ Cardinality({i \in S : claims[i].user = w}) >= OwnLimit
        \/ Cardinality(S) >= AllLimit)
  BY Zenon, SameCount DEF Links!Full
<1>2. \A m, n \in Nat : ~(m >= OwnLimit \/ n >= AllLimit) => n < AllLimit /\ m < OwnLimit
  BY LinkConstants
<1>. QED  BY Zenon, <1>1, <1>2

LEMMA CountsKeep == ASSUME LinkInv, NEW k \in Tries, Links!Count(k) PROVE LinkInv'
<1>. DEFINE u == call[k].user
            c == call[k].char
            old == {i \in Links!Ids : Links!Of(i, u, c) /\ Links!Unfinished(i)}
            counted == {i \in Links!Ids \ old : Links!Unfinished(i) /\ claims[i].expires > call[k].start}
<1>1. /\ call[k].pc = "claiming" /\ Links!ClaimsFree /\ Links!UserFree(u)
      /\ UNCHANGED <<clock, claims, bio, owner, linked, main, sync, proofs, clashed>>
      /\ \/ Links!Ends(k)
         \/ ~Links!Full(counted, u) /\ call' = [call EXCEPT ![k].pc = "counting", ![k].old = old]
  BY DEF Links!Count, Links!links
<1>2. call[k] \in LinkCalls /\ LinkCallOK(call[k]) /\ call \in [Tries -> LinkCalls]
  BY DEF LinkInv, LinkTypes
<1>3. CASE Links!Ends(k)
  BY <1>1, <1>3, CallEnds
<1>4. CASE ~Links!Full(counted, u) /\ call' = [call EXCEPT ![k].pc = "counting", ![k].old = old]
  <2>1. PICK new : new = [call[k] EXCEPT !.pc = "counting", !.old = old]
    OBVIOUS
  <2>2. call' = [call EXCEPT ![k] = new]
    BY <1>2, <1>4, <2>1
  <2>3. old \in SUBSET Nat /\ IsFiniteSet(counted) /\ IsFiniteSet({i \in counted : claims[i].user = u})
    BY ClaimTypes, FS_Subset DEF LinkInv
  <2>4. /\ new \in LinkCalls /\ new.pc = "counting" /\ new.user = u /\ new.char = c
        /\ new.start = call[k].start /\ new.old = old
    BY <1>2, <2>1, <2>3 DEF LinkCalls, Working
  <2>5. Cardinality(counted) \in Nat /\ Cardinality({i \in counted : claims[i].user = u}) \in Nat
    BY <2>3, FS_CardinalityType
  <2>6. Cardinality(counted) < AllLimit /\ Cardinality({i \in counted : claims[i].user = u}) < OwnLimit
    <3>1. ~Links!Full(counted, u)
      BY <1>4
    <3>. HIDE DEF counted, u
    <3>. QED  BY <2>5, <3>1, NotFull
  <2>7. Counts(new) = counted
    BY <2>4 DEF Counts
  <2>8. LinkCallOK(new)
    <3>1. {i \in Links!Ids : Links!Of(i, new.user, new.char) /\ Links!Unfinished(i)} = old
      BY <2>4
    <3>2. {i \in Counts(new) : claims[i].user = new.user} = {i \in counted : claims[i].user = u}
      BY <2>4, <2>7
    <3>. HIDE DEF counted, old
    <3>3. new.user \in Users /\ new.char \in Chars /\ new.start <= clock
      BY <1>1, <1>2, <2>4 DEF LinkCallOK
    <3>. QED  BY <2>4, <2>6, <2>7, <3>1, <3>2, <3>3 DEF LinkCallOK
  <2>9. \A l \in Tries \ {k} : Apart(new, call[l])
    BY <1>1, <2>4 DEF Apart, Working, Links!ClaimsFree, Links!UserFree
  <2>. QED  BY <1>1, <2>2, <2>4, <2>8, <2>9, CallAlone
<1>. QED  BY <1>1, <1>3, <1>4

LEMMA ProofsRead ==
  ASSUME LinkInv, NEW k \in Tries,
         Links!RefuseProof(k) \/ Links!AnswerVerified(k) \/ Links!AcceptProof(k) \/ Links!Crash(k)
  PROVE  LinkInv'
<1>1. call[k] \in LinkCalls /\ LinkCallOK(call[k]) /\ call \in [Tries -> LinkCalls]
  BY DEF LinkInv, LinkTypes
<1>2. CASE Links!AcceptProof(k)
  <2>. DEFINE latest == Links!Latest(call[k].user, call[k].char)
  <2>1. /\ call[k].pc = "profiled" /\ Links!UserFree(call[k].user)
        /\ call' = [call EXCEPT ![k].pc = "locked", ![k].id = latest]
        /\ UNCHANGED <<clock, claims, bio, owner, linked, main, sync, proofs, clashed>>
        /\ latest \in call[k].seen
    BY <1>2 DEF Links!AcceptProof, Links!Unproved, Links!Proves, Links!links
  <2>. HIDE DEF latest
  <2>2. latest \in Given(call[k].char) /\ latest \in Nat
    BY <1>1, <2>1, ClaimTypes DEF LinkCallOK, Given, LinkInv
  <2>3. PICK new : new = [call[k] EXCEPT !.pc = "locked", !.id = latest]
    OBVIOUS
  <2>4. call' = [call EXCEPT ![k] = new]
    BY <1>1, <2>1, <2>3
  <2>5. /\ new \in LinkCalls /\ new.pc = "locked" /\ new.user = call[k].user /\ new.char = call[k].char
        /\ new.start = call[k].start /\ new.id = latest
    BY <1>1, <2>2, <2>3 DEF LinkCalls, Working
  <2>6. LinkCallOK(new)
    BY <1>1, <2>1, <2>2, <2>5 DEF LinkCallOK
  <2>7. \A l \in Tries \ {k} : Apart(new, call[l])
    BY <2>1, <2>5 DEF Apart, Working, Links!UserFree
  <2>. QED  BY <2>1, <2>4, <2>5, <2>6, <2>7, CallAlone
<1>3. CASE Links!RefuseProof(k) \/ Links!AnswerVerified(k) \/ Links!Crash(k)
  BY <1>3, CallEnds DEF Links!RefuseProof, Links!AnswerVerified, Links!Crash, Links!links
<1>. QED  BY <1>2, <1>3

LEMMA TrustKeeps == ASSUME LinkInv, NEW k \in Tries, Links!Trust(k) PROVE LinkInv'
<1>. DEFINE u == call[k].user
            c == call[k].char
            begins == u \notin Imported /\ u \notin linked
            becomes == begins \/ (u \notin Imported /\ main[u] = NoChar /\ Links!LinksOf(u) = {})
<1>1. /\ call[k].pc = "locked" /\ Links!CharFree(c)
      /\ UNCHANGED <<clock, claims, bio, owner, linked, main, sync, proofs, clashed>>
      /\ \/ Links!Ends(k)
         \/ call' = [call EXCEPT ![k].pc = "trusting", ![k].created = owner[c] = NoUser,
                        ![k].first = begins, ![k].becomes = becomes]
  BY DEF Links!Trust, Links!links
<1>2. call[k] \in LinkCalls /\ LinkCallOK(call[k]) /\ call \in [Tries -> LinkCalls] /\ u \in Users /\ c \in Chars
  BY <1>1 DEF LinkInv, LinkTypes, LinkCallOK
<1>3. begins => main[u] = NoChar
  BY <1>2, LinkConstants DEF LinkInv, LinkTypes, LinkWorld, Links!MainIsLinked
<1>4. becomes => main[u] = NoChar
  BY <1>3
<1>5. begins \in BOOLEAN /\ becomes \in BOOLEAN /\ (begins => u \notin linked)
  OBVIOUS
<1>6. CASE Links!Ends(k)
  BY <1>1, <1>6, CallEnds
<1>7. CASE call' = [call EXCEPT ![k].pc = "trusting", ![k].created = owner[c] = NoUser,
                       ![k].first = begins, ![k].becomes = becomes]
  <2>. HIDE DEF begins, becomes
  <2>1. PICK new : new = [call[k] EXCEPT !.pc = "trusting", !.created = owner[c] = NoUser,
                             !.first = begins, !.becomes = becomes]
    OBVIOUS
  <2>2. call' = [call EXCEPT ![k] = new]
    BY <1>2, <1>7, <2>1
  <2>3. /\ new \in LinkCalls /\ new.pc = "trusting" /\ new.user = u /\ new.char = c
        /\ new.start = call[k].start /\ new.id = call[k].id /\ new.verify = call[k].verify
        /\ new.created = (owner[c] = NoUser) /\ new.first = begins /\ new.becomes = becomes
    BY <1>2, <1>5, <2>1 DEF LinkCalls, Working
  <2>4. LinkCallOK(new)
    BY <1>1, <1>2, <1>4, <1>5, <2>3 DEF LinkCallOK
  <2>5. \A l \in Tries \ {k} : Apart(new, call[l])
    BY <1>1, <2>3 DEF Apart, Working, Links!CharFree, LinkInv
  <2>. QED  BY <1>1, <2>2, <2>3, <2>4, <2>5, CallAlone
<1>. QED  BY <1>1, <1>6, <1>7

\* What a step may do to the claims that exist.
ClaimsOnlyEnd ==
  /\ claims' \in Seq(ClaimRows) /\ Len(claims) <= Len(claims')
  /\ \A i \in Links!Ids :
       /\ claims'[i].user = claims[i].user /\ claims'[i].char = claims[i].char
       /\ claims'[i].issued = claims[i].issued /\ claims'[i].expires = claims[i].expires
       /\ claims[i].consumed => claims'[i].consumed
       /\ claims[i].replaced => claims'[i].replaced

LEMMA SameClaims == ASSUME LinkTypes, UNCHANGED claims PROVE ClaimsOnlyEnd
  BY ClaimTypes DEF ClaimsOnlyEnd, LinkTypes, ClaimRows

LEMMA GivenGrows ==
  ASSUME LinkTypes, ClaimsOnlyEnd
  PROVE  /\ Links!Ids \subseteq Links!Ids' /\ \A c : Given(c) \subseteq Given(c)'
         /\ \A i \in Links!Ids : Links!Unfinished(i)' => Links!Unfinished(i)
<1>1. Len(claims) \in Nat /\ Len(claims') \in Nat
  BY ClaimTypes DEF ClaimsOnlyEnd
<1>2. Links!Ids \subseteq Links!Ids'
  BY <1>1 DEF Links!Ids, ClaimsOnlyEnd
<1>. QED  BY <1>2 DEF Given, Links!Unfinished, ClaimsOnlyEnd

\* A subset of a finite set is counted no higher.
LEMMA CountedLess ==
  ASSUME NEW S, NEW T, IsFiniteSet(T), S \subseteq T
  PROVE  Cardinality(S) \in Nat /\ Cardinality(T) \in Nat /\ Cardinality(S) <= Cardinality(T)
  BY FS_Subset, FS_CardinalityType

\* What a call knows survives the steps of others.
LEMMA CallKnows ==
  ASSUME LinkTypes, NEW s \in LinkCalls, LinkCallOK(s), ClaimsOnlyEnd, clock' \in Nat, clock <= clock',
         s.pc = "counting" => Len(claims') = Len(claims),
         s.pc = "trusting" => /\ owner[s.char] = NoUser => owner'[s.char] = NoUser
                              /\ s.user \notin linked => s.user \notin linked'
                              /\ main[s.user] = NoChar => main'[s.user] = NoChar
  PROVE  LinkCallOK(s)'
<1>1. \A c : Given(c) \subseteq Given(c)'
  BY GivenGrows
<1>2. s.pc # "idle" => s.user \in Users /\ s.char \in Chars /\ s.start <= clock'
  BY DEF LinkCallOK, LinkTypes, LinkCalls
<1>3. ASSUME s.pc = "counting"
      PROVE  /\ {i \in Links!Ids : Links!Of(i, s.user, s.char) /\ Links!Unfinished(i)}' \subseteq s.old
             /\ Cardinality(Counts(s)') < AllLimit
             /\ Cardinality({i \in Counts(s)' : claims'[i].user = s.user}) < OwnLimit
  <2>1. Links!Ids' = Links!Ids
    BY <1>3 DEF Links!Ids
  <2>2. Counts(s)' \subseteq Counts(s) /\ Counts(s) \subseteq Links!Ids
    BY <2>1, GivenGrows DEF Counts, ClaimsOnlyEnd
  <2>3. {i \in Counts(s)' : claims'[i].user = s.user} \subseteq {i \in Counts(s) : claims[i].user = s.user}
    BY <2>2 DEF ClaimsOnlyEnd
  <2>4. IsFiniteSet(Counts(s)) /\ IsFiniteSet({i \in Counts(s) : claims[i].user = s.user})
    <3>1. IsFiniteSet(Counts(s))
      BY <2>2, ClaimTypes, FS_Subset
    <3>. QED  BY <3>1, FS_Subset
  <2>5. Cardinality(Counts(s)) < AllLimit
        /\ Cardinality({i \in Counts(s) : claims[i].user = s.user}) < OwnLimit
    BY <1>3 DEF LinkCallOK
  <2>6. Cardinality(Counts(s)') < AllLimit
    BY <2>2, <2>4, <2>5, CountedLess, LinkConstants
  <2>7. Cardinality({i \in Counts(s)' : claims'[i].user = s.user}) < OwnLimit
    BY <2>3, <2>4, <2>5, CountedLess, LinkConstants
  <2>8. {i \in Links!Ids : Links!Of(i, s.user, s.char) /\ Links!Unfinished(i)}' \subseteq s.old
    BY <1>3, <2>1, GivenGrows DEF LinkCallOK, ClaimsOnlyEnd, Links!Of
  <2>. QED  BY <2>6, <2>7, <2>8
<1>4. (s.pc = "profiled" => s.seen \subseteq Given(s.char)')
      /\ (s.pc \in {"locked", "trusting"} /\ s.verify => s.id \in Given(s.char)')
  BY <1>1 DEF LinkCallOK
<1>5. s.pc = "trusting" =>
       /\ s.created => owner'[s.char] = NoUser
       /\ s.first => s.user \notin linked'
       /\ s.becomes => main'[s.user] = NoChar
  BY DEF LinkCallOK
<1>. QED  BY <1>2, <1>3, <1>4, <1>5 DEF LinkCallOK

\* Valid claims stay bounded unless one is added.
LEMMA ClaimsStayBounded ==
  ASSUME LinkTypes, Links!ClaimsBounded, ClaimsOnlyEnd, Len(claims') = Len(claims),
         clock' \in Nat, clock <= clock'
  PROVE  Links!ClaimsBounded'
<1>. DEFINE valid == {i \in Links!Ids : Links!Unfinished(i) /\ claims[i].expires > clock}
<1>1. Links!Ids' = Links!Ids
  BY DEF Links!Ids
<1>2. \A i \in Links!Ids : claims[i].expires \in Nat
  BY ClaimTypes DEF ClaimRows
<1>3. valid' \subseteq valid /\ valid \subseteq Links!Ids
  BY <1>1, <1>2, GivenGrows DEF ClaimsOnlyEnd, LinkTypes
<1>4. IsFiniteSet(valid)
  BY <1>3, ClaimTypes, FS_Subset
<1>5. Cardinality(valid) <= AllLimit /\ \A u \in Users : Cardinality({i \in valid : claims[i].user = u}) <= OwnLimit
  BY Zenon, SameCount DEF Links!ClaimsBounded
<1>. HIDE DEF valid
<1>6. Cardinality(valid') <= AllLimit
  BY <1>3, <1>4, <1>5, CountedLess, LinkConstants
<1>7. ASSUME NEW u \in Users PROVE Cardinality({i \in valid' : claims'[i].user = u}) <= OwnLimit
  <2>1. {i \in valid' : claims'[i].user = u} \subseteq {i \in valid : claims[i].user = u}
    BY <1>3 DEF ClaimsOnlyEnd
  <2>2. IsFiniteSet({i \in valid : claims[i].user = u})
    BY <1>4, FS_Subset
  <2>3. Cardinality({i \in valid : claims[i].user = u}) <= OwnLimit
    BY <1>5
  <2>. QED  BY <2>1, <2>2, <2>3, CountedLess, LinkConstants
<1>. QED  BY Zenon, <1>6, <1>7, SameCount DEF Links!ClaimsBounded, valid

LEMMA ProofsStay ==
  ASSUME LinkTypes, ClaimsOnlyEnd, NEW p, ProofOK(p)
  PROVE  ProofOK(p)'
  BY GivenGrows DEF ProofOK, ClaimsOnlyEnd

\* A step that no call takes.
LEMMA NoCallSteps ==
  ASSUME LinkInv, LinkTypes', LinkWorld', Links!MainIsLinked', ClaimsOnlyEnd,
         Len(claims') = Len(claims), clock <= clock', call' = call,
         \A k \in Tries : call[k].pc = "trusting" =>
            /\ owner[call[k].char] = NoUser => owner'[call[k].char] = NoUser
            /\ call[k].user \notin linked => call[k].user \notin linked'
            /\ main[call[k].user] = NoChar => main'[call[k].user] = NoChar
  PROVE  LinkInv'
<1>1. LinkTypes /\ clock' \in Nat
  BY DEF LinkInv, LinkTypes
<1>2. ASSUME NEW k \in Tries PROVE LinkCallOK(call[k])'
  <2>1. PICK s : s = call[k]
    OBVIOUS
  <2>2. s \in LinkCalls /\ LinkCallOK(s)
    BY <1>1, <2>1 DEF LinkInv, LinkTypes
  <2>3. LinkCallOK(s)'
    BY <1>1, <2>1, <2>2, CallKnows
  <2>. QED  BY <2>1, <2>3
<1>3. Links!ClaimsBounded'
  BY <1>1, ClaimsStayBounded DEF LinkInv
<1>. QED  BY <1>2, <1>3 DEF LinkInv, Apart

LEMMA UnclaimKeeps ==
  ASSUME LinkInv, NEW u \in Users, NEW c \in Chars, Links!Unclaim(u, c) PROVE LinkInv'
<1>1. LinkTypes /\ LinkWorld /\ Links!MainIsLinked
  BY DEF LinkInv
<1>2. /\ owner' = [owner EXCEPT ![c] = NoUser] /\ owner[c] = u
      /\ main' = IF main[u] = c THEN [main EXCEPT ![u] = NoChar] ELSE main
      /\ UNCHANGED <<clock, claims, bio, linked, sync, proofs, clashed, call>>
  BY DEF Links!Unclaim
<1>3. LinkTypes'
  BY <1>1, <1>2 DEF LinkTypes
<1>4. LinkWorld'
  BY <1>1, <1>2 DEF LinkTypes, LinkWorld, Given, ProofOK, Links!Ids
<1>5. Links!MainIsLinked'
  BY <1>1, <1>2 DEF LinkTypes, Links!MainIsLinked
<1>6. ClaimsOnlyEnd /\ Len(claims') = Len(claims) /\ clock <= clock'
  BY <1>1, <1>2, SameClaims DEF LinkTypes
<1>7. \A k \in Tries : call[k].pc = "trusting" =>
         /\ owner[call[k].char] = NoUser => owner'[call[k].char] = NoUser
         /\ call[k].user \notin linked => call[k].user \notin linked'
         /\ main[call[k].user] = NoChar => main'[call[k].user] = NoChar
  <2>1. ASSUME NEW k \in Tries, call[k].pc = "trusting" PROVE call[k].char \in Chars /\ call[k].user \in Users
    BY <2>1 DEF LinkInv, LinkCallOK
  <2>. QED  BY <1>1, <1>2, <2>1 DEF LinkTypes
<1>. QED  BY <1>2, <1>3, <1>4, <1>5, <1>6, <1>7, NoCallSteps

LEMMA ChoicesKeep ==
  ASSUME LinkInv,
         \/ \E u \in Users, c \in Chars : Links!SetMain(u, c)
         \/ \E u \in Users, on \in BOOLEAN : Links!SetSync(u, on)
  PROVE  LinkInv'
<1>1. LinkTypes /\ LinkWorld /\ Links!MainIsLinked
  BY DEF LinkInv
<1>2. UNCHANGED <<clock, claims, bio, owner, linked, proofs, clashed, call>>
  BY DEF Links!SetMain, Links!SetSync
<1>3. /\ LinkTypes' /\ Links!MainIsLinked'
      /\ \A k \in Tries : call[k].pc = "trusting" =>
           (main[call[k].user] = NoChar => main'[call[k].user] = NoChar)
  <2>1. CASE \E u \in Users, on \in BOOLEAN : Links!SetSync(u, on)
    BY <1>1, <1>2, <2>1 DEF LinkTypes, Links!MainIsLinked, Links!SetSync
  <2>2. CASE \E u \in Users, c \in Chars : Links!SetMain(u, c)
    <3>1. PICK u \in Users, c \in Chars : Links!SetMain(u, c)
      BY <2>2
    <3>2. main' = [main EXCEPT ![u] = c] /\ owner[c] = u /\ sync' = sync
          /\ \A k \in Tries : call[k].pc \in Working => call[k].user # u
      BY <3>1 DEF Links!SetMain, Links!UserFree, Working
    <3>3. LinkTypes'
      BY <1>1, <1>2, <3>2 DEF LinkTypes
    <3>4. Links!MainIsLinked'
      BY <1>1, <1>2, <3>2, LinkConstants DEF LinkTypes, Links!MainIsLinked
    <3>. QED  BY <1>1, <3>2, <3>3, <3>4 DEF LinkTypes, Working
  <2>. QED  BY <2>1, <2>2
<1>4. LinkWorld'
  BY <1>1, <1>2 DEF LinkWorld, Given, ProofOK, Links!Ids
<1>5. ClaimsOnlyEnd /\ Len(claims') = Len(claims) /\ clock <= clock'
  BY <1>1, <1>2, SameClaims DEF LinkTypes
<1>. QED  BY <1>2, <1>3, <1>4, <1>5, NoCallSteps

LEMMA PublishKeeps ==
  ASSUME LinkInv, NEW i \in Links!Ids, Links!Publish(i) PROVE LinkInv'
<1>1. LinkTypes /\ LinkWorld /\ Links!MainIsLinked
  BY DEF LinkInv
<1>2. /\ Controller[claims[i].char] = claims[i].user /\ claims[i].char \in Chars /\ i \in Nat
      /\ bio' = [bio EXCEPT ![claims[i].char] = bio[claims[i].char] \cup {i}]
      /\ UNCHANGED <<clock, claims, owner, linked, main, sync, proofs, clashed, call>>
  BY <1>1, ClaimTypes DEF Links!Publish, Links!links, ClaimRows
<1>3. LinkTypes'
  BY <1>1, <1>2 DEF LinkTypes
<1>4. LinkWorld'
  <2>1. ASSUME NEW c \in Chars PROVE bio'[c] \subseteq Given(c)'
    <3>1. Given(c)' = Given(c) /\ (c = claims[i].char => i \in Given(c))
      BY <1>2 DEF Given, Links!Ids
    <3>2. bio'[c] \subseteq bio[c] \cup (IF c = claims[i].char THEN {i} ELSE {})
      BY <1>1, <1>2 DEF LinkTypes
    <3>. QED  BY <1>1, <3>1, <3>2 DEF LinkWorld
  <2>2. \A p \in proofs' : ProofOK(p)'
    BY <1>1, <1>2 DEF LinkWorld, ProofOK, Links!Ids
  <2>3. \A j \in Links!Ids' : claims'[j].issued <= clock'
    BY <1>1, <1>2 DEF LinkWorld, Links!Ids
  <2>. QED  BY <1>1, <1>2, <2>1, <2>2, <2>3 DEF LinkWorld
<1>5. ClaimsOnlyEnd /\ Len(claims') = Len(claims) /\ clock <= clock' /\ Links!MainIsLinked'
  BY <1>1, <1>2, SameClaims DEF LinkTypes, Links!MainIsLinked
<1>. QED  BY <1>2, <1>3, <1>4, <1>5, NoCallSteps

LEMMA LinkTicks == ASSUME LinkInv, Links!Tick PROVE LinkInv'
<1>1. LinkTypes /\ LinkWorld /\ Links!MainIsLinked
  BY DEF LinkInv
<1>2. clock' = clock + 1 /\ UNCHANGED <<claims, bio, owner, linked, main, sync, proofs, clashed, call>>
  BY DEF Links!Tick, Links!links
<1>3. LinkTypes' /\ clock <= clock'
  BY <1>1, <1>2 DEF LinkTypes
<1>4. \A i \in Links!Ids : claims[i].issued \in Nat
  BY <1>1, ClaimTypes DEF ClaimRows
<1>5. LinkWorld'
  <2>1. \A c : Given(c)' = Given(c)
    BY <1>2 DEF Given, Links!Ids
  <2>2. \A p \in proofs' : ProofOK(p)'
    BY <1>1, <1>2 DEF LinkWorld, ProofOK, Links!Ids
  <2>3. \A j \in Links!Ids' : claims'[j].issued <= clock'
    <3>1. Links!Ids' = Links!Ids /\ clock \in Nat
      BY <1>1, <1>2 DEF Links!Ids, LinkTypes
    <3>. QED  BY <1>1, <1>2, <1>4, <3>1 DEF LinkWorld
  <2>. QED  BY <1>1, <1>2, <2>1, <2>2, <2>3 DEF LinkWorld
<1>6. ClaimsOnlyEnd /\ Len(claims') = Len(claims) /\ Links!MainIsLinked'
  BY <1>1, <1>2, SameClaims DEF LinkTypes, Links!MainIsLinked
<1>. QED  BY <1>2, <1>3, <1>5, <1>6, NoCallSteps

\* What an inserted claim does to the table.
InsertsClaim(k) ==
  /\ call[k].pc = "counting" /\ Links!Ends(k)
  /\ UNCHANGED <<clock, bio, owner, linked, main, sync, proofs, clashed>>
  /\ claims' \in Seq(ClaimRows) /\ Len(claims') = Len(claims) + 1
  /\ \A i \in Links!Ids : claims'[i] = IF i \in call[k].old
                                       THEN [claims[i] EXCEPT !.replaced = TRUE] ELSE claims[i]
  /\ claims'[Len(claims) + 1] =
       [user |-> call[k].user, char |-> call[k].char, issued |-> call[k].start,
        expires |-> call[k].start + Window, consumed |-> FALSE, replaced |-> FALSE]

LEMMA Inserted == ASSUME LinkInv, NEW k \in Tries, Links!Insert(k) PROVE InsertsClaim(k)
<1>. DEFINE replaced == [i \in Links!Ids |->
                           IF i \in call[k].old THEN [claims[i] EXCEPT !.replaced = TRUE] ELSE claims[i]]
            claim == [user |-> call[k].user, char |-> call[k].char, issued |-> call[k].start,
                      expires |-> call[k].start + Window, consumed |-> FALSE, replaced |-> FALSE]
<1>1. /\ call[k].pc = "counting" /\ Links!Ends(k)
      /\ UNCHANGED <<clock, bio, owner, linked, main, sync, proofs>>
  BY DEF Links!Insert, Links!links
<1>2. call[k] \in LinkCalls /\ LinkCallOK(call[k]) /\ LinkTypes
  BY DEF LinkInv, LinkTypes
<1>3. claims' = Append(replaced, claim) /\ clashed' = clashed
  BY <1>1, <1>2 DEF Links!Insert, LinkCallOK
<1>4. claim \in ClaimRows
  BY <1>1, <1>2, LinkConstants DEF ClaimRows, LinkCalls, LinkCallOK
<1>5. Links!Ids = 1 .. Len(claims) /\ Len(claims) \in Nat /\ \A i \in Links!Ids : claims[i] \in ClaimRows
  BY <1>2, ClaimTypes
<1>6. \A i \in 1 .. Len(claims) : replaced[i] \in ClaimRows
  BY <1>5 DEF ClaimRows
<1>7. replaced \in Seq(ClaimRows) /\ Len(replaced) = Len(claims)
  BY <1>5, <1>6
<1>8. \A i \in Links!Ids : replaced[i] = IF i \in call[k].old
                                         THEN [claims[i] EXCEPT !.replaced = TRUE] ELSE claims[i]
  OBVIOUS
<1>. HIDE DEF replaced, claim
<1>9. /\ claims' \in Seq(ClaimRows) /\ Len(claims') = Len(claims) + 1
      /\ \A i \in Links!Ids : claims'[i] = replaced[i]
      /\ claims'[Len(claims) + 1] = claim
  BY <1>3, <1>4, <1>5, <1>7, AppendProperties
<1>. QED  BY <1>1, <1>3, <1>8, <1>9 DEF claim, InsertsClaim

LEMMA InsertBounded ==
  ASSUME LinkInv, NEW k \in Tries, Links!Insert(k), ClaimsOnlyEnd PROVE Links!ClaimsBounded'
<1>0. InsertsClaim(k)
  BY Inserted
<1>. DEFINE valid == {i \in Links!Ids : Links!Unfinished(i) /\ claims[i].expires > clock}
            n == Len(claims)
            s == call[k]
<1>1. LinkTypes /\ s \in LinkCalls /\ LinkCallOK(s) /\ s.pc = "counting" /\ clock' = clock
      /\ s.start <= clock /\ s.start \in Nat /\ clock \in Nat /\ n \in Nat
  BY <1>0, ClaimTypes DEF LinkInv, LinkTypes, LinkCallOK, LinkCalls, InsertsClaim
<1>2. Links!Ids' = Links!Ids \cup {n + 1} /\ Links!Ids \subseteq Nat
  BY <1>0, <1>1, ClaimTypes DEF Links!Ids, InsertsClaim
<1>3. ASSUME NEW i \in valid', i \in Links!Ids
      PROVE  /\ i \in Counts(s) /\ i \in valid /\ claims'[i].user = claims[i].user
  <2>1. claims[i] \in ClaimRows
    BY <1>1, <1>3, ClaimTypes
  <2>2. i \notin s.old /\ claims'[i] = claims[i]
    <3>1. CASE i \in s.old
      <4>1. claims'[i].replaced
        BY <1>0, <1>3, <2>1, <3>1 DEF ClaimRows, InsertsClaim
      <4>. QED  BY <1>3, <4>1 DEF Links!Unfinished
    <3>. QED  BY <1>0, <1>3, <3>1 DEF InsertsClaim
  <2>3. Links!Unfinished(i) /\ claims[i].expires > clock
    BY <1>1, <1>3, <2>2 DEF Links!Unfinished
  <2>. QED  BY <1>1, <1>3, <2>1, <2>2, <2>3 DEF Counts, ClaimRows
<1>4. claims'[n + 1].user = s.user
  BY <1>0 DEF InsertsClaim
<1>5. IsFiniteSet(Counts(s)) /\ IsFiniteSet(valid)
  <2>1. Counts(s) \subseteq Links!Ids /\ valid \subseteq Links!Ids
    BY DEF Counts
  <2>. QED  BY <1>1, <2>1, ClaimTypes, FS_Subset
<1>6. /\ Cardinality(Counts(s)) < AllLimit
      /\ Cardinality({i \in Counts(s) : claims[i].user = s.user}) < OwnLimit
      /\ \A u \in Users : Cardinality({i \in valid : claims[i].user = u}) <= OwnLimit
  <2>1. \A u \in Users : Cardinality({i \in valid : claims[i].user = u}) <= OwnLimit
    BY Zenon, SameCount DEF Links!ClaimsBounded, LinkInv
  <2>. QED  BY <1>1, <2>1 DEF LinkCallOK
<1>7. valid' \subseteq Links!Ids \cup {n + 1}
  BY <1>2
<1>. HIDE DEF valid
<1>8. ASSUME NEW S, IsFiniteSet(S), NEW T, T \subseteq S \cup {n + 1}, NEW limit \in Nat,
             Cardinality(S) < limit
      PROVE  Cardinality(T) <= limit
  <2>1. IsFiniteSet(S \cup {n + 1}) /\ Cardinality(S) \in Nat /\ Cardinality(S \cup {n + 1}) <= Cardinality(S) + 1
    BY <1>8, FS_AddElement, FS_CardinalityType
  <2>. QED  BY <1>8, <2>1, CountedLess
<1>9. Cardinality(valid') <= AllLimit
  BY <1>3, <1>5, <1>6, <1>7, <1>8, LinkConstants
<1>10. ASSUME NEW u \in Users PROVE Cardinality({i \in valid' : claims'[i].user = u}) <= OwnLimit
  <2>1. CASE u = s.user
    <3>1. {i \in valid' : claims'[i].user = u} \subseteq {i \in Counts(s) : claims[i].user = s.user} \cup {n + 1}
      BY <1>3, <1>7, <2>1
    <3>2. IsFiniteSet({i \in Counts(s) : claims[i].user = s.user})
      BY <1>5, FS_Subset
    <3>. QED  BY <1>6, <1>8, <3>1, <3>2, LinkConstants
  <2>2. CASE u # s.user
    <3>1. {i \in valid' : claims'[i].user = u} \subseteq {i \in valid : claims[i].user = u}
      BY <1>3, <1>4, <1>7, <2>2
    <3>2. IsFiniteSet({i \in valid : claims[i].user = u})
      BY <1>5, FS_Subset
    <3>3. Cardinality({i \in valid : claims[i].user = u}) <= OwnLimit
      BY <1>6
    <3>. QED  BY <3>1, <3>2, <3>3, CountedLess, LinkConstants
  <2>. QED  BY <2>1, <2>2
<1>. QED  BY Zenon, <1>9, <1>10, SameCount DEF Links!ClaimsBounded, valid

\* What the step of one call leaves the others.
LEMMA OtherCalls ==
  ASSUME LinkInv, NEW k \in Tries, Links!Ends(k), ClaimsOnlyEnd, clock' = clock,
         Len(claims') = Len(claims) \/ call[k].pc = "counting",
         \A l \in Tries \ {k} : call[l].pc = "trusting" =>
            /\ owner[call[l].char] = NoUser => owner'[call[l].char] = NoUser
            /\ call[l].user \notin linked => call[l].user \notin linked'
            /\ main[call[l].user] = NoChar => main'[call[l].user] = NoChar
  PROVE  /\ call' \in [Tries -> LinkCalls]
         /\ \A l \in Tries : LinkCallOK(call[l])'
         /\ \A l, m \in Tries : l # m => Apart(call'[l], call'[m])
<1>1. call \in [Tries -> LinkCalls] /\ LinkTypes /\ clock \in Nat
  BY DEF LinkInv, LinkTypes
<1>2. call' \in [Tries -> LinkCalls] /\ call'[k] = Links!Idle /\ \A l \in Tries \ {k} : call'[l] = call[l]
  BY <1>1, IdleCall DEF Links!Ends
<1>3. ASSUME NEW l \in Tries \ {k} PROVE LinkCallOK(call[l])'
  <2>1. PICK s : s = call[l]
    OBVIOUS
  <2>2. s \in LinkCalls /\ LinkCallOK(s) /\ Apart(s, call[k]) /\ s = call'[l]
    BY <1>1, <1>2, <2>1 DEF LinkInv, LinkTypes
  <2>3. s.pc = "counting" => Len(claims') = Len(claims)
    BY <2>2 DEF Apart
  <2>4. s.pc = "trusting" => /\ owner[s.char] = NoUser => owner'[s.char] = NoUser
                             /\ s.user \notin linked => s.user \notin linked'
                             /\ main[s.user] = NoChar => main'[s.user] = NoChar
    BY <2>1
  <2>5. clock' \in Nat /\ clock <= clock'
    BY <1>1
  <2>6. LinkCallOK(s)'
    BY <1>1, <2>2, <2>3, <2>4, <2>5, CallKnows
  <2>. QED  BY <2>2, <2>6
<1>4. LinkCallOK(call[k])'
  BY <1>2, IdleCall DEF LinkCallOK
<1>5. ASSUME NEW l \in Tries, NEW m \in Tries, l # m PROVE Apart(call'[l], call'[m])
  BY <1>2, <1>5, IdleKnows DEF LinkInv
<1>. QED  BY <1>2, <1>3, <1>4, <1>5

LEMMA InsertKeeps == ASSUME LinkInv, NEW k \in Tries, Links!Insert(k) PROVE LinkInv'
<1>0. InsertsClaim(k)
  BY Inserted
<1>1. LinkTypes /\ LinkWorld /\ Links!MainIsLinked /\ Len(claims) \in Nat
  BY ClaimTypes DEF LinkInv
<1>2. ClaimsOnlyEnd
  <2>1. ASSUME NEW i \in Links!Ids
        PROVE  /\ claims'[i].user = claims[i].user /\ claims'[i].char = claims[i].char
               /\ claims'[i].issued = claims[i].issued /\ claims'[i].expires = claims[i].expires
               /\ claims[i].consumed => claims'[i].consumed
               /\ claims[i].replaced => claims'[i].replaced
    BY <1>0, <1>1, ClaimTypes DEF ClaimRows, InsertsClaim
  <2>. QED  BY <1>0, <1>1, <2>1 DEF ClaimsOnlyEnd, InsertsClaim
<1>3. /\ call' \in [Tries -> LinkCalls]
      /\ \A l \in Tries : LinkCallOK(call[l])'
      /\ \A l, m \in Tries : l # m => Apart(call'[l], call'[m])
  BY <1>0, <1>2, OtherCalls DEF InsertsClaim
<1>4. LinkTypes'
  BY <1>0, <1>1, <1>3 DEF LinkTypes, InsertsClaim
<1>5. LinkWorld'
  <2>1. \A c \in Chars : bio'[c] \subseteq Given(c)'
    BY <1>0, <1>1, <1>2, GivenGrows DEF LinkWorld, InsertsClaim
  <2>2. \A p \in proofs' : ProofOK(p)'
    BY <1>0, <1>1, <1>2, ProofsStay DEF LinkWorld, InsertsClaim
  <2>3. ASSUME NEW i \in Links!Ids' PROVE claims'[i].issued <= clock'
    <3>1. Links!Ids' = Links!Ids \cup {Len(claims) + 1}
      BY <1>0, <1>1, ClaimTypes DEF Links!Ids, InsertsClaim
    <3>2. CASE i \in Links!Ids
      BY <1>0, <1>1, <1>2, <3>2 DEF LinkWorld, ClaimsOnlyEnd, InsertsClaim
    <3>3. CASE i = Len(claims) + 1
      <4>1. call[k].start <= clock
        BY <1>0 DEF LinkInv, LinkCallOK, InsertsClaim
      <4>. QED  BY <1>0, <3>3, <4>1 DEF InsertsClaim
    <3>. QED  BY <3>1, <3>2, <3>3
  <2>. QED  BY <1>0, <1>1, <2>1, <2>2, <2>3 DEF LinkWorld, InsertsClaim
<1>6. Links!MainIsLinked'
  BY <1>0, <1>1 DEF Links!MainIsLinked, InsertsClaim
<1>7. Links!ClaimsBounded'
  BY <1>2, InsertBounded
<1>. QED  BY <1>3, <1>4, <1>5, <1>6, <1>7 DEF LinkInv

\* What a commit does: nothing to the links, or a link of a character that has none.
Consumes(k) ==
  IF call[k].verify
  THEN /\ Links!Unfinished(call[k].id) /\ claims[call[k].id].expires > clock
       /\ claims' = [claims EXCEPT ![call[k].id].consumed = TRUE]
  ELSE claims' = claims

LEMMA Commits ==
  ASSUME LinkInv, NEW k \in Tries, Links!Commit(k)
  PROVE  /\ call[k].pc = "trusting" /\ Links!Ends(k) /\ UNCHANGED <<clock, bio, clashed>>
         /\ \/ UNCHANGED <<owner, linked, main, sync, proofs>> /\ (claims' = claims \/ Consumes(k))
            \/ call[k].created /\ Links!NewLink(k) /\ Consumes(k)
<1>1. call[k].pc = "trusting" /\ LinkCallOK(call[k]) /\ clashed \in BOOLEAN
  BY DEF Links!Commit, LinkInv, LinkTypes
<1>2. ~(call[k].created /\ owner[call[k].char] # NoUser)
  BY <1>1 DEF LinkCallOK
<1>. QED  BY <1>1, <1>2 DEF Links!Commit, Links!links, Consumes, Links!Consumable

LEMMA ConsumesEnds ==
  ASSUME LinkInv, NEW k \in Tries, call[k].pc = "trusting", claims' = claims \/ Consumes(k)
  PROVE  ClaimsOnlyEnd /\ Len(claims') = Len(claims)
<1>1. LinkTypes /\ LinkCallOK(call[k])
  BY DEF LinkInv
<1>2. CASE claims' = claims
  BY <1>1, <1>2, SameClaims
<1>3. CASE claims' # claims
  <2>. DEFINE id == call[k].id
  <2>1. id \in Links!Ids
    BY <1>1, <1>3 DEF LinkCallOK, Consumes, Given
  <2>2. claims[id] \in ClaimRows /\ Links!Ids = 1 .. Len(claims) /\ claims \in Seq(ClaimRows)
    BY <1>1, <2>1, ClaimTypes DEF LinkTypes
  <2>3. PICK gone : gone = [claims[id] EXCEPT !.consumed = TRUE]
    OBVIOUS
  <2>4. /\ gone \in ClaimRows /\ gone.user = claims[id].user /\ gone.char = claims[id].char
        /\ gone.issued = claims[id].issued /\ gone.expires = claims[id].expires
        /\ gone.consumed /\ gone.replaced = claims[id].replaced
    BY <2>2, <2>3 DEF ClaimRows
  <2>5. claims' = [claims EXCEPT ![id] = gone]
    BY <1>3, <2>2, <2>3 DEF Consumes
  <2>. HIDE DEF id
  <2>6. claims' \in Seq(ClaimRows) /\ Len(claims') = Len(claims)
        /\ \A i \in Links!Ids : claims'[i] = IF i = id THEN gone ELSE claims[i]
    BY <2>1, <2>2, <2>4, <2>5, ExceptSeq
  <2>. QED  BY <1>1, <2>4, <2>6, ClaimTypes DEF ClaimsOnlyEnd
<1>. QED  BY <1>2, <1>3

LEMMA LinkMade ==
  ASSUME LinkInv, NEW k \in Tries, call[k].pc = "trusting", call[k].created, Links!NewLink(k)
  PROVE  /\ call[k].user \in Users /\ call[k].char \in Chars /\ owner[call[k].char] = NoUser
         /\ owner' = [owner EXCEPT ![call[k].char] = call[k].user]
         /\ linked' = linked \cup {call[k].user}
         /\ main' \in [Users -> Chars \cup {NoChar}] /\ sync' \in [Users -> BOOLEAN]
         /\ \A v \in Users \ {call[k].user} : main'[v] = main[v] /\ sync'[v] = sync[v]
         /\ main'[call[k].user] = IF call[k].becomes THEN call[k].char ELSE main[call[k].user]
         /\ call[k].becomes => main[call[k].user] = NoChar
         /\ call[k].user \in linked => sync' = sync
         /\ proofs' = IF call[k].verify THEN proofs \cup {[claim |-> call[k].id, at |-> clock]} ELSE proofs
<1>1. LinkCallOK(call[k]) /\ LinkTypes /\ call[k] \in LinkCalls
  BY DEF LinkInv, LinkTypes
<1>. QED  BY <1>1 DEF Links!NewLink, LinkTypes, LinkCallOK, LinkCalls

LEMMA LinkCommits == ASSUME LinkInv, NEW k \in Tries, Links!Commit(k) PROVE LinkInv'
<1>. DEFINE s == call[k]
<1>1. LinkTypes /\ LinkWorld /\ Links!MainIsLinked /\ LinkCallOK(s) /\ s \in LinkCalls /\ clock \in Nat
  BY DEF LinkInv, LinkTypes
<1>2. /\ s.pc = "trusting" /\ Links!Ends(k) /\ UNCHANGED <<clock, bio, clashed>>
      /\ \/ UNCHANGED <<owner, linked, main, sync, proofs>> /\ (claims' = claims \/ Consumes(k))
         \/ s.created /\ Links!NewLink(k) /\ Consumes(k)
  BY Commits
<1>3. ClaimsOnlyEnd /\ Len(claims') = Len(claims)
  BY <1>2, ConsumesEnds
<1>4. \A l \in Tries \ {k} : call[l].pc = "trusting" =>
         /\ owner[call[l].char] = NoUser => owner'[call[l].char] = NoUser
         /\ call[l].user \notin linked => call[l].user \notin linked'
         /\ main[call[l].user] = NoChar => main'[call[l].user] = NoChar
  <2>1. ASSUME NEW l \in Tries \ {k}, call[l].pc = "trusting"
        PROVE  /\ call[l].char \in Chars \ {s.char} /\ call[l].user \in Users \ {s.user}
    BY <1>2, <2>1 DEF LinkInv, LinkCallOK, Apart, Working
  <2>2. CASE UNCHANGED <<owner, linked, main>>
    BY <2>2
  <2>3. CASE s.created /\ Links!NewLink(k)
    BY <1>1, <1>2, <2>1, <2>3, LinkMade DEF LinkTypes
  <2>. QED  BY <1>2, <2>2, <2>3
<1>5. /\ call' \in [Tries -> LinkCalls]
      /\ \A l \in Tries : LinkCallOK(call[l])'
      /\ \A l, m \in Tries : l # m => Apart(call'[l], call'[m])
  BY <1>2, <1>3, <1>4, OtherCalls
<1>6. /\ claims' \in Seq(ClaimRows) /\ \A c : Given(c) \subseteq Given(c)'
      /\ Links!Ids' = Links!Ids
  BY <1>1, <1>3, GivenGrows DEF ClaimsOnlyEnd, Links!Ids
<1>7. (\A c \in Chars : bio'[c] \subseteq Given(c)') /\ \A i \in Links!Ids' : claims'[i].issued <= clock'
  BY <1>1, <1>2, <1>3, <1>6 DEF LinkWorld, ClaimsOnlyEnd
<1>8. Links!ClaimsBounded'
  BY <1>1, <1>2, <1>3, ClaimsStayBounded DEF LinkInv
<1>9. \A p \in proofs : ProofOK(p)'
  BY <1>1, <1>3, ProofsStay DEF LinkWorld
<1>10. CASE UNCHANGED <<owner, linked, main, sync, proofs>>
  <2>1. LinkTypes' /\ LinkWorld' /\ Links!MainIsLinked'
    BY <1>1, <1>2, <1>5, <1>6, <1>7, <1>9, <1>10 DEF LinkTypes, LinkWorld, Links!MainIsLinked
  <2>. QED  BY <1>5, <1>8, <2>1 DEF LinkInv
<1>11. CASE s.created /\ Links!NewLink(k) /\ Consumes(k)
  <2>1. /\ s.user \in Users /\ s.char \in Chars /\ owner[s.char] = NoUser
        /\ owner' = [owner EXCEPT ![s.char] = s.user] /\ linked' = linked \cup {s.user}
        /\ main' \in [Users -> Chars \cup {NoChar}] /\ sync' \in [Users -> BOOLEAN]
        /\ \A v \in Users \ {s.user} : main'[v] = main[v]
        /\ main'[s.user] = IF s.becomes THEN s.char ELSE main[s.user]
        /\ proofs' = IF s.verify THEN proofs \cup {[claim |-> s.id, at |-> clock]} ELSE proofs
    BY <1>2, <1>11, LinkMade
  <2>2. s.id \in Nat
    BY <1>1 DEF LinkCalls
  <2>3. LinkTypes'
    BY <1>1, <1>2, <1>5, <1>6, <2>1, <2>2 DEF LinkTypes
  <2>4. Links!MainIsLinked'
    BY <1>1, <2>1, LinkConstants DEF Links!MainIsLinked, LinkTypes
  <2>5. \A c \in Chars : owner'[c] # NoUser => owner'[c] \in linked'
    BY <1>1, <2>1 DEF LinkTypes, LinkWorld
  <2>6. CASE s.verify
    <3>1. s.id \in Links!Ids /\ s.id \in Given(s.char)
      BY <1>1, <1>2, <2>6 DEF LinkCallOK, Given
    <3>2. ~claims[s.id].consumed /\ claims[s.id].expires > clock /\ claims'[s.id].consumed
      <4>1. claims[s.id] \in ClaimRows /\ claims' = [claims EXCEPT ![s.id].consumed = TRUE]
            /\ Links!Unfinished(s.id) /\ claims[s.id].expires > clock
        BY <1>1, <1>11, <2>6, <3>1, ClaimTypes DEF Consumes
      <4>2. claims \in [Links!Ids -> ClaimRows]
        BY <1>1, ClaimTypes, LenProperties DEF LinkTypes
      <4>. QED  BY <3>1, <4>1, <4>2 DEF Links!Unfinished, ClaimRows
    <3>3. \A p \in proofs : p.claim # s.id
      BY <1>1, <3>2 DEF LinkWorld, ProofOK
    <3>4. PICK p : p = [claim |-> s.id, at |-> clock]
      OBVIOUS
    <3>5. p.claim = s.id /\ p.at = clock /\ proofs' = proofs \cup {p}
      BY <2>1, <2>6, <3>4
    <3>6. claims[s.id].expires \in Nat /\ claims[s.id].issued <= clock
      BY <1>1, <3>1, ClaimTypes DEF LinkWorld, ClaimRows
    <3>7. ProofOK(p)'
      BY <1>1, <1>3, <1>6, <3>1, <3>2, <3>5, <3>6 DEF ProofOK, ClaimsOnlyEnd, Given
    <3>8. \A q \in proofs' : ProofOK(q)'
      BY <1>9, <3>5, <3>7
    <3>9. \A q, r \in proofs' : q.claim = r.claim => q = r
      BY <1>1, <3>3, <3>5 DEF LinkWorld
    <3>. QED  BY <1>1, <1>2, <1>5, <1>7, <1>8, <2>3, <2>4, <2>5, <3>8, <3>9 DEF LinkWorld, LinkInv
  <2>7. CASE ~s.verify
    BY <1>1, <1>2, <1>5, <1>7, <1>8, <1>9, <2>1, <2>3, <2>4, <2>5, <2>7 DEF LinkWorld, LinkInv
  <2>. QED  BY <2>6, <2>7
<1>. QED  BY <1>2, <1>10, <1>11

LEMMA LinkStart == Links!Init => LinkInv
<1>. SUFFICES ASSUME Links!Init PROVE LinkInv
  OBVIOUS
<1>1. /\ clock = 0 /\ claims = <<>> /\ bio = [c \in Chars |-> {}]
      /\ owner = [c \in Chars |-> NoUser] /\ linked = {}
      /\ main = [u \in Users |-> NoChar] /\ sync = [u \in Users |-> FALSE]
      /\ proofs = {} /\ clashed = FALSE /\ call = [k \in Tries |-> Links!Idle]
  BY DEF Links!Init
<1>2. Links!Ids = {} /\ claims \in Seq(ClaimRows)
  BY <1>1 DEF Links!Ids
<1>3. LinkTypes
  BY <1>1, <1>2, IdleCall DEF LinkTypes
<1>4. LinkWorld /\ Links!MainIsLinked
  BY <1>1, <1>2 DEF LinkWorld, Links!MainIsLinked
<1>5. Links!ClaimsBounded
  <2>. DEFINE valid == {i \in Links!Ids : Links!Unfinished(i) /\ claims[i].expires > clock}
  <2>1. valid = {} /\ \A u \in Users : {i \in valid : claims[i].user = u} = {}
    BY <1>2
  <2>2. Cardinality({}) = 0 /\ 0 <= AllLimit /\ 0 <= OwnLimit
    BY FS_EmptySet, LinkConstants
  <2>. HIDE DEF valid
  <2>3. Cardinality(valid) <= AllLimit /\ \A u \in Users : Cardinality({i \in valid : claims[i].user = u}) <= OwnLimit
    BY <2>1, <2>2
  <2>. QED  BY Zenon, <2>3, SameCount DEF Links!ClaimsBounded, valid
<1>6. \A k, l \in Tries : LinkCallOK(call[k]) /\ Apart(call[k], call[l])
  BY <1>1, IdleKnows
<1>. QED  BY <1>3, <1>4, <1>5, <1>6 DEF LinkInv

LEMMA LinkStep == ASSUME LinkInv, Links!Next \/ UNCHANGED Links!vars PROVE LinkInv'
<1>1. \/ UNCHANGED Links!vars
      \/ \E u \in Users, c \in Chars :
           (\E k \in Tries : Links!Begin(k, u, c)) \/ Links!Unclaim(u, c) \/ Links!SetMain(u, c)
      \/ \E u \in Users, on \in BOOLEAN : Links!SetSync(u, on)
      \/ \E k \in Tries : Links!Continue(k)
      \/ \E i \in Links!Ids : Links!Publish(i)
      \/ Links!Tick
  BY Zenon DEF Links!Next
<1>2. CASE UNCHANGED Links!vars
  <2>1. UNCHANGED <<clock, claims, bio, owner, linked, main, sync, proofs, clashed, call>>
    BY <1>2 DEF Links!vars, Links!links
  <2>2. LinkTypes' /\ LinkWorld' /\ Links!MainIsLinked' /\ ClaimsOnlyEnd /\ Len(claims') = Len(claims)
        /\ clock <= clock'
    BY <2>1, SameClaims DEF LinkInv, LinkTypes, LinkWorld, Given, ProofOK, Links!Ids, Links!MainIsLinked
  <2>. QED  BY <2>1, <2>2, NoCallSteps
<1>3. CASE \E k \in Tries : Links!Continue(k)
  BY <1>3, CountsKeep, InsertKeeps, ProofsRead, TrustKeeps, LinkCommits DEF Links!Continue
<1>. QED
  BY <1>1, <1>2, <1>3, CallsBegin, UnclaimKeeps, ChoicesKeep, PublishKeeps, LinkTicks

\* A step that gives a character to someone leaves every choice that was made.
LEMMA ChoicesStay ==
  ASSUME LinkInv, Links!Next, NEW u \in Users, owner' # owner,
         \A c \in Chars : owner[c] = u => owner'[c] = u
  PROVE  /\ main[u] # NoChar => main'[u] = main[u]
         /\ u \in linked => sync'[u] = sync[u]
<1>1. LinkTypes /\ Links!MainIsLinked
  BY DEF LinkInv
<1>2. \/ \E v \in Users, c \in Chars : Links!Unclaim(v, c)
      \/ \E k \in Tries : Links!Commit(k)
  <2>1. ASSUME NEW k \in Tries, Links!Continue(k) PROVE Links!Commit(k)
    <3>1. CASE Links!Insert(k)
      BY <3>1 DEF Links!Insert, Links!links
    <3>. QED
      BY <2>1, <3>1 DEF Links!Continue, Links!Count, Links!RefuseProof, Links!AnswerVerified, Links!AcceptProof,
                        Links!Trust, Links!Crash, Links!links
  <2>2. ASSUME NEW k \in Tries, NEW v \in Users, NEW c \in Chars PROVE ~Links!Begin(k, v, c)
    BY DEF Links!Begin, Links!BeginClaim, Links!ReadProfile, Links!BeginAssign, Links!links
  <2>3. ASSUME NEW v \in Users, NEW c \in Chars PROVE ~Links!SetMain(v, c)
    BY DEF Links!SetMain
  <2>4. ASSUME NEW v \in Users, NEW on PROVE ~Links!SetSync(v, on)
    BY DEF Links!SetSync
  <2>5. ASSUME NEW i PROVE ~Links!Publish(i)
    BY DEF Links!Publish, Links!links
  <2>6. ~Links!Tick
    BY DEF Links!Tick, Links!links
  <2>. QED  BY Zenon, <2>1, <2>2, <2>3, <2>4, <2>5, <2>6 DEF Links!Next
<1>3. ASSUME NEW v \in Users, NEW c \in Chars, Links!Unclaim(v, c)
      PROVE  (main[u] # NoChar => main'[u] = main[u]) /\ sync'[u] = sync[u]
  <2>1. v # u
    BY <1>1, <1>3, LinkConstants DEF Links!Unclaim, LinkTypes
  <2>. QED  BY <1>1, <1>3, <2>1 DEF Links!Unclaim, LinkTypes
<1>4. ASSUME NEW k \in Tries, Links!Commit(k)
      PROVE  (main[u] # NoChar => main'[u] = main[u]) /\ (u \in linked => sync'[u] = sync[u])
  <2>1. call[k].pc = "trusting" /\ call[k].created /\ Links!NewLink(k)
    BY <1>4, Commits
  <2>2. /\ \A v \in Users \ {call[k].user} : main'[v] = main[v] /\ sync'[v] = sync[v]
        /\ main'[call[k].user] = IF call[k].becomes THEN call[k].char ELSE main[call[k].user]
        /\ call[k].becomes => main[call[k].user] = NoChar
        /\ call[k].user \in linked => sync' = sync
    BY <2>1, LinkMade
  <2>. QED  BY <2>2
<1>. QED  BY <1>2, <1>3, <1>4

\* A link by /verify has the controller's proof, mains and limits hold, no race meets a
\* unique index, and a link changes no choice, for any members, characters, concurrent
\* calls and limits (claim(), verify(), assign(), trust(), unclaim()).
THEOREM LinksStayProved == PartsSpec => LinksAreProved
<1>. DEFINE all == <<part, vars, linkVars, nickVars, pauseVars>>
            Undisturbed == \A u \in Users : owner' # owner /\ (\A c \in Chars : owner[c] = u => owner'[c] = u) =>
                      /\ main[u] # NoChar => main'[u] = main[u]
                      /\ u \in linked => sync'[u] = sync[u]
<1>1. PartsInit => LinkInv
  BY LinkStart DEF PartsInit
<1>2. [PartsNext]_all => Links!Next \/ UNCHANGED Links!vars
  BY DEF PartsNext, Moves, linkVars, Links!vars, Links!links
<1>3. LinkInv /\ [PartsNext]_all => LinkInv'
  BY <1>2, LinkStep
<1>4. LinkInv /\ [PartsNext]_all => [Undisturbed]_(Links!vars)
  BY <1>2, ChoicesStay
<1>5. LinkInv => /\ Links!ProvedByController /\ Links!RacesAreAnswered
                 /\ Links!MainIsLinked /\ Links!ClaimsBounded
  BY DEF LinkInv, LinkWorld, ProofOK, Links!ProvedByController, Links!RacesAreAnswered
<1>. QED
  BY <1>1, <1>3, <1>4, <1>5, PTL DEF PartsSpec, LinksAreProved, Links!LinkingKeepsChoices

-----------------------------------------------------------------------------
(* Pauses (Moderation) *)

PauseRows == [level : {"manager", "moderator"}, until : Nat]
PauseCalls == [op : {"none", "block", "lift"}, level : {"none", "manager", "moderator"},
               features : SUBSET Features, length : Nat, tx : Nat]

\* What a call may do was settled before its transaction began, and a feature that only
\* managers pause has a manager's row.
PauseCallOK(s) ==
  /\ s.tx <= hour
  /\ s.op # "none" => s.level \in {"manager", "moderator"}
  /\ s.op = "block" /\ s.level = "moderator" => s.features \cap ManagerOnly = {}

PauseInv ==
  /\ hour \in Nat /\ open \in [Features -> PauseRows \cup {None}]
  /\ pausing \in [Tries -> PauseCalls] /\ clash = FALSE
  /\ \A c \in Tries : PauseCallOK(pausing[c])
  /\ \A f \in ManagerOnly : open[f] # None => open[f].level = "manager"

LEMMA PauseConstants ==
  /\ ManagerOnly \subseteq Features /\ Lengths \subseteq Nat \ {0}
  /\ PauseHorizon \in Nat /\ Forever \in Nat
  BY PausesAssumption DEF Pauses!ConstantsOK

LEMMA NoPauseCall == Pauses!NoCall \in PauseCalls /\ Pauses!NoCall.op = "none" /\ Pauses!NoCall.tx = 0
  BY DEF Pauses!NoCall, PauseCalls

LEMMA PauseEnds ==
  ASSUME PauseInv, NEW c \in Tries, Pauses!Ends(c), hour' = hour
  PROVE  /\ pausing' \in [Tries -> PauseCalls] /\ pausing'[c] = Pauses!NoCall
         /\ \A d \in Tries : PauseCallOK(pausing[d])'
<1>1. pausing' \in [Tries -> PauseCalls] /\ pausing'[c] = Pauses!NoCall
      /\ \A d \in Tries \ {c} : pausing'[d] = pausing[d]
  BY NoPauseCall DEF PauseInv, Pauses!Ends
<1>. QED  BY <1>1, NoPauseCall DEF PauseInv, PauseCallOK

\* What is open after the ended rows are closed.
LEMMA StillOpen ==
  ASSUME PauseInv, NEW t \in Nat
  PROVE  /\ Pauses!CloseEnded(t) \in [Features -> PauseRows \cup {None}]
         /\ \A f \in Features :
              Pauses!CloseEnded(t)[f] = IF Pauses!Active(f, t) THEN open[f] ELSE None
  BY DEF PauseInv, Pauses!CloseEnded

LEMMA PausesSet ==
  ASSUME PauseInv, NEW c \in Tries, Pauses!Blocks(c)
  PROVE  /\ PauseInv'
         /\ \A f \in Features : Pauses!Active(f, hour) /\ open'[f] # open[f] =>
              /\ f \in pausing[c].features /\ pausing'[c] = Pauses!NoCall
              /\ open[f].level = "manager" \/ f \in ManagerOnly => pausing[c].level = "manager"
<1>. DEFINE t == pausing[c].tx
            table == Pauses!CloseEnded(t)
            new == [level |-> pausing[c].level, until |-> Pauses!Until(c)]
<1>1. /\ pausing[c] \in PauseCalls /\ PauseCallOK(pausing[c]) /\ pausing[c].op = "block"
      /\ t \in Nat /\ t <= hour /\ hour \in Nat /\ pausing[c].level \in {"manager", "moderator"}
  BY DEF Pauses!Blocks, PauseInv, PauseCalls, PauseCallOK
<1>2. /\ table \in [Features -> PauseRows \cup {None}]
      /\ \A f \in Features : table[f] = IF Pauses!Active(f, t) THEN open[f] ELSE None
  BY <1>1, StillOpen
<1>3. new \in PauseRows /\ new.level = pausing[c].level
  BY <1>1, PauseConstants DEF PauseRows, Pauses!Until, PauseCalls
<1>4. ~\E f \in pausing[c].features : table[f] # None /\ ~Pauses!Active(f, t)
  BY <1>1, <1>2 DEF PauseCalls
<1>5. /\ open' = [f \in Features |-> IF f \in pausing[c].features THEN new ELSE table[f]]
      /\ clash' = clash /\ Pauses!Ends(c) /\ hour' = hour /\ Pauses!Touches(c)
  BY <1>4 DEF Pauses!Blocks
<1>6. /\ pausing' \in [Tries -> PauseCalls] /\ pausing'[c] = Pauses!NoCall
      /\ \A d \in Tries : PauseCallOK(pausing[d])'
  BY <1>5, PauseEnds
<1>. HIDE DEF new, table, t
<1>7. \A f \in ManagerOnly : open'[f] # None => open'[f].level = "manager"
  BY <1>1, <1>2, <1>3, <1>5, PauseConstants DEF PauseInv, PauseCallOK
<1>8. PauseInv'
  BY <1>2, <1>3, <1>5, <1>6, <1>7 DEF PauseInv
<1>9. ASSUME NEW f \in Features, Pauses!Active(f, hour), open'[f] # open[f]
      PROVE  /\ f \in pausing[c].features
             /\ open[f].level = "manager" \/ f \in ManagerOnly => pausing[c].level = "manager"
  <2>1. Pauses!Active(f, t)
    BY <1>1, <1>9 DEF Pauses!Active, PauseInv, PauseRows
  <2>2. f \in pausing[c].features
    BY <1>2, <1>5, <1>9, <2>1
  <2>3. open[f].level = "manager" => pausing[c].level = "manager"
    BY <1>5, <2>1, <2>2 DEF Pauses!Touches, t
  <2>. QED  BY <1>1, <2>2, <2>3 DEF PauseCallOK
<1>. QED  BY <1>6, <1>8, <1>9

LEMMA PausesLifted ==
  ASSUME PauseInv, NEW c \in Tries, Pauses!Lifts(c)
  PROVE  /\ PauseInv'
         /\ \A f \in Features : Pauses!Active(f, hour) /\ open'[f] # open[f] =>
              /\ f \in pausing[c].features /\ pausing'[c] = Pauses!NoCall
              /\ open[f].level = "manager" \/ f \in ManagerOnly => pausing[c].level = "manager"
<1>. DEFINE t == pausing[c].tx
            table == Pauses!CloseEnded(t)
<1>1. /\ pausing[c] \in PauseCalls /\ t \in Nat /\ t <= hour /\ hour \in Nat
  BY DEF PauseInv, PauseCalls, PauseCallOK
<1>2. /\ table \in [Features -> PauseRows \cup {None}]
      /\ \A f \in Features : table[f] = IF Pauses!Active(f, t) THEN open[f] ELSE None
  BY <1>1, StillOpen
<1>3. /\ open' = [f \in Features |-> IF f \in pausing[c].features /\ Pauses!Active(f, t) THEN None ELSE table[f]]
      /\ clash' = clash /\ Pauses!Ends(c) /\ hour' = hour /\ Pauses!Touches(c)
  BY DEF Pauses!Lifts
<1>4. /\ pausing' \in [Tries -> PauseCalls] /\ pausing'[c] = Pauses!NoCall
      /\ \A d \in Tries : PauseCallOK(pausing[d])'
  BY <1>3, PauseEnds
<1>. HIDE DEF table, t
<1>5. \A f \in ManagerOnly : open'[f] # None => open'[f].level = "manager"
  BY <1>2, <1>3, PauseConstants DEF PauseInv
<1>6. PauseInv'
  BY <1>2, <1>3, <1>4, <1>5 DEF PauseInv
<1>7. ASSUME NEW f \in Features, Pauses!Active(f, hour), open'[f] # open[f]
      PROVE  /\ f \in pausing[c].features
             /\ open[f].level = "manager" \/ f \in ManagerOnly => pausing[c].level = "manager"
  <2>1. Pauses!Active(f, t)
    BY <1>1, <1>7 DEF Pauses!Active, PauseInv, PauseRows
  <2>2. f \in pausing[c].features
    BY <1>2, <1>3, <1>7, <2>1
  <2>3. open[f].level = "manager" => pausing[c].level = "manager"
    BY <1>3, <2>1, <2>2 DEF Pauses!Touches, t
  <2>4. f \in ManagerOnly => open[f].level = "manager"
    BY <2>1 DEF Pauses!Active, PauseInv
  <2>. QED  BY <2>2, <2>3, <2>4
<1>. QED  BY <1>4, <1>6, <1>7

LEMMA PausesBegin ==
  ASSUME PauseInv, NEW c \in Tries, NEW op \in {"block", "lift"}, NEW level \in {"manager", "moderator"},
         NEW features \in SUBSET Features, NEW length \in Lengths \cup {Forever},
         Pauses!Begins(c, op, level, features, length)
  PROVE  PauseInv' /\ open' = open
<1>1. PICK new : new = [op |-> op, level |-> level, features |-> features, length |-> length, tx |-> hour]
  OBVIOUS
<1>2. /\ new \in PauseCalls /\ PauseCallOK(new)
      /\ pausing' = [pausing EXCEPT ![c] = new] /\ UNCHANGED <<hour, open, clash>>
  BY <1>1, PauseConstants DEF Pauses!Begins, Pauses!MayPause, PauseInv, PauseCalls, PauseCallOK
<1>3. pausing' \in [Tries -> PauseCalls] /\ pausing'[c] = new /\ \A d \in Tries \ {c} : pausing'[d] = pausing[d]
  BY <1>2 DEF PauseInv
<1>. QED  BY <1>2, <1>3 DEF PauseInv, PauseCallOK

\* Pauses meet no index, and what a manager set or only managers may pause is changed by a
\* manager's call alone, for any calls, features and lengths (block(), lift(), closeEnded()).
THEOREM PausesStay == PartsSpec => PausesHold
<1>. DEFINE all == <<part, vars, linkVars, nickVars, pauseVars>>
            Permitted == \A f \in Features :
               Pauses!Active(f, hour) /\ open'[f] # open[f] =>
                 \E c \in Tries : /\ f \in pausing[c].features /\ pausing'[c] = Pauses!NoCall
                                  /\ open[f].level = "manager" \/ f \in ManagerOnly => pausing[c].level = "manager"
<1>1. PartsInit => PauseInv
  BY NoPauseCall, PauseConstants DEF PartsInit, Pauses!Init, PauseInv, PauseCallOK
<1>2. [PartsNext]_all => Pauses!Next \/ UNCHANGED Pauses!vars
  BY DEF PartsNext, Moves, pauseVars, Pauses!vars
<1>3. PauseInv /\ [PartsNext]_all => PauseInv' /\ [Permitted]_(Pauses!vars)
  <2>. SUFFICES ASSUME PauseInv, Pauses!Next \/ UNCHANGED Pauses!vars PROVE PauseInv' /\ [Permitted]_(Pauses!vars)
    BY <1>2
  <2>1. CASE UNCHANGED Pauses!vars
    BY <2>1 DEF Pauses!vars, PauseInv, PauseCallOK
  <2>2. CASE Pauses!Tick
    <3>1. UNCHANGED <<open, pausing, clash>> /\ hour' \in Nat /\ hour <= hour'
      BY <2>2 DEF Pauses!Tick, PauseInv
    <3>2. PauseInv'
      BY <3>1 DEF PauseInv, PauseCallOK, PauseCalls
    <3>. QED  BY <3>1, <3>2
  <2>3. ASSUME NEW c \in Tries, Pauses!RollsBack(c) PROVE PauseInv' /\ open' = open
    BY <2>3, PauseEnds DEF Pauses!RollsBack, PauseInv
  <2>4. ASSUME NEW c \in Tries, Pauses!Blocks(c) \/ Pauses!Lifts(c) PROVE PauseInv' /\ Permitted
    BY <2>4, PausesSet, PausesLifted
  <2>5. \/ UNCHANGED Pauses!vars \/ Pauses!Tick
        \/ \E c \in Tries :
             \/ \E op \in {"block", "lift"}, level \in {"manager", "moderator"}, features \in SUBSET Features,
                   length \in Lengths \cup {Forever} : Pauses!Begins(c, op, level, features, length)
             \/ Pauses!Blocks(c) \/ Pauses!Lifts(c) \/ Pauses!RollsBack(c)
    BY Zenon DEF Pauses!Next
  <2>. QED  BY <2>1, <2>2, <2>3, <2>4, <2>5, PausesBegin
<1>4. PauseInv => ~clash
  BY DEF PauseInv
<1>. QED  BY <1>1, <1>3, <1>4, PTL DEF PartsSpec, PausesHold, Pauses!PausesHold

-----------------------------------------------------------------------------
(* The nickname (NicknameSync) *)

\* Somebody still has to change the nickname: it is to be restored, or sync shows one.
Wants(r) == r.restore \/ (r.enabled /\ r.main # NoChar)
\* The row knows a nickname as the bot's own.
Knows(r, n) == (r.written /\ r.last = n) \/ (r.pending /\ r.expected = n)
\* Two readings of the row agree on what was recorded of the bot's work.
Agree(r, s) ==
  /\ r.baselineSet = s.baselineSet /\ r.before = s.before /\ r.last = s.last
  /\ r.written = s.written /\ r.expected = s.expected /\ r.pending = s.pending

NickPcs == {"idle", "fetched", "read", "restoring", "naming",
            "restored", "named", "keptRestoring", "keptNaming"}
NickTypes ==
  /\ nick \in Nick!Names /\ wished \in Manual /\ nickRow \in Nick!Row /\ here \in SUBSET Chars
  /\ fresh \in BOOLEAN /\ nickWorker \in [pc : NickPcs, seen : Nick!Names, row : Nick!Row]
  /\ nickRow.main # NoChar => nickRow.main \in here
  /\ nickRow.suspended => ~nickRow.enabled
  /\ count \in [edits : Nat, wishes : Nat, faults : Nat]

\* A nickname of the bot's is known as such, with the member's own to come back to.
NickHolds ==
  /\ nick \in Manual => nick = wished
  /\ nick \in Chars => /\ Wants(nickRow) /\ Knows(nickRow, nick)
                       /\ nickRow.baselineSet /\ nickRow.before = wished
  /\ ~fresh => nick \in Manual /\ nickWorker.pc = "idle"
  /\ nickRow.baselineSet =>
       /\ nickRow.before \in Manual
       /\ nickRow.written => nickRow.last \in Chars \cup {nickRow.before}
       /\ nickRow.pending => nickRow.expected \in Chars \cup {nickRow.before}

\* What an attempt knows of the nickname it saw and the row it read, up to its write
\* and after it.
BeforeWrite == {"fetched", "read", "restoring", "naming"}
NickAttempt ==
  /\ nickWorker.pc \in BeforeWrite =>
       /\ nick \in Chars => nick = nickWorker.seen
       /\ nickWorker.seen \in Chars =>
            Wants(nickRow) /\ nickRow.baselineSet /\ Knows(nickRow, nickWorker.seen)
  /\ nickWorker.pc = "read" /\ (nickWorker.row.restore \/ Nick!Syncs) =>
       Wants(nickRow) /\ Agree(nickRow, nickWorker.row)
  /\ nickWorker.pc \notin {"idle", "fetched", "read"} => Wants(nickRow)
  /\ nickWorker.pc = "restoring" =>
       /\ nickWorker.seen \in Chars /\ nickRow.before = nickWorker.row.before
       /\ nickRow.pending /\ nickRow.expected = nickRow.before
  /\ nickWorker.pc = "naming" =>
       /\ nickWorker.row.main \in Chars /\ nickRow.baselineSet
       /\ nickRow.pending /\ nickRow.expected = nickWorker.row.main
       /\ nickWorker.seen \in Manual => nickRow.before = nickWorker.seen
  /\ nickWorker.pc \in {"restored", "keptRestoring", "keptNaming"} => nick \in Manual
  /\ nickWorker.pc = "named" => /\ nickWorker.row.main \in Chars
                                /\ nick \in Chars => nick = nickWorker.row.main

\* Until somebody edits the nickname nothing looks like an edit.
NickUntouched ==
  count.edits = 0 =>
    /\ ~nickRow.suspended
    /\ nickRow.baselineSet /\ nick \in Manual =>
         /\ nickRow.before = nick
         /\ ~nickRow.written \/ Knows(nickRow, nick)
    /\ nickWorker.pc \in BeforeWrite => nick = nickWorker.seen
    /\ nickWorker.pc \notin {"keptRestoring", "keptNaming"}
    /\ nickWorker.pc = "named" => nick = nickWorker.row.main

NickInv == NickTypes /\ NickHolds /\ NickAttempt /\ NickUntouched

-----------------------------------------------------------------------------
LEMMA NickConstants ==
  NoNick \in Manual /\ Manual \cap Chars = {} /\ NoChar \notin Chars \cup Manual
  BY NickAssumption DEF Nick!ConstantsOK

\* What a command does: the row keeps what was recorded of the bot's work, unless
\* nothing is left to do and sync is turned on again.
Commands ==
  /\ UNCHANGED <<nick, fresh, nickWorker, wished>> /\ count'.edits = count.edits
  /\ count' \in [edits : Nat, wishes : Nat, faults : Nat]
  /\ nickRow' \in Nick!Row /\ here' \in SUBSET Chars
  /\ nickRow'.main # NoChar => nickRow'.main \in here'
  /\ nickRow'.suspended => ~nickRow'.enabled /\ nickRow.suspended
  /\ Wants(nickRow) => Wants(nickRow') /\ Agree(nickRow', nickRow)
  /\ nickRow'.baselineSet => Agree(nickRow', nickRow)

LEMMA CommandsKeep ==
  ASSUME NickInv, Commands
  PROVE  NickInv'
<1>1. NickTypes'
  BY DEF NickInv, NickTypes, Commands
<1>2. NickHolds'
  BY NickConstants DEF NickInv, NickTypes, NickHolds, Commands, Agree, Knows, Nick!Names
<1>3. NickAttempt'
  BY DEF NickInv, NickAttempt, Commands, Agree, Knows, Nick!Syncs
<1>4. NickUntouched'
  BY DEF NickInv, NickUntouched, Commands, Agree, Knows
<1>. QED  BY <1>1, <1>2, <1>3, <1>4 DEF NickInv

LEMMA EachCommand ==
  ASSUME NickInv,
         \/ \E c \in Chars : Nick!LinkCharacter(c) \/ Nick!EndLink(c) \/ Nick!SetMain(c)
         \/ Nick!TurnOn \/ Nick!TurnOff
  PROVE  Commands
<1>. USE DEF NickInv, NickTypes
<1>1. Nick!Wishes => count'.edits = count.edits /\ count' \in [edits : Nat, wishes : Nat, faults : Nat]
  BY DEF Nick!Wishes
<1>2. ASSUME NEW c \in Chars, Nick!LinkCharacter(c) PROVE Commands
  <2>1. PICK first \in BOOLEAN :
          /\ first => nickRow.main = NoChar /\ ~nickRow.enabled
          /\ nickRow' = IF first THEN [nickRow EXCEPT !.main = c, !.enabled = TRUE, !.suspended = FALSE]
                        ELSE IF nickRow.main = NoChar /\ here = {}
                        THEN [nickRow EXCEPT !.main = c, !.restore = @ /\ ~nickRow.enabled]
                        ELSE nickRow
    BY <1>2 DEF Nick!LinkCharacter, Nick!Saved
  <2>2. UNCHANGED <<nick, fresh, nickWorker, wished>> /\ Nick!Wishes /\ here' = here \cup {c}
    BY <1>2 DEF Nick!LinkCharacter
  <2>. QED  BY <1>1, <2>1, <2>2, NickConstants DEF Commands, Wants, Agree, Nick!Row
<1>3. ASSUME NEW c \in Chars, Nick!EndLink(c) PROVE Commands
  BY <1>1, <1>3, NickConstants DEF Nick!EndLink, Nick!Saved, Commands, Wants, Agree, Nick!Row
<1>4. ASSUME NEW c \in Chars, Nick!SetMain(c) PROVE Commands
  BY <1>1, <1>4, NickConstants DEF Nick!SetMain, Nick!Saved, Commands, Wants, Agree, Nick!Row
<1>5. CASE Nick!TurnOn
  BY <1>1, <1>5, NickConstants DEF Nick!TurnOn, Nick!Saved, Commands, Wants, Agree, Nick!Row
<1>6. CASE Nick!TurnOff
  BY <1>1, <1>6, NickConstants DEF Nick!TurnOff, Nick!Saved, Commands, Wants, Agree, Nick!Row
<1>. QED  BY <1>2, <1>3, <1>4, <1>5, <1>6

\* What the member does in Discord.
ByHand ==
  /\ nick' \in Manual /\ wished' = nick' /\ UNCHANGED <<nickRow, here, nickWorker>>
  /\ count' \in [edits : Nat, wishes : Nat, faults : Nat] /\ count'.edits # 0
  /\ fresh' \in BOOLEAN
  /\ ~fresh' => ~fresh \/ nickWorker.pc = "idle"

LEMMA ByHandKeeps ==
  ASSUME NickInv, ByHand
  PROVE  NickInv'
<1>0. nick' \in Nick!Names /\ nick' \notin Chars
  BY NickConstants DEF ByHand, Nick!Names
<1>1. NickTypes'
  BY <1>0 DEF NickInv, NickTypes, ByHand
<1>2. NickHolds'
  <2>1. nickRow' = nickRow /\ nick' \in Manual /\ wished' = nick'
        /\ (~fresh' => nickWorker'.pc = "idle")
    BY DEF NickInv, NickHolds, ByHand
  <2>. QED  BY <1>0, <2>1 DEF NickInv, NickHolds
<1>3. NickAttempt'
  BY NickConstants DEF NickInv, NickAttempt, ByHand, Nick!Syncs
<1>4. NickUntouched'
  BY DEF NickInv, NickUntouched, ByHand
<1>. QED  BY <1>1, <1>2, <1>3, <1>4 DEF NickInv

LEMMA EachByHand ==
  ASSUME NickInv, (\E n \in Manual : Nick!Edit(n)) \/ Nick!Rejoin
  PROVE  ByHand
<1>1. \/ count' = [count EXCEPT !.edits = @ + 1]
  BY DEF Nick!Edit, Nick!Rejoin
<1>2. count' \in [edits : Nat, wishes : Nat, faults : Nat] /\ count'.edits # 0
  BY <1>1 DEF NickInv, NickTypes
<1>. QED  BY <1>2, NickConstants DEF Nick!Edit, Nick!Rejoin, ByHand, NickInv, NickTypes, Nick!At

LEMMA JoinedKeeps ==
  ASSUME NickInv, Nick!Joined
  PROVE  NickInv'
<1>1. /\ ~fresh /\ fresh' = TRUE /\ UNCHANGED <<nick, here, nickWorker, wished, count>>
      /\ nickRow' = [nickRow EXCEPT !.baselineSet = FALSE, !.pending = FALSE]
  BY DEF Nick!Joined, Nick!Saved
<1>2. /\ nickRow' \in Nick!Row /\ ~nickRow'.baselineSet /\ nickRow'.main = nickRow.main
      /\ nickRow'.suspended = nickRow.suspended /\ nickRow'.enabled = nickRow.enabled
  BY <1>1 DEF NickInv, NickTypes, Nick!Row
<1>3. nick \in Manual /\ nickWorker.pc = "idle"
  BY <1>1 DEF NickInv, NickHolds
<1>4. NickTypes' /\ NickHolds' /\ NickUntouched'
  BY <1>1, <1>2, <1>3, NickConstants DEF NickInv, NickTypes, NickHolds, NickUntouched, BeforeWrite
<1>5. NickAttempt'
  BY <1>1, <1>3, NickConstants DEF NickAttempt, BeforeWrite
<1>. QED  BY <1>4, <1>5 DEF NickInv

-----------------------------------------------------------------------------
\* A row an attempt may leave behind, with the nickname as it is.
GoodRow(r) ==
  /\ r \in Nick!Row /\ r.main = nickRow.main
  /\ r.suspended => ~r.enabled
  /\ nick \in Chars => /\ Wants(r) /\ Knows(r, nick)
                       /\ r.baselineSet /\ r.before = wished
  /\ r.baselineSet => /\ r.before \in Manual
                      /\ r.written => r.last \in Chars \cup {r.before}
                      /\ r.pending => r.expected \in Chars \cup {r.before}
  /\ count.edits = 0 =>
       /\ ~r.suspended
       /\ r.baselineSet /\ nick \in Manual => r.before = nick /\ (~r.written \/ Knows(r, nick))

\* The member, the commands and the counters stand still, but for a failure.
Quiet ==
  /\ UNCHANGED <<here, fresh, wished>> /\ count'.edits = count.edits
  /\ count' \in [edits : Nat, wishes : Nat, faults : Nat]

LEMMA RowIsGood == NickInv => GoodRow(nickRow)
  BY DEF NickInv, NickTypes, NickHolds, NickUntouched, GoodRow

LEMMA NickIdle == Nick!Idle \in [pc : {"idle"}, seen : Nick!Names, row : Nick!Row]
  BY NickConstants DEF Nick!Idle, Nick!NewRow, Nick!Row, Nick!Names

\* An attempt that goes on or ends with a good row.
LEMMA GoesOn ==
  ASSUME NickInv, Quiet, nick' = nick, GoodRow(nickRow'),
         nickWorker' \in [pc : NickPcs, seen : Nick!Names, row : Nick!Row],
         nickWorker.pc # "idle" \/ fresh
  PROVE  NickTypes' /\ NickHolds'
<1>1. NickTypes'
  BY DEF NickInv, NickTypes, Quiet, GoodRow
<1>2. fresh'
  BY DEF NickInv, NickHolds, NickTypes, Quiet
<1>3. NickHolds'
  BY <1>2 DEF NickInv, NickHolds, Quiet, GoodRow
<1>. QED  BY <1>1, <1>3

LEMMA AttemptEnds ==
  ASSUME NickInv, Quiet, nick' = nick, GoodRow(nickRow'), nickWorker' = Nick!Idle,
         nickWorker.pc # "idle"
  PROVE  NickInv'
<1>1. nickWorker'.pc = "idle" /\ nickWorker' \in [pc : NickPcs, seen : Nick!Names, row : Nick!Row]
  BY NickIdle DEF NickPcs
<1>2. NickTypes' /\ NickHolds'
  BY <1>1, GoesOn
<1>3. NickAttempt' /\ NickUntouched'
  BY <1>1 DEF NickAttempt, NickUntouched, BeforeWrite, Quiet, GoodRow
<1>. QED  BY <1>2, <1>3 DEF NickInv

\* What an attempt with work to do reads is still so, what it saw of the bot's own the row
\* knows, and an edit it finds is one: the nickname is the member's.
LEMMA AtRead ==
  ASSUME NickInv, nickWorker.pc = "read", nickWorker.row.restore \/ Nick!Syncs
  PROVE  /\ Wants(nickRow) /\ Agree(nickRow, nickWorker.row)
         /\ Nick!OwnPending <=> nickRow.pending /\ nickWorker.seen = nickRow.expected
         /\ Nick!Independent <=>
              /\ nickRow.baselineSet /\ ~Nick!OwnPending
              /\ nickWorker.seen # (IF nickRow.written THEN nickRow.last ELSE nickRow.before)
         /\ nickWorker.seen \in Chars =>
              /\ nickRow.baselineSet /\ nickRow.before \in Manual /\ ~Nick!Independent
              /\ Knows(nickRow, nickWorker.seen)
         /\ Nick!Independent => nick \in Manual /\ count.edits # 0
<1>1. Wants(nickRow) /\ Agree(nickRow, nickWorker.row)
  BY DEF NickInv, NickAttempt
<1>2. /\ Nick!OwnPending <=> nickRow.pending /\ nickWorker.seen = nickRow.expected
      /\ Nick!Independent <=>
              /\ nickRow.baselineSet /\ ~Nick!OwnPending
              /\ nickWorker.seen # (IF nickRow.written THEN nickRow.last ELSE nickRow.before)
  BY <1>1 DEF Agree, Nick!OwnPending, Nick!Independent
<1>3. nickWorker.seen \in Chars =>
        nickRow.baselineSet /\ nickRow.before \in Manual /\ Knows(nickRow, nickWorker.seen)
  BY DEF NickInv, NickAttempt, NickHolds, BeforeWrite
<1>4. nickWorker.seen \in Chars => ~Nick!Independent
  BY <1>2, <1>3 DEF Knows
<1>5. nick \in Manual \cup Chars /\ (nick \in Chars => nick = nickWorker.seen)
  BY DEF NickInv, NickTypes, NickAttempt, BeforeWrite, Nick!Names
<1>6. ASSUME count.edits = 0, nick \in Manual PROVE ~Nick!Independent
  <2>1. nick = nickWorker.seen /\ (nickRow.baselineSet => nickRow.before = nick /\ (~nickRow.written \/ Knows(nickRow, nick)))
    BY <1>6 DEF NickInv, NickUntouched, BeforeWrite
  <2>. QED  BY <1>2, <2>1 DEF Knows
<1>. QED  BY <1>1, <1>2, <1>3, <1>4, <1>5, <1>6

LEMMA FetchKeeps ==
  ASSUME NickInv, Nick!Fetch
  PROVE  NickInv'
<1>1. /\ nickWorker' \in [pc : {"fetched"}, seen : Nick!Names, row : Nick!Row]
      /\ nickWorker'.pc = "fetched" /\ nickWorker'.seen = nick
  BY NickIdle DEF Nick!Fetch, NickInv, NickTypes
<1>2. Quiet /\ nick' = nick /\ nickRow' = nickRow /\ fresh
  BY DEF Nick!Fetch, Quiet, NickInv, NickTypes
<1>3. NickTypes' /\ NickHolds'
  BY <1>1, <1>2, GoesOn, RowIsGood DEF NickPcs
<1>4. NickAttempt'
  BY <1>1, <1>2 DEF NickInv, NickHolds, NickAttempt
<1>5. NickUntouched'
  BY <1>1, <1>2 DEF NickInv, NickUntouched, Quiet
<1>. QED  BY <1>3, <1>4, <1>5 DEF NickInv

LEMMA ReadKeeps ==
  ASSUME NickInv, Nick!ReadRow
  PROVE  NickInv'
<1>1. /\ nickWorker' \in [pc : {"read"}, seen : Nick!Names, row : Nick!Row]
      /\ nickWorker.pc = "fetched" /\ nickWorker'.pc = "read"
      /\ nickWorker'.seen = nickWorker.seen /\ nickWorker'.row = nickRow
  BY DEF Nick!ReadRow, Nick!At, NickInv, NickTypes
<1>2. Quiet /\ nick' = nick /\ nickRow' = nickRow
  BY DEF Nick!ReadRow, Quiet, NickInv, NickTypes
<1>3. NickTypes' /\ NickHolds'
  BY <1>1, <1>2, GoesOn, RowIsGood DEF NickPcs
<1>4. NickAttempt'
  <2>1. nickRow.restore \/ Nick!Syncs' => Wants(nickRow)
    BY <1>1 DEF Nick!Syncs, Wants
  <2>. QED  BY <1>1, <1>2, <2>1 DEF NickInv, NickAttempt, BeforeWrite, Agree
<1>5. NickUntouched'
  BY <1>1, <1>2 DEF NickInv, NickUntouched, Quiet, BeforeWrite
<1>. QED  BY <1>3, <1>4, <1>5 DEF NickInv

-----------------------------------------------------------------------------
\* The columns of the bot's work after Suspended(), Restored(), Settled() and Recorded().
LEMMA SuspendedRow ==
  ASSUME NEW r \in Nick!Row
  PROVE  /\ Nick!Suspended(r) \in Nick!Row
         /\ Nick!Suspended(r).main = r.main /\ Nick!Suspended(r).suspended /\ ~Nick!Suspended(r).enabled
         /\ Nick!Suspended(r).baselineSet = r.baselineSet /\ Nick!Suspended(r).before = r.before
         /\ Nick!Suspended(r).last = r.last /\ Nick!Suspended(r).written = r.written
         /\ ~Nick!Suspended(r).pending
  BY DEF Nick!Suspended, Nick!Row

LEMMA RestoredRow ==
  ASSUME NEW r \in Nick!Row, NEW restored \in BOOLEAN
  PROVE  /\ Nick!Restored(r, restored) \in Nick!Row
         /\ Nick!Restored(r, restored).main = r.main
         /\ Nick!Restored(r, restored).suspended = r.suspended
         /\ Nick!Restored(r, restored).enabled = r.enabled
         /\ ~Nick!Restored(r, restored).baselineSet
  BY DEF Nick!Restored, Nick!Row

\* A row that forgets the nickname to come back to, or suspends sync, is good once the
\* member's own nickname shows.
LEMMA GoodRestored ==
  ASSUME NickInv, nick \notin Chars, NEW r \in Nick!Row, NEW restored \in BOOLEAN,
         r.main = nickRow.main, r.suspended => ~r.enabled, count.edits = 0 => ~r.suspended
  PROVE  GoodRow(Nick!Restored(r, restored))
  BY RestoredRow DEF GoodRow

LEMMA GoodSuspended ==
  ASSUME NickInv, nick \notin Chars, count.edits # 0
  PROVE  GoodRow(Nick!Suspended(nickRow))
<1>1. nickRow \in Nick!Row
  BY DEF NickInv, NickTypes
<1>2. nickRow.baselineSet => /\ nickRow.before \in Manual
                             /\ nickRow.written => nickRow.last \in Chars \cup {nickRow.before}
  BY DEF NickInv, NickHolds
<1>. QED  BY <1>1, <1>2, SuspendedRow DEF GoodRow

LEMMA EndRestoreKeeps ==
  ASSUME NickInv, Nick!EndRestore
  PROVE  NickInv'
<1>1. /\ nickWorker.pc = "read" /\ nickWorker.row.restore /\ Quiet /\ nick' = nick
      /\ nickWorker' = Nick!Idle
  BY DEF Nick!EndRestore, Nick!At, Nick!Done, Quiet, NickInv, NickTypes
<1>2. PICK restored \in BOOLEAN :
        nickRow' = Nick!Restored(IF Nick!Independent THEN Nick!Suspended(nickRow) ELSE nickRow, restored)
  <2>1. (Nick!OwnPending /\ nickWorker.seen = nickWorker.row.before) \in BOOLEAN
    OBVIOUS
  <2>. QED  BY <2>1 DEF Nick!EndRestore
<1>3. /\ ~(/\ nickWorker.row.baselineSet /\ (nickWorker.row.written \/ Nick!OwnPending)
           /\ ~Nick!Independent /\ nickWorker.seen # nickWorker.row.before)
  BY DEF Nick!EndRestore
<1>4. nick \notin Chars
  <2>. SUFFICES ASSUME nick \in Chars PROVE FALSE
    OBVIOUS
  <2>1. nickWorker.seen = nick /\ nick \in Chars
    BY <1>1 DEF NickInv, NickAttempt, BeforeWrite
  <2>. QED  BY <1>1, <1>3, <2>1, AtRead, NickConstants DEF Agree, Knows
<1>5. nickRow \in Nick!Row /\ (nickRow.suspended => ~nickRow.enabled) /\ (count.edits = 0 => ~nickRow.suspended)
  BY DEF NickInv, NickTypes, NickUntouched
<1>6. GoodRow(nickRow')
  <2>1. CASE Nick!Independent
    BY <1>1, <1>2, <1>4, <1>5, <2>1, AtRead, SuspendedRow, GoodRestored
  <2>2. CASE ~Nick!Independent
    BY <1>2, <1>4, <1>5, <2>2, GoodRestored
  <2>. QED  BY <2>1, <2>2
<1>. QED  BY <1>1, <1>6, AttemptEnds

LEMMA NothingKeeps ==
  ASSUME NickInv, Nick!NothingToDo
  PROVE  NickInv'
<1>1. /\ nickWorker.pc = "read" /\ Quiet /\ nick' = nick /\ nickRow' = nickRow
      /\ nickWorker' = Nick!Idle
  BY DEF Nick!NothingToDo, Nick!At, Nick!Done, Quiet, NickInv, NickTypes
<1>. QED  BY <1>1, RowIsGood, AttemptEnds

LEMMA SuspendKeeps ==
  ASSUME NickInv, Nick!SuspendSync
  PROVE  NickInv'
<1>1. /\ nickWorker.pc = "read" /\ Quiet /\ nick' = nick /\ nickRow' = Nick!Suspended(nickRow)
      /\ nickWorker' = Nick!Idle /\ Nick!Syncs /\ Nick!Independent
  BY DEF Nick!SuspendSync, Nick!At, Nick!Done, Quiet, NickInv, NickTypes
<1>2. nick \notin Chars /\ count.edits # 0
  BY <1>1, AtRead, NickConstants
<1>. QED  BY <1>1, <1>2, GoodSuspended, AttemptEnds

LEMMA FailKeeps ==
  ASSUME NickInv, Nick!Fail
  PROVE  NickInv'
<1>1. /\ nickWorker.pc # "idle" /\ nick' = nick /\ nickRow' = nickRow /\ nickWorker' = Nick!Idle
      /\ UNCHANGED <<here, fresh, wished>> /\ count' = [count EXCEPT !.faults = @ + 1]
  BY DEF Nick!Fail, Nick!At, Nick!Done
<1>2. Quiet
  BY <1>1 DEF Quiet, NickInv, NickTypes
<1>. QED  BY <1>1, <1>2, RowIsGood, AttemptEnds

\* The nickname to come back to is announced: the bot's own name shows.
LEMMA BeginRestoreKeeps ==
  ASSUME NickInv, Nick!BeginRestore
  PROVE  NickInv'
<1>1. /\ nickWorker.pc = "read" /\ nickWorker.row.restore /\ Quiet /\ nick' = nick
      /\ nickRow' = [nickRow EXCEPT !.pending = TRUE, !.expected = nickRow.before,
                                    !.last = nickWorker.seen, !.written = TRUE]
      /\ nickWorker.row.baselineSet /\ (nickWorker.row.written \/ Nick!OwnPending)
      /\ ~Nick!Independent /\ nickWorker.seen # nickWorker.row.before
      /\ nickWorker' = Nick!Idle \/ nickWorker' = [nickWorker EXCEPT !.pc = "restoring"]
  BY DEF Nick!BeginRestore, Nick!At, Nick!Guarded, Nick!Done, Nick!Go, Quiet, NickInv, NickTypes
<1>2. nickRow \in Nick!Row /\ nickWorker \in [pc : NickPcs, seen : Nick!Names, row : Nick!Row]
  BY DEF NickInv, NickTypes
<1>3. /\ Wants(nickRow) /\ Agree(nickRow, nickWorker.row)
      /\ nickRow.baselineSet /\ nickRow.before \in Manual /\ nickWorker.seen # nickRow.before
  <2>1. Wants(nickRow) /\ Agree(nickRow, nickWorker.row)
    BY <1>1, AtRead
  <2>2. nickRow.baselineSet => nickRow.before \in Manual
    BY DEF NickInv, NickHolds
  <2>. QED  BY <1>1, <2>1, <2>2 DEF Agree
<1>4. nickWorker.seen \in Chars
  <2>1. \/ nickRow.pending /\ nickWorker.seen = nickRow.expected
        \/ nickRow.written /\ nickWorker.seen = nickRow.last
    BY <1>1, <1>3, AtRead DEF Agree
  <2>. QED  BY <1>3, <2>1 DEF NickInv, NickHolds
<1>5. /\ nickRow' \in Nick!Row /\ nickRow'.main = nickRow.main
      /\ nickRow'.suspended = nickRow.suspended /\ nickRow'.enabled = nickRow.enabled
      /\ nickRow'.restore = nickRow.restore /\ nickRow'.baselineSet
      /\ nickRow'.before = nickRow.before /\ nickRow'.last = nickWorker.seen /\ nickRow'.written
      /\ nickRow'.pending /\ nickRow'.expected = nickRow.before
  BY <1>1, <1>2, <1>3 DEF Nick!Row
<1>6. GoodRow(nickRow')
  <2>1. /\ nick \in Chars => nick = nickWorker.seen /\ nickRow.before = wished
        /\ count.edits = 0 => nick = nickWorker.seen /\ ~nickRow.suspended
        /\ nickRow.suspended => ~nickRow.enabled
    BY <1>1 DEF NickInv, NickTypes, NickHolds, NickAttempt, NickUntouched, BeforeWrite
  <2>. QED  BY <1>3, <1>4, <1>5, <2>1, NickConstants DEF GoodRow, Wants, Knows
<1>7. CASE nickWorker' = [nickWorker EXCEPT !.pc = "restoring"]
  <2>1. /\ nickWorker' \in [pc : NickPcs, seen : Nick!Names, row : Nick!Row]
        /\ nickWorker'.pc = "restoring" /\ nickWorker'.seen = nickWorker.seen
        /\ nickWorker'.row = nickWorker.row
    BY <1>2, <1>7 DEF NickPcs
  <2>2. NickTypes' /\ NickHolds'
    BY <1>1, <1>6, <2>1, GoesOn
  <2>3. NickAttempt'
    BY <1>1, <1>3, <1>4, <1>5, <2>1 DEF NickInv, NickAttempt, BeforeWrite, Wants, Knows, Agree
  <2>4. NickUntouched'
    BY <1>1, <1>6, <2>1 DEF NickInv, NickUntouched, BeforeWrite, Quiet, GoodRow
  <2>. QED  BY <2>2, <2>3, <2>4 DEF NickInv
<1>. QED  BY <1>1, <1>6, <1>7, AttemptEnds

-----------------------------------------------------------------------------
LEMMA SettledRow ==
  ASSUME NEW r \in Nick!Row, nickWorker.seen \in Nick!Names
  PROVE  /\ Nick!Settled(r) \in Nick!Row
         /\ Nick!Settled(r).main = r.main /\ Nick!Settled(r).suspended = r.suspended
         /\ Nick!Settled(r).enabled = r.enabled /\ Nick!Settled(r).restore = r.restore
         /\ Nick!Settled(r).baselineSet = r.baselineSet /\ Nick!Settled(r).before = r.before
         /\ Nick!Settled(r).expected = r.expected
         /\ Nick!OwnPending => /\ Nick!Settled(r).last = nickWorker.seen
                               /\ Nick!Settled(r).written /\ ~Nick!Settled(r).pending
         /\ ~Nick!OwnPending => Nick!Settled(r) = r
  BY DEF Nick!Settled, Nick!Row

LEMMA RecordedRow ==
  ASSUME NEW r \in Nick!Row, nickWorker.seen \in Nick!Names
  PROVE  /\ Nick!Recorded(r) \in Nick!Row
         /\ Nick!Recorded(r).main = r.main /\ Nick!Recorded(r).suspended = r.suspended
         /\ Nick!Recorded(r).enabled = r.enabled /\ Nick!Recorded(r).restore = r.restore
         /\ Nick!Recorded(r).last = r.last
         /\ nickWorker.row.baselineSet => Nick!Recorded(r) = r
         /\ ~nickWorker.row.baselineSet =>
              /\ Nick!Recorded(r).before = nickWorker.seen /\ Nick!Recorded(r).baselineSet
              /\ ~Nick!Recorded(r).written
  BY DEF Nick!Recorded, Nick!Row

\* The row with the nickname to come back to recorded: what the attempt saw is that
\* nickname, or the bot's own that the row knows.
LEMMA RecordedKnows ==
  ASSUME NickInv, nickWorker.pc = "read", Nick!Syncs, ~Nick!Independent,
         NEW r, r = Nick!Recorded(Nick!Settled(nickRow))
  PROVE  /\ r \in Nick!Row /\ r.main = nickRow.main /\ r.suspended = nickRow.suspended
         /\ r.enabled = nickRow.enabled /\ r.restore = nickRow.restore
         /\ r.baselineSet /\ r.before \in Manual
         /\ r.written => r.last \in Chars \cup {r.before}
         /\ nickRow.baselineSet => r.before = nickRow.before
         /\ nickWorker.seen \in Chars => nickRow.baselineSet /\ r.written /\ r.last = nickWorker.seen
         /\ nickWorker.seen \in Manual =>
              r.before = nickWorker.seen /\ (~r.written \/ r.last = nickWorker.seen)
<1>1. nickRow \in Nick!Row /\ nickWorker.seen \in Manual \cup Chars /\ nickWorker.seen \in Nick!Names
  BY DEF NickInv, NickTypes, Nick!Names
<1>2. /\ Nick!OwnPending <=> nickRow.pending /\ nickWorker.seen = nickRow.expected
      /\ ~(/\ nickRow.baselineSet /\ ~Nick!OwnPending
           /\ nickWorker.seen # (IF nickRow.written THEN nickRow.last ELSE nickRow.before))
      /\ nickRow.baselineSet = nickWorker.row.baselineSet
      /\ nickWorker.seen \in Chars => /\ nickRow.baselineSet /\ nickRow.before \in Manual
                                      /\ Knows(nickRow, nickWorker.seen)
  BY AtRead DEF Agree
<1>3. nickRow.baselineSet =>
       /\ nickRow.before \in Manual
       /\ nickRow.written => nickRow.last \in Chars \cup {nickRow.before}
       /\ nickRow.pending => nickRow.expected \in Chars \cup {nickRow.before}
  BY DEF NickInv, NickHolds
<1>. DEFINE s == Nick!Settled(nickRow)
<1>4. /\ s \in Nick!Row
      /\ s.main = nickRow.main /\ s.suspended = nickRow.suspended
      /\ s.enabled = nickRow.enabled /\ s.restore = nickRow.restore
      /\ s.baselineSet = nickRow.baselineSet /\ s.before = nickRow.before
      /\ Nick!OwnPending => s.last = nickWorker.seen /\ s.written
      /\ ~Nick!OwnPending => s.last = nickRow.last /\ s.written = nickRow.written
  BY <1>1, SettledRow
<1>. HIDE DEF s
<1>5. /\ r \in Nick!Row /\ r.main = s.main /\ r.suspended = s.suspended
      /\ r.enabled = s.enabled /\ r.restore = s.restore /\ r.last = s.last
      /\ nickRow.baselineSet => r = s
      /\ ~nickRow.baselineSet => r.before = nickWorker.seen /\ r.baselineSet /\ ~r.written
  BY <1>1, <1>2, <1>4, RecordedRow DEF s
<1>6. CASE nickRow.baselineSet
  <2>1. Nick!OwnPending => nickWorker.seen \in Chars \cup {nickRow.before}
    BY <1>2, <1>3, <1>6
  <2>2. ~Nick!OwnPending => nickWorker.seen = (IF nickRow.written THEN nickRow.last ELSE nickRow.before)
    BY <1>2, <1>6
  <2>3. nickWorker.seen \in Chars /\ ~Nick!OwnPending => nickRow.written /\ nickRow.last = nickWorker.seen
    BY <1>2 DEF Knows
  <2>. QED  BY <1>1, <1>3, <1>4, <1>5, <1>6, <2>1, <2>2, <2>3, NickConstants
<1>7. CASE ~nickRow.baselineSet
  BY <1>1, <1>2, <1>4, <1>5, <1>7, NickConstants
<1>. QED  BY <1>6, <1>7

LEMMA BeginNameKeeps ==
  ASSUME NickInv, Nick!BeginName
  PROVE  NickInv'
<1>. DEFINE r == Nick!Recorded(Nick!Settled(nickRow))
            s == Nick!Settled(nickRow)
<1>1. /\ nickWorker.pc = "read" /\ Nick!Syncs /\ ~Nick!Independent /\ Quiet /\ nick' = nick
      /\ \/ nickRow' = s /\ nickWorker' = Nick!Idle
         \/ /\ nickWorker.seen = nickWorker.row.main
            /\ nickRow' = [r EXCEPT !.pending = FALSE] /\ nickWorker' = Nick!Idle
         \/ /\ nickRow' = [r EXCEPT !.pending = TRUE, !.expected = nickWorker.row.main]
            /\ nickWorker' = Nick!Idle \/ nickWorker' = [nickWorker EXCEPT !.pc = "naming"]
  BY DEF Nick!BeginName, Nick!At, Nick!Guarded, Nick!Done, Nick!Go, Quiet, NickInv, NickTypes
<1>2. /\ nickRow \in Nick!Row /\ nickWorker \in [pc : NickPcs, seen : Nick!Names, row : Nick!Row]
      /\ nick \in Manual \cup Chars /\ (nickRow.suspended => ~nickRow.enabled)
      /\ nick \in Chars => nick = nickWorker.seen /\ nickRow.baselineSet /\ nickRow.before = wished
      /\ count.edits = 0 => nick = nickWorker.seen /\ ~nickRow.suspended
      /\ nickWorker.row.main \in Chars
  BY <1>1 DEF NickInv, NickTypes, NickHolds, NickAttempt, NickUntouched, BeforeWrite, Nick!Names,
              Nick!Syncs, Nick!Row
<1>3. Wants(nickRow)
  BY <1>1, AtRead
<1>4. /\ r \in Nick!Row /\ r.main = nickRow.main /\ r.suspended = nickRow.suspended
      /\ r.enabled = nickRow.enabled /\ r.restore = nickRow.restore
      /\ r.baselineSet /\ r.before \in Manual
      /\ r.written => r.last \in Chars \cup {r.before}
      /\ nickRow.baselineSet => r.before = nickRow.before
      /\ nickWorker.seen \in Chars => nickRow.baselineSet /\ r.written /\ r.last = nickWorker.seen
      /\ nickWorker.seen \in Manual =>
           r.before = nickWorker.seen /\ (~r.written \/ r.last = nickWorker.seen)
  BY <1>1, RecordedKnows
<1>. HIDE DEF r
<1>5. ASSUME NEW t, t \in {[r EXCEPT !.pending = FALSE],
                           [r EXCEPT !.pending = TRUE, !.expected = nickWorker.row.main]}
      PROVE  /\ GoodRow(t) /\ Wants(t) /\ t.baselineSet /\ t.before = r.before
             /\ nickWorker.seen \in Chars => Knows(t, nickWorker.seen)
  <2>1. /\ t \in Nick!Row /\ t.main = r.main /\ t.suspended = r.suspended
        /\ t.enabled = r.enabled /\ t.restore = r.restore /\ t.baselineSet = r.baselineSet
        /\ t.before = r.before /\ t.written = r.written /\ t.last = r.last
        /\ t.pending => t.expected \in Chars
    <3>1. nickWorker.row.main \in Nick!Names
      BY <1>2 DEF Nick!Names
    <3>2. CASE t = [r EXCEPT !.pending = FALSE]
      BY <1>4, <3>2 DEF Nick!Row
    <3>3. CASE t = [r EXCEPT !.pending = TRUE, !.expected = nickWorker.row.main]
      BY <1>2, <1>4, <3>1, <3>3 DEF Nick!Row
    <3>. QED  BY <1>5, <3>2, <3>3
  <2>. QED  BY <1>2, <1>3, <1>4, <2>1, NickConstants DEF GoodRow, Wants, Knows
<1>6. GoodRow(s)
  <2>1. nickWorker.seen \in Nick!Names
    BY <1>2
  <2>2. /\ s \in Nick!Row
        /\ s.main = nickRow.main /\ s.suspended = nickRow.suspended
        /\ s.enabled = nickRow.enabled /\ s.restore = nickRow.restore
        /\ s.baselineSet = nickRow.baselineSet /\ s.before = nickRow.before
        /\ Nick!OwnPending => s.last = nickWorker.seen /\ s.written /\ ~s.pending
        /\ ~Nick!OwnPending => s = nickRow
    BY <1>2, <2>1, SettledRow
  <2>3. CASE ~Nick!OwnPending
    BY <2>2, <2>3, RowIsGood
  <2>4. CASE Nick!OwnPending
    <3>1. nickRow.pending /\ nickWorker.seen = nickRow.expected
      BY <1>1, <2>4, AtRead
    <3>2. GoodRow(nickRow)
      BY RowIsGood
    <3>. HIDE DEF s
    <3>. QED  BY <1>2, <1>3, <2>2, <2>4, <3>1, <3>2, NickConstants DEF GoodRow, Wants, Knows
  <2>. QED  BY <2>3, <2>4
<1>7. CASE /\ nickRow' = [r EXCEPT !.pending = TRUE, !.expected = nickWorker.row.main]
           /\ nickWorker' = [nickWorker EXCEPT !.pc = "naming"]
  <2>1. /\ nickWorker' \in [pc : NickPcs, seen : Nick!Names, row : Nick!Row]
        /\ nickWorker'.pc = "naming" /\ nickWorker'.seen = nickWorker.seen
        /\ nickWorker'.row = nickWorker.row
    BY <1>2, <1>7 DEF NickPcs
  <2>2. /\ GoodRow(nickRow') /\ Wants(nickRow') /\ nickRow'.baselineSet /\ nickRow'.before = r.before
        /\ nickWorker.seen \in Chars => Knows(nickRow', nickWorker.seen)
    BY <1>5, <1>7
  <2>3. nickRow'.pending /\ nickRow'.expected = nickWorker.row.main
    BY <1>4, <1>7 DEF Nick!Row
  <2>4. NickTypes' /\ NickHolds'
    BY <1>1, <2>1, <2>2, GoesOn
  <2>5. NickAttempt'
    BY <1>1, <1>2, <1>4, <2>1, <2>2, <2>3 DEF NickAttempt, BeforeWrite
  <2>6. NickUntouched'
    BY <1>1, <1>2, <2>1, <2>2 DEF NickUntouched, BeforeWrite, Quiet, GoodRow
  <2>. QED  BY <2>4, <2>5, <2>6 DEF NickInv
<1>. QED  BY <1>1, <1>5, <1>6, <1>7, AttemptEnds

-----------------------------------------------------------------------------
\* A write: the announced nickname goes over the one that was seen, or over none.
LEMMA NickWriteKeeps ==
  ASSUME NickInv, Nick!Write
  PROVE  NickInv'
<1>1. /\ UNCHANGED <<nickRow, here, fresh, wished, count>>
      /\ nickWorker.pc \in {"restoring", "naming"} /\ nickWorker.pc \in BeforeWrite
      /\ IF nick = nickWorker.seen
         THEN nick' = Nick!Target /\ Nick!Go(IF nickWorker.pc = "restoring" THEN "restored" ELSE "named")
         ELSE nick' = nick /\ Nick!Go(IF nickWorker.pc = "restoring" THEN "keptRestoring" ELSE "keptNaming")
  BY DEF Nick!Write, Nick!At, BeforeWrite
<1>2. /\ nickWorker \in [pc : NickPcs, seen : Nick!Names, row : Nick!Row]
      /\ nick \in Manual \cup Chars
  BY DEF NickInv, NickTypes, Nick!Names
<1>3. /\ nickWorker' \in [pc : NickPcs, seen : Nick!Names, row : Nick!Row]
      /\ nickWorker'.seen = nickWorker.seen /\ nickWorker'.row = nickWorker.row
      /\ nickWorker'.pc = IF nick = nickWorker.seen
                          THEN (IF nickWorker.pc = "restoring" THEN "restored" ELSE "named")
                          ELSE (IF nickWorker.pc = "restoring" THEN "keptRestoring" ELSE "keptNaming")
  BY <1>1, <1>2 DEF Nick!Go, NickPcs
<1>4. Wants(nickRow) /\ (nick \in Chars => nick = nickWorker.seen) /\ fresh
  BY <1>1 DEF NickInv, NickTypes, NickHolds, NickAttempt
<1>5. CASE nick # nickWorker.seen
  <2>1. nick' = nick /\ nick \in Manual /\ nickWorker'.pc \in {"keptRestoring", "keptNaming"}
    BY <1>1, <1>2, <1>3, <1>4, <1>5
  <2>2. count.edits # 0
    BY <1>1, <1>5 DEF NickInv, NickUntouched
  <2>3. NickTypes' /\ NickHolds'
    BY <1>1, <1>3, <1>4, <2>1 DEF NickInv, NickTypes, NickHolds
  <2>4. NickAttempt' /\ NickUntouched'
    BY <1>1, <1>4, <2>1, <2>2 DEF NickAttempt, NickUntouched, BeforeWrite
  <2>. QED  BY <2>3, <2>4 DEF NickInv
<1>6. CASE nick = nickWorker.seen /\ nickWorker.pc = "restoring"
  <2>1. nick \in Chars /\ nick' = nickWorker.row.before /\ nickRow.before = nickWorker.row.before
    BY <1>1, <1>6 DEF NickInv, NickAttempt, Nick!Target, Nick!At
  <2>2. nickRow.baselineSet /\ nickRow.before = wished /\ nick' = wished /\ wished \in Manual
    BY <2>1 DEF NickInv, NickTypes, NickHolds
  <2>3. nickWorker'.pc = "restored"
    BY <1>3, <1>6
  <2>4. NickTypes' /\ NickHolds'
    BY <1>1, <1>3, <1>4, <2>2, NickConstants DEF NickInv, NickTypes, NickHolds, Nick!Names
  <2>5. NickAttempt'
    BY <1>1, <1>4, <2>2, <2>3 DEF NickAttempt, BeforeWrite
  <2>6. NickUntouched'
    <3>1. Knows(nickRow, nick')
      BY <1>6, <2>1 DEF NickInv, NickAttempt, Knows
    <3>2. count.edits = 0 => ~nickRow.suspended
      BY DEF NickInv, NickUntouched
    <3>. QED  BY <1>1, <2>1, <2>2, <2>3, <3>1, <3>2 DEF NickUntouched, BeforeWrite
  <2>. QED  BY <2>4, <2>5, <2>6 DEF NickInv
<1>7. CASE nick = nickWorker.seen /\ nickWorker.pc = "naming"
  <2>1. nick' = nickWorker.row.main
    BY <1>1, <1>7 DEF Nick!Target, Nick!At
  <2>2. /\ nickWorker.row.main \in Chars /\ nickRow.baselineSet
        /\ nickRow.pending /\ nickRow.expected = nickWorker.row.main
        /\ nick \in Manual => nickRow.before = nick
    BY <1>7 DEF NickInv, NickAttempt
  <2>3. nickRow.before = wished
    BY <1>2, <2>2 DEF NickInv, NickHolds
  <2>4. nickWorker'.pc = "named"
    BY <1>3, <1>7
  <2>5. NickTypes' /\ NickHolds'
    <3>1. nick' \in Nick!Names /\ nick' \in Chars /\ nick' \notin Manual
      BY <2>1, <2>2, NickConstants DEF Nick!Names
    <3>2. Knows(nickRow, nick')
      BY <2>1, <2>2 DEF Knows
    <3>. QED  BY <1>1, <1>3, <1>4, <2>2, <2>3, <3>1, <3>2 DEF NickInv, NickTypes, NickHolds
  <2>6. NickAttempt'
    BY <1>1, <1>3, <1>4, <2>1, <2>2, <2>4 DEF NickAttempt, BeforeWrite
  <2>7. NickUntouched'
    BY <1>1, <1>3, <2>1, <2>2, <2>4, NickConstants DEF NickInv, NickUntouched, BeforeWrite
  <2>. QED  BY <2>5, <2>6, <2>7 DEF NickInv
<1>. QED  BY <1>1, <1>5, <1>6, <1>7

\* The end of a write: what was shown is recorded, or sync stops at an edit.
LEMMA FinishKeeps ==
  ASSUME NickInv, Nick!Finish
  PROVE  NickInv'
<1>1. /\ UNCHANGED <<nick, here, fresh, wished, count>> /\ nickWorker' = Nick!Idle
      /\ nickWorker.pc \in {"restored", "keptRestoring", "named", "keptNaming"}
      /\ nickRow' = IF nickWorker.pc = "restored" THEN Nick!Restored(nickRow, TRUE)
                    ELSE IF nickWorker.pc = "keptRestoring" THEN Nick!Restored(Nick!Suspended(nickRow), FALSE)
                    ELSE IF nickWorker.pc = "named"
                    THEN [nickRow EXCEPT !.last = Nick!Target, !.written = TRUE, !.pending = FALSE]
                    ELSE Nick!Suspended(nickRow)
  BY DEF Nick!Finish, Nick!At, Nick!Done
<1>2. Quiet /\ nickRow \in Nick!Row /\ nickWorker.pc # "idle" /\ nick \in Manual \cup Chars
      /\ (nickRow.suspended => ~nickRow.enabled) /\ (count.edits = 0 => ~nickRow.suspended)
  BY <1>1 DEF Quiet, NickInv, NickTypes, NickUntouched, Nick!Names
<1>3. nickWorker.pc \in {"restored", "keptRestoring", "keptNaming"} => nick \notin Chars
  BY NickConstants DEF NickInv, NickAttempt
<1>4. CASE nickWorker.pc = "restored"
  <2>1. GoodRow(Nick!Restored(nickRow, TRUE))
    BY <1>2, <1>3, <1>4, GoodRestored
  <2>. QED  BY <1>1, <1>2, <1>4, <2>1, AttemptEnds
<1>5. CASE nickWorker.pc = "keptRestoring"
  <2>1. count.edits # 0
    BY <1>5 DEF NickInv, NickUntouched
  <2>2. GoodRow(Nick!Restored(Nick!Suspended(nickRow), FALSE))
    BY <1>2, <1>3, <1>5, <2>1, SuspendedRow, GoodRestored
  <2>. QED  BY <1>1, <1>2, <1>5, <2>2, AttemptEnds
<1>6. CASE nickWorker.pc = "keptNaming"
  <2>1. count.edits # 0
    BY <1>6 DEF NickInv, NickUntouched
  <2>2. GoodRow(Nick!Suspended(nickRow))
    BY <1>3, <1>6, <2>1, GoodSuspended
  <2>. QED  BY <1>1, <1>2, <1>6, <2>2, AttemptEnds
<1>7. CASE nickWorker.pc = "named"
  <2>1. /\ nickWorker.row.main \in Chars /\ (nick \in Chars => nick = nickWorker.row.main)
        /\ count.edits = 0 => nick = nickWorker.row.main
    BY <1>7 DEF NickInv, NickAttempt, NickUntouched
  <2>2. Nick!Target = nickWorker.row.main /\ Nick!Target \in Nick!Names
    BY <1>7, <2>1 DEF Nick!Target, Nick!At, Nick!Names
  <2>3. /\ nickRow' \in Nick!Row /\ nickRow'.main = nickRow.main
        /\ nickRow'.suspended = nickRow.suspended /\ nickRow'.enabled = nickRow.enabled
        /\ nickRow'.restore = nickRow.restore /\ nickRow'.baselineSet = nickRow.baselineSet
        /\ nickRow'.before = nickRow.before /\ nickRow'.last = nickWorker.row.main
        /\ nickRow'.written /\ ~nickRow'.pending
    BY <1>1, <1>2, <1>7, <2>2 DEF Nick!Row
  <2>4. GoodRow(nickRow')
    BY <1>2, <2>1, <2>3, RowIsGood, NickConstants DEF GoodRow, Wants, Knows
  <2>. QED  BY <1>1, <1>2, <2>4, AttemptEnds
<1>. QED  BY <1>1, <1>4, <1>5, <1>6, <1>7

LEMMA NickStart == Nick!Init => NickInv
<1>. SUFFICES ASSUME Nick!Init PROVE NickInv
  OBVIOUS
<1>1. /\ nick \in Manual /\ wished = nick /\ nickRow = Nick!NewRow /\ here = {} /\ fresh = TRUE
      /\ nickWorker = Nick!Idle /\ count = [edits |-> 0, wishes |-> 0, faults |-> 0]
  BY DEF Nick!Init
<1>2. /\ nickRow \in Nick!Row /\ nickRow.main = NoChar /\ ~nickRow.suspended /\ ~nickRow.baselineSet
  BY <1>1, NickConstants DEF Nick!NewRow, Nick!Row, Nick!Names
<1>3. /\ nickWorker \in [pc : NickPcs, seen : Nick!Names, row : Nick!Row] /\ nickWorker.pc = "idle"
  BY <1>1, NickIdle DEF NickPcs
<1>. QED  BY <1>1, <1>2, <1>3, NickConstants
          DEF NickInv, NickTypes, NickHolds, NickAttempt, NickUntouched, BeforeWrite, Nick!Names

LEMMA NickStep ==
  ASSUME NickInv, Nick!Next \/ UNCHANGED Nick!vars
  PROVE  NickInv'
<1>1. \/ UNCHANGED Nick!vars
      \/ Nick!Fetch \/ Nick!ReadRow \/ Nick!BeginRestore \/ Nick!EndRestore
      \/ Nick!NothingToDo \/ Nick!SuspendSync \/ Nick!BeginName \/ Nick!Write \/ Nick!Finish
      \/ Nick!Fail \/ Nick!Joined
      \/ (\E n \in Manual : Nick!Edit(n)) \/ Nick!Rejoin
      \/ \/ \E c \in Chars : Nick!LinkCharacter(c) \/ Nick!EndLink(c) \/ Nick!SetMain(c)
         \/ Nick!TurnOn \/ Nick!TurnOff
  BY Zenon DEF Nick!Next, Nick!Work
<1>2. CASE UNCHANGED Nick!vars
  BY <1>2 DEF Nick!vars, NickInv, NickTypes, NickHolds, NickAttempt, NickUntouched, Nick!Syncs
<1>. QED  BY <1>1, <1>2, FetchKeeps, ReadKeeps, BeginRestoreKeeps, EndRestoreKeeps, NothingKeeps,
          SuspendKeeps, BeginNameKeeps, NickWriteKeeps, FinishKeeps, FailKeeps, JoinedKeeps,
          EachByHand, ByHandKeeps, EachCommand, CommandsKeep

\* Only a write puts the bot's name over the member's, and that one is recorded.
LEMMA EditsStay ==
  ASSUME NickInv, Nick!Next \/ UNCHANGED Nick!vars, nick \in Manual, nick' \in Chars
  PROVE  nickRow.baselineSet /\ nickRow.before = nick
<1>1. CASE Nick!Write
  <2>1. nick' # nick
    BY NickConstants
  <2>2. /\ nickWorker.pc \in {"restoring", "naming"} /\ nick = nickWorker.seen
    BY <1>1, <2>1 DEF Nick!Write, Nick!At
  <2>. QED  BY <2>2, NickConstants DEF NickInv, NickAttempt
<1>2. ASSUME NEW n \in Manual, Nick!Edit(n) PROVE FALSE
  BY <1>2, NickConstants DEF Nick!Edit
<1>3. CASE Nick!Rejoin
  BY <1>3, NickConstants DEF Nick!Rejoin
<1>4. CASE nick' = nick
  BY <1>4, NickConstants
<1>5. Nick!Write \/ (\E n \in Manual : Nick!Edit(n)) \/ Nick!Rejoin \/ nick' = nick
  <2>1. Nick!Work => Nick!Write \/ nick' = nick
    BY DEF Nick!Work, Nick!Fetch, Nick!ReadRow, Nick!BeginRestore, Nick!EndRestore,
           Nick!NothingToDo, Nick!SuspendSync, Nick!BeginName, Nick!Finish
  <2>2. \A c \in Chars : Nick!LinkCharacter(c) \/ Nick!EndLink(c) \/ Nick!SetMain(c) => nick' = nick
    BY DEF Nick!LinkCharacter, Nick!EndLink, Nick!SetMain
  <2>3. Nick!Fail \/ Nick!TurnOn \/ Nick!TurnOff \/ Nick!Joined \/ UNCHANGED Nick!vars => nick' = nick
    BY DEF Nick!Fail, Nick!TurnOn, Nick!TurnOff, Nick!Joined, Nick!vars
  <2>. QED  BY <2>1, <2>2, <2>3 DEF Nick!Next
<1>. QED  BY <1>1, <1>2, <1>3, <1>4, <1>5

\* The member's own nickname comes back, only an edit suspends sync, and no edit is
\* overwritten that is not recorded, for any characters, nicknames, commands, edits and
\* failures, while the recorded nickname is not reset in the middle of the bot's work
\* (Synchronization.nickname(), trust(), unclaim(), preferences()).
THEOREM NicknameStaysTheirs == PartsSpec => NicknameIsTheirs
<1>. DEFINE all == <<part, vars, linkVars, nickVars, pauseVars>>
            Respected == (nick \in Manual /\ nick' \in Chars) => nickRow.baselineSet /\ nickRow.before = nick
<1>1. PartsInit => NickInv
  BY NickStart DEF PartsInit
<1>2. [PartsNext]_all => Nick!Next \/ UNCHANGED Nick!vars
  BY DEF PartsNext, Moves, nickVars, Nick!vars
<1>3. NickInv /\ [PartsNext]_all => NickInv' /\ [Respected]_(Nick!vars)
  BY <1>2, NickStep, EditsStay
<1>4. NickInv => Nick!TypeOK /\ Nick!NicknameComesBack /\ Nick!OnlyEditsSuspend
  <2>. SUFFICES ASSUME NickInv PROVE Nick!TypeOK /\ Nick!NicknameComesBack /\ Nick!OnlyEditsSuspend
    OBVIOUS
  <2>1. Nick!TypeOK
    BY DEF NickInv, NickTypes, Nick!TypeOK
  <2>2. Nick!NicknameComesBack
    BY DEF NickInv, NickTypes, NickHolds, Wants, Nick!NicknameComesBack, Nick!At, Nick!Names
  <2>3. Nick!OnlyEditsSuspend
    BY DEF NickInv, NickUntouched, Nick!OnlyEditsSuspend
  <2>. QED  BY <2>1, <2>2, <2>3
<1>. QED  BY <1>1, <1>3, <1>4, PTL DEF PartsSpec, NicknameIsTheirs, Nick!EditsAreRespected

=============================================================================
