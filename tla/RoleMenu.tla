------------------------------- MODULE RoleMenu -------------------------------
(***************************************************************************)
(* The pure rules of src/domain/self-roles.ts: what an officer's edit does   *)
(* to the self-service role menu, what a member's form asks, how a save      *)
(* merges into the change still waiting, and what the job then plans.        *)
(*                                                                         *)
(* A menu gives each category its state and limit and each role its place:   *)
(* the category that lists it and whether it is no longer offered.  Names,   *)
(* descriptions and the order of display are left out.                       *)
(***************************************************************************)
EXTENDS Naturals, FiniteSets

CONSTANTS
  Roles,   \* the server's roles
  Cats,    \* category IDs minted with the officers' forms
  None     \* no category, no role

ASSUME NoneAssumption == None \notin Roles \cup Cats
\* A Discord server has at most 250 roles.
ASSUME RolesAssumption == IsFiniteSet(Roles)

States == {"gone", "draft", "published", "removal_only"}
Unlimited == 0
Gone == [state |-> "gone", max |-> Unlimited]
Off == [at |-> None, only |-> FALSE]
Menus == [cats : [Cats -> [state : States, max : Nat]],
          roles : [Roles -> [at : Cats \cup {None}, only : BOOLEAN]]]
EmptyMenu == [cats |-> [c \in Cats |-> Gone], roles |-> [r \in Roles |-> Off]]

\* menuRoleIds(), and the roles of one category.
OnMenu(menu) == {r \in Roles : menu.roles[r].at # None}
Options(menu, c) == {r \in Roles : menu.roles[r].at = c}
StateOf(menu, r) == IF menu.roles[r].at = None THEN "gone" ELSE menu.cats[menu.roles[r].at].state
\* addable(): published and still offered.  listed(): published or Stop offering.
Addable(menu, r) == StateOf(menu, r) = "published" /\ ~menu.roles[r].only
Listed(menu, r) == StateOf(menu, r) \in {"published", "removal_only"}
Limited(menu, c) == menu.cats[c].state = "published" /\ menu.cats[c].max # Unlimited

-----------------------------------------------------------------------------
(* applyOperation(): each operator is the menu after one edit *)

WithCategory(menu, c, state, max) ==
  [cats |-> [menu.cats EXCEPT ![c] = [state |-> state, max |-> max]], roles |-> menu.roles]
WithRole(menu, r, place) == [cats |-> menu.cats, roles |-> [menu.roles EXCEPT ![r] = place]]

Reset(menu) == EmptyMenu
PublishAll(menu) ==
  [cats |-> [c \in Cats |-> IF menu.cats[c].state = "draft"
                            THEN [state |-> "published", max |-> menu.cats[c].max] ELSE menu.cats[c]],
   roles |-> menu.roles]
\* A repeated create finds its own category, and a repeated delete finds none.
Create(menu, c, max) ==
  IF menu.cats[c].state # "gone" THEN menu ELSE WithCategory(menu, c, "draft", max)
Delete(menu, c) ==
  [cats |-> [menu.cats EXCEPT ![c] = Gone],
   roles |-> [r \in Roles |-> IF menu.roles[r].at = c THEN Off ELSE menu.roles[r]]]
Edit(menu, c, max) == WithCategory(menu, c, menu.cats[c].state, max)
SetState(menu, c, state) == WithCategory(menu, c, state, menu.cats[c].max)
\* A role is on the menu once: options.add refuses one another category lists,
\* and leaves one this category lists as it is.
AddAllowed(menu, r, c) == menu.roles[r].at \in {None, c}
Add(menu, r, c) ==
  IF menu.roles[r].at = c THEN menu ELSE WithRole(menu, r, [at |-> c, only |-> FALSE])
\* options.edit, one row: the role is removed, offered again or no longer offered.
EditRow(menu, r, row) ==
  WithRole(menu, r, IF row = "remove" THEN Off ELSE [at |-> menu.roles[r].at, only |-> row = "removal_only"])

-----------------------------------------------------------------------------
(* My roles: the form and the saved choice *)

\* A choice: the roles it covers, and those of them the member wants.
NoChoice == [chosen |-> {}, offered |-> {}]
\* A role's verdict by selfRoleChecker: "ok", "keep" (it may not be given, and
\* may be taken away) or "fixed" (it may not be touched).
Verdicts == {"ok", "keep", "fixed"}
RemovableBy(verdict) == verdict # "fixed"
Changeable(menu, r, held, check) ==
  \/ Addable(menu, r) /\ check[r] = "ok"
  \/ r \in held /\ Listed(menu, r) /\ RemovableBy(check[r])

\* choiceMenu(): what the form shows ticked, the waiting change laid over what
\* the member holds.
Ticked(menu, held, check, waiting, c) ==
  {r \in Options(menu, c) :
     /\ Listed(menu, r)
     /\ IF Changeable(menu, r, held, check) /\ r \in waiting.offered THEN r \in waiting.chosen ELSE r \in held}

\* changedCategories() for one category of the form: refused, unchanged (an
\* empty choice), or the choice over every role the member may change in it.
Accepted(menu, held, c) == {r \in Options(menu, c) : Addable(menu, r) \/ (r \in held /\ Listed(menu, r))}
CanChange(menu, held, check, c) == {r \in Options(menu, c) : Changeable(menu, r, held, check)}
Failing(menu, held, check, c, picked) == picked \ (CanChange(menu, held, check, c) \cup held)
Fixed(menu, held, check, c) ==
  {r \in Options(menu, c) : r \in held /\ Listed(menu, r)} \ CanChange(menu, held, check, c)
CategoryUnchanged(menu, held, check, c, seen, picked) ==
  (picked \cap CanChange(menu, held, check, c)) \cup Failing(menu, held, check, c, picked)
    = seen \cap CanChange(menu, held, check, c)
CategoryRefused(menu, held, check, c, seen, picked) ==
  \/ ~(picked \subseteq Accepted(menu, held, c))
  \/ /\ ~CategoryUnchanged(menu, held, check, c, seen, picked)
     /\ \/ Failing(menu, held, check, c, picked) # {}
        \/ /\ Limited(menu, c)
           /\ Cardinality((picked \cap CanChange(menu, held, check, c)) \cup Fixed(menu, held, check, c)) > menu.cats[c].max
ChangedCategory(menu, held, check, c, seen, picked) ==
  IF CategoryUnchanged(menu, held, check, c, seen, picked) THEN NoChoice
  ELSE [chosen |-> picked \cap CanChange(menu, held, check, c), offered |-> CanChange(menu, held, check, c)]

\* mergeChoice(): category by category; a role no longer on the menu is dropped.
CategoriesOf(menu, roles) == {menu.roles[r].at : r \in roles}
Kept(menu, waiting, next) ==
  {r \in waiting.offered : r \in OnMenu(menu) /\ menu.roles[r].at \notin CategoriesOf(menu, next.offered)}
MergeChoice(menu, waiting, next) ==
  [chosen |-> (waiting.chosen \cap Kept(menu, waiting, next)) \cup next.chosen,
   offered |-> Kept(menu, waiting, next) \cup next.offered]
ChoiceHeld(choice, held) == \A r \in choice.offered : (r \in choice.chosen) <=> (r \in held)

-----------------------------------------------------------------------------
(* The job's plan *)

Differs(choice, held) == {r \in choice.offered : (r \in choice.chosen) # (r \in held)}

\* Mutant: only what was chosen counts against a category's limit.
AfterChosen(menu, choice, held, c) == Options(menu, c) \cap choice.chosen

\* planSelfRoles(): what the member would hold in a category afterwards, at most.
After(menu, choice, held, c) ==
  Options(menu, c) \cap (choice.chosen \cup (held \ choice.offered))
OverLimit(menu, choice, held, c) ==
  Limited(menu, c) /\ Cardinality(After(menu, choice, held, c)) > menu.cats[c].max
Planned(menu, choice, held, untouchable) ==
  {r \in Differs(choice, held) :
     Listed(menu, r) /\ r \notin untouchable /\ ~OverLimit(menu, choice, held, menu.roles[r].at)}
PlanRemove(menu, choice, held, untouchable) == Planned(menu, choice, held, untouchable) \ choice.chosen
PlanAdd(menu, choice, held, untouchable) ==
  {r \in Planned(menu, choice, held, untouchable) \cap choice.chosen : Addable(menu, r)}
\* accessLossRemovals(): the listed roles that open a channel and can be taken away.
AccessLossRemovals(menu, held, opens, check) ==
  {r \in held : Listed(menu, r) /\ r \in opens /\ RemovableBy(check[r])}

-----------------------------------------------------------------------------
\* Each role is listed by at most one category, and that exists.
WellFormed(menu) == menu \in Menus /\ \A r \in OnMenu(menu) : menu.cats[menu.roles[r].at].state # "gone"
=============================================================================
