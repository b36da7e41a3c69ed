------------------------------ MODULE SelfRoles ------------------------------
(***************************************************************************)
(* Self-service roles of src/application/self-roles.ts: officers edit the    *)
(* role menu while the access roles are being bound, a member saves choices  *)
(* from pages that may be out of date, and the roles.self job writes them    *)
(* one role at a time while officers go on editing, in TaruBot and Discord.  *)
(*                                                                         *)
(* A save reads the member's roles when its request is resolved and commits  *)
(* later; the job reads the member, then checks a fresh view of the server,  *)
(* then writes.  A menu no build can read, acknowledgements of unreadable    *)
(* channels, texts and audit rows are left out.                              *)
(***************************************************************************)
EXTENDS RoleMenu

CONSTANTS
  Members, Officers,
  Tabs,        \* saves of one member that can be in flight together
  Opens,       \* roles that open a channel
  MaxChanges   \* bound: edits, saves, Discord changes and faults, all together

VARIABLES
  menu,      \* self_role_menus.menu
  revision,  \* self_role_menus.revision
  bound,     \* the bound Member role, in guilds
  retired,   \* retired_roles
  effects,   \* effectsMode is live
  edits,     \* an officer's edit in flight
  check,     \* what a fresh view of the server says of each role
  holds,     \* the roles each member holds in Discord
  access,    \* the member holds one of TaruBot's access roles
  saves,     \* saves in flight
  jobs,      \* each member's roles.self row
  lately,    \* a row of theirs ended within 5 minutes
  runs,      \* the attempt that runs the row
  pass,      \* the access pass for the member
  told,      \* ghost: what the member was told of each role
  spent      \* changes so far

vars == <<menu, revision, bound, retired, effects, edits, check, holds, access, saves, jobs,
          lately, runs, pass, told, spent>>
world == <<check, holds, access>>
saved == <<menu, revision, bound, retired, effects>>

Spend == spent < MaxChanges /\ spent' = spent + 1
Untouchable == retired \cup {bound}
\* selfRoleChecker() with the settings: an access or retired role may not be touched.
Verdict == [r \in Roles |-> IF r \in Untouchable THEN "fixed" ELSE check[r]]

NoEdit == [kind |-> "none", role |-> None, cat |-> None, to |-> "none", revision |-> 0,
           view |-> {}, untouchable |-> {}]
NoSave == [stage |-> "none", cat |-> None, seen |-> {}, picked |-> {}, next |-> NoChoice,
           held |-> {}, moved |-> {}]
NoJob == [status |-> "none", choice |-> NoChoice, newer |-> FALSE]
NoRun == [stage |-> "none", choice |-> NoChoice, add |-> {}, remove |-> {}, left |-> {},
          given |-> {}, one |-> {}, access |-> TRUE]
Waiting(m) == jobs[m].status # "none"

-----------------------------------------------------------------------------
(* Officers' edits *)

EditKinds == {"add", "remove", "removal_only", "offer", "state", "delete", "reset"}
\* The page's revision; an add also reads a fresh view first (untouchable is what
\* the settings were then, which the edit does not use).
EditSends(o) ==
  /\ edits[o].kind = "none" /\ Spend
  /\ \E kind \in EditKinds, r \in Roles, c \in Cats, to \in States \ {"gone"} :
       edits' = [edits EXCEPT ![o] = [kind |-> kind, role |-> r, cat |-> c, to |-> to, revision |-> revision,
         view |-> {x \in Roles : check[x] = "ok"}, untouchable |-> Untouchable]]
  /\ UNCHANGED <<saved, world, saves, jobs, lately, runs, pass, told>>

Applied(e) ==
  CASE e.kind = "add" -> Add(menu, e.role, e.cat)
    [] e.kind \in {"remove", "removal_only", "offer"} -> EditRow(menu, e.role, e.kind)
    [] e.kind = "state" -> SetState(menu, e.cat, e.to)
    [] e.kind = "delete" -> Delete(menu, e.cat)
    [] e.kind = "reset" -> Reset(menu)
\* The form names a category or an option another officer removed.
NamesGone(e) ==
  \/ e.kind \in {"add", "state"} /\ menu.cats[e.cat].state = "gone"
  \/ e.kind \in {"removal_only", "offer"} /\ e.role \notin OnMenu(menu)

\* Mutant: the settings the page was rendered with.
AddPassesEarlier(e) == e.role \in e.view /\ e.role \notin e.untouchable

\* The rule set over the fresh view, with the settings read under the guild row's lock.
AddPasses(e) == e.role \in e.view /\ e.role \notin Untouchable

\* edit()'s transaction.
EditCommits(o) ==
  LET e == edits[o]
      refused == \/ NamesGone(e) \/ e.kind = "reset" \/ e.revision # revision
                 \/ e.kind = "add" /\ ~(AddAllowed(menu, e.role, e.cat) /\ AddPasses(e))
  IN /\ e.kind # "none" /\ edits' = [edits EXCEPT ![o] = NoEdit]
     /\ IF refused \/ Applied(e) = menu THEN UNCHANGED <<menu, revision>>
        ELSE menu' = Applied(e) /\ revision' = revision + 1
     /\ UNCHANGED <<bound, retired, effects, world, saves, jobs, lately, runs, pass, told, spent>>

\* configure() binds or clears the Member role: never one on the menu, drafts
\* included; the old one is retired.  The row's lock excludes an edit's.
Configure ==
  /\ Spend
  /\ \E r \in Roles \cup {None} :
       /\ r # bound /\ r \notin OnMenu(menu)
       /\ bound' = r
       /\ retired' = (retired \cup ({bound} \ {None})) \ {r}
  /\ UNCHANGED <<menu, revision, effects, edits, world, saves, jobs, lately, runs, pass, told>>

SwitchEffects ==
  /\ Spend /\ effects' = ~effects
  \* A restart requeues what was parked.
  /\ jobs' = [m \in Members |-> IF effects' /\ jobs[m].status = "disabled"
                                THEN [jobs[m] EXCEPT !.status = "queued"] ELSE jobs[m]]
  /\ UNCHANGED <<menu, revision, bound, retired, edits, world, saves, lately, runs, pass, told>>

-----------------------------------------------------------------------------
(* Discord *)

\* Any change of a role that TaruBot did not write voids what the member was told
\* of it, and is seen by reads from now on only.
Voided(m, r) == told' = [told EXCEPT ![m][r] = "any"]
SavesMoved(m, r) ==
  [saves EXCEPT ![m] = [t \in Tabs |-> [saves[m][t] EXCEPT !.moved = @ \cup {r}]]]
OfficerGives(m) ==
  /\ Spend
  /\ \E r \in Roles :
       /\ holds' = [holds EXCEPT ![m] = IF r \in @ THEN @ \ {r} ELSE @ \cup {r}]
       /\ runs' = [runs EXCEPT ![m].given = @ \cup {r}]
       /\ Voided(m, r) /\ saves' = SavesMoved(m, r)
  /\ UNCHANGED <<saved, edits, check, access, jobs, lately, pass>>
\* A role is moved, or its permissions change.
RoleChanges ==
  /\ Spend
  /\ \E r \in Roles, v \in Verdicts : v # check[r] /\ check' = [check EXCEPT ![r] = v]
  /\ UNCHANGED <<saved, edits, holds, access, saves, jobs, lately, runs, pass, told>>
\* The access role goes or comes back, by hand or by another pass, and an access
\* pass follows.
AccessChanges(m) ==
  /\ Spend /\ access' = [access EXCEPT ![m] = ~@]
  /\ pass' = [pass EXCEPT ![m].due = TRUE]
  /\ UNCHANGED <<saved, edits, check, holds, saves, jobs, lately, runs, told>>

-----------------------------------------------------------------------------
(* Saves *)

\* A page is shown, for one category, and its form comes back with any picks.
SaveSends(m, t) ==
  /\ saves[m][t].stage = "none" /\ Spend
  /\ \E c \in Cats : \E picked \in SUBSET Options(menu, c) :
       saves' = [saves EXCEPT ![m][t] = [NoSave EXCEPT !.stage = "sent", !.cat = c, !.picked = picked,
         !.seen = Ticked(menu, holds[m], Verdict, jobs[m].choice, c)]]
  /\ UNCHANGED <<saved, edits, world, jobs, lately, runs, pass, told>>

\* choose(), before its transaction: the member as the request resolved them.
SaveReads(m, t) ==
  LET s == saves[m][t]
  IN /\ s.stage = "sent"
     /\ saves' = [saves EXCEPT ![m][t] =
          IF ~effects \/ CategoryRefused(menu, holds[m], Verdict, s.cat, s.seen, s.picked) THEN NoSave
          ELSE LET next == ChangedCategory(menu, holds[m], Verdict, s.cat, s.seen, s.picked)
               IN IF next.offered = {} THEN NoSave
                  ELSE [s EXCEPT !.stage = "read", !.next = next, !.held = holds[m], !.moved = {}]]
     /\ UNCHANGED <<saved, edits, world, jobs, lately, runs, pass, told, spent>>

\* What the member is told: the change they sent stands, and replaces all they
\* asked in its category; a role the menu dropped asks nothing.
Told(m, s) ==
  [r \in Roles |->
    IF r \in s.moved THEN "any"
    ELSE IF r \in s.next.offered THEN (IF r \in s.next.chosen THEN "yes" ELSE "no")
    ELSE IF r \in OnMenu(menu) /\ menu.roles[r].at \notin CategoriesOf(menu, s.next.offered) THEN told[m][r]
    ELSE "any"]

\* enqueue(): a running row runs again, any other waiting row is replaced; a
\* parked row is closed beside the new one.
Enqueued(job, choice) ==
  [status |-> IF job.status = "running" THEN "running" ELSE "queued", choice |-> choice,
   newer |-> job.status = "running"]

\* The equal-state rule with a change waiting: a repeat of it queues nothing, not
\* even when the waiting row already runs.
Repeats(m, merged) == Waiting(m) /\ merged = jobs[m].choice

\* Mutant: nothing waits and they hold it, so nothing is queued.
NothingToDoNow(m, s) == ~Waiting(m) /\ ChoiceHeld(s.next, s.held)

\* The equal-state rule with nothing waiting: what they held when the request was
\* resolved may have moved since, when a change of theirs ended lately.
NothingToDo(m, s) == ~Waiting(m) /\ ChoiceHeld(s.next, s.held) /\ ~lately[m]

\* choose()'s transaction, under the member's lock.
SaveCommits(m, t) ==
  LET s == saves[m][t]
      merged == MergeChoice(menu, jobs[m].choice, s.next)
  IN /\ s.stage = "read" /\ saves' = [saves EXCEPT ![m][t] = NoSave]
     /\ told' = IF Repeats(m, merged) THEN told ELSE [told EXCEPT ![m] = Told(m, s)]
     /\ IF Repeats(m, merged) \/ NothingToDo(m, s) THEN UNCHANGED jobs
        ELSE jobs' = [jobs EXCEPT ![m] = Enqueued(@, merged)]
     /\ lately' = [lately EXCEPT ![m] = @ \/ jobs[m].status = "disabled"]
     /\ UNCHANGED <<saved, edits, world, runs, pass, spent>>

\* Five minutes are longer than any request takes.
LongAgo(m) ==
  /\ lately[m] /\ \A t \in Tabs : saves[m][t].stage # "read"
  /\ lately' = [lately EXCEPT ![m] = FALSE]
  /\ UNCHANGED <<saved, edits, world, saves, jobs, runs, pass, told, spent>>

-----------------------------------------------------------------------------
(* The roles.self job and the access pass *)

\* perform(): a newer choice runs again; a blocked row keeps its choice.
Ended(m, status) ==
  /\ jobs' = [jobs EXCEPT ![m] =
       IF status = "blocked" THEN [jobs[m] EXCEPT !.status = "blocked", !.newer = FALSE]
       ELSE IF jobs[m].newer THEN [jobs[m] EXCEPT !.status = "queued", !.newer = FALSE] ELSE NoJob]
  /\ lately' = [lately EXCEPT ![m] = @ \/ status = "succeeded"]
  /\ runs' = [runs EXCEPT ![m] = NoRun]

\* claim(), and the dispatcher's effects gate.
Claim(m) ==
  /\ jobs[m].status = "queued" /\ runs[m].stage = "none"
  /\ IF effects
     THEN /\ jobs' = [jobs EXCEPT ![m].status = "running"]
          /\ runs' = [runs EXCEPT ![m] = [NoRun EXCEPT !.stage = "claimed", !.choice = jobs[m].choice]]
     ELSE jobs' = [jobs EXCEPT ![m].status = "disabled"] /\ UNCHANGED runs
  /\ UNCHANGED <<saved, edits, world, saves, lately, pass, told, spent>>

\* Pick-one categories as the plan's menu has them.
PickOnes == {c \in Cats : Limited(menu, c) /\ menu.cats[c].max = 1}
\* apply(): the lock shared with the access pass, the member now, the menu now.
JobPlans(m) ==
  LET c == runs[m].choice
      add == PlanAdd(menu, c, holds[m], Untouchable)
      remove == PlanRemove(menu, c, holds[m], Untouchable)
  IN /\ runs[m].stage = "claimed" /\ ~pass[m].busy
     /\ runs' = [runs EXCEPT ![m] = [runs[m] EXCEPT !.stage = "planned", !.add = add, !.remove = remove,
          !.left = Differs(c, holds[m]) \ (add \cup remove), !.given = {}, !.access = access[m],
          !.one = {p \in Roles \X Roles : p[1] # p[2] /\ menu.roles[p[1]].at \in PickOnes
                                               /\ menu.roles[p[2]].at = menu.roles[p[1]].at}]]
     /\ UNCHANGED <<saved, edits, world, saves, jobs, lately, pass, told, spent>>

\* The fresh view: every planned role is checked again.
JobChecks(m) ==
  LET run == runs[m]
      add == {r \in run.add : Verdict[r] = "ok" /\ (run.access \/ bound = None \/ r \notin Opens)}
      remove == {r \in run.remove : RemovableBy(Verdict[r])}
  IN /\ run.stage = "planned"
     /\ runs' = [runs EXCEPT ![m] = [run EXCEPT !.stage = "writing", !.add = add, !.remove = remove,
          !.left = @ \cup (run.add \ add) \cup (run.remove \ remove)]]
     /\ UNCHANGED <<saved, edits, world, saves, jobs, lately, pass, told, spent>>
\* TaruBot lost Manage Roles: the row waits, blocked, with its choice.
JobBlocked(m) ==
  /\ runs[m].stage = "planned" /\ runs[m].add \cup runs[m].remove # {} /\ Spend
  /\ Ended(m, "blocked")
  /\ UNCHANGED <<saved, edits, world, saves, pass, told>>
Unblocked(m) ==
  /\ jobs[m].status = "blocked"
  /\ jobs' = [jobs EXCEPT ![m].status = "queued"]
  /\ UNCHANGED <<saved, edits, world, saves, lately, runs, pass, told, spent>>

\* selfRoles(): removals, then additions; a role TaruBot may no longer touch is skipped.
Write(m, r, held) ==
  LET done == [runs[m] EXCEPT !.add = @ \ {r}, !.remove = @ \ {r}]
  IN IF check[r] = "fixed"
     THEN UNCHANGED holds /\ runs' = [runs EXCEPT ![m] = [done EXCEPT !.left = @ \cup {r}]]
     ELSE holds' = [holds EXCEPT ![m] = held] /\ runs' = [runs EXCEPT ![m] = done]
JobRemoves(m) ==
  /\ runs[m].stage = "writing"
  /\ \E r \in runs[m].remove : Write(m, r, holds[m] \ {r})
  /\ UNCHANGED <<saved, edits, check, access, saves, jobs, lately, pass, told, spent>>
JobAdds(m) ==
  /\ runs[m].stage = "writing" /\ runs[m].remove = {}
  /\ \E r \in runs[m].add : Write(m, r, holds[m] \cup {r})
  /\ UNCHANGED <<saved, edits, check, access, saves, jobs, lately, pass, told, spent>>
\* The result counts every choice that was not applied.
JobEnds(m) ==
  /\ runs[m].stage = "writing" /\ runs[m].add \cup runs[m].remove = {}
  /\ Ended(m, "succeeded")
  /\ told' = IF jobs[m].newer THEN told
             ELSE [told EXCEPT ![m] = [r \in Roles |-> IF r \in runs[m].left THEN "any" ELSE told[m][r]]]
  /\ UNCHANGED <<saved, edits, world, saves, pass, spent>>
\* The attempt fails or its process dies: the row is claimed again.
JobFails(m) ==
  /\ runs[m].stage # "none" /\ Spend
  /\ jobs' = [jobs EXCEPT ![m] = [@ EXCEPT !.status = "queued", !.newer = FALSE]]
  /\ runs' = [runs EXCEPT ![m] = NoRun]
  /\ UNCHANGED <<saved, edits, world, saves, lately, pass, told>>
\* The eighth failed attempt ends the row, as a member Discord does not know does; which
\* attempt this is stays open.  The update compares the token only, so a choice saved
\* while it ran ends with the row, which the page shows as failed.
JobGivesUp(m) ==
  /\ runs[m].stage # "none" /\ Spend
  /\ jobs' = [jobs EXCEPT ![m] = NoJob] /\ lately' = [lately EXCEPT ![m] = TRUE]
  /\ runs' = [runs EXCEPT ![m] = NoRun]
  /\ told' = [told EXCEPT ![m] = [r \in Roles |->
                 IF r \in jobs[m].choice.offered THEN "any" ELSE told[m][r]]]
  /\ UNCHANGED <<saved, edits, world, saves, pass>>
\* After 7 days a waiting row expires with its choice, which the page shows.
Expires(m) ==
  /\ jobs[m].status \in {"queued", "blocked", "disabled"} /\ Spend
  /\ jobs' = [jobs EXCEPT ![m] = NoJob] /\ lately' = [lately EXCEPT ![m] = TRUE]
  /\ told' = [told EXCEPT ![m] = [r \in Roles |-> "any"]]
  /\ UNCHANGED <<saved, edits, world, saves, runs, pass>>

\* user() under the same lock: without an access role, the listed roles that open
\* a channel go, one at a time.
Locked(m) == runs[m].stage \in {"planned", "writing"}
PassReads(m) ==
  /\ pass[m].due /\ ~pass[m].busy /\ ~Locked(m) /\ effects
  /\ pass' = [pass EXCEPT ![m] = [due |-> FALSE, busy |-> TRUE,
       remove |-> IF access[m] \/ bound = None THEN {}
                  ELSE AccessLossRemovals(menu, holds[m], Opens, Verdict)]]
  /\ UNCHANGED <<saved, edits, world, saves, jobs, lately, runs, told, spent>>
PassRemoves(m) ==
  /\ pass[m].busy
  /\ \E r \in pass[m].remove :
       /\ pass' = [pass EXCEPT ![m].remove = @ \ {r}]
       /\ IF check[r] = "fixed" \/ r \notin holds[m] THEN UNCHANGED <<holds, told, saves>>
          ELSE holds' = [holds EXCEPT ![m] = @ \ {r}] /\ Voided(m, r) /\ saves' = SavesMoved(m, r)
  /\ UNCHANGED <<saved, edits, check, access, jobs, lately, runs, spent>>
PassEnds(m) ==
  /\ pass[m].busy /\ pass[m].remove = {}
  /\ pass' = [pass EXCEPT ![m].busy = FALSE]
  /\ UNCHANGED <<saved, edits, world, saves, jobs, lately, runs, told, spent>>

Init ==
  /\ \E where \in [Roles -> Cats \cup {None}], max \in [Cats -> {Unlimited, 1}] :
       menu = [cats |-> [c \in Cats |-> [state |-> "published", max |-> max[c]]],
               roles |-> [r \in Roles |-> [at |-> where[r], only |-> FALSE]]]
  /\ revision = 1 /\ bound = None /\ retired = {} /\ effects = TRUE
  /\ edits = [o \in Officers |-> NoEdit] /\ check = [r \in Roles |-> "ok"]
  /\ holds = [m \in Members |-> {}] /\ access = [m \in Members |-> TRUE]
  /\ saves = [m \in Members |-> [t \in Tabs |-> NoSave]]
  /\ jobs = [m \in Members |-> NoJob] /\ lately = [m \in Members |-> FALSE]
  /\ runs = [m \in Members |-> NoRun]
  /\ pass = [m \in Members |-> [due |-> FALSE, busy |-> FALSE, remove |-> {}]]
  /\ told = [m \in Members |-> [r \in Roles |-> "any"]] /\ spent = 0

Next ==
  \/ \E o \in Officers : EditSends(o) \/ EditCommits(o)
  \/ Configure \/ SwitchEffects \/ RoleChanges
  \/ \E m \in Members, t \in Tabs : SaveSends(m, t) \/ SaveReads(m, t) \/ SaveCommits(m, t)
  \/ \E m \in Members :
       \/ OfficerGives(m) \/ AccessChanges(m) \/ LongAgo(m) \/ Claim(m) \/ JobPlans(m)
       \/ JobChecks(m) \/ JobBlocked(m) \/ Unblocked(m) \/ JobRemoves(m) \/ JobAdds(m)
       \/ JobEnds(m) \/ JobFails(m) \/ JobGivesUp(m) \/ Expires(m)
       \/ PassReads(m) \/ PassRemoves(m) \/ PassEnds(m)

Spec == Init /\ [][Next]_vars

-----------------------------------------------------------------------------
(* Properties *)

\* A bound access role is never on the menu, not even as a draft, however an
\* officer's add and a /config roles change interleave (assertNotOnMenu() and
\* edit() under the guild row's lock): reconciliation would give or strip it from
\* everyone who picked it.
MenuNeverBindsAccess == bound \notin OnMenu(menu)

\* What a member was told is saved is what they hold once nothing of theirs waits,
\* unless the job counted it as skipped, its row failed for good or expired, which the
\* page says and which takes what was saved while its last attempt ran with it, or
\* someone changed it since: an undo sent from a page of a moment ago is never answered
\* "unchanged" and lost (choose(), endedLately(), the generation of a running row).
AnswersHold ==
  \A m \in Members : ~Waiting(m) =>
    \A r \in Roles : told[m][r] # "any" => ((told[m][r] = "yes") <=> (r \in holds[m]))

\* The job never adds a second role of a pick-one category to one the member holds,
\* unless that one was given in Discord after the plan, or could not be removed
\* (planSelfRoles() counts the roles held there that the choice does not cover).
PickOneHolds ==
  [][\A m \in Members : \A r \in holds'[m] \ holds[m] :
       JobAdds(m) => \A x \in holds[m] : <<r, x>> \in runs[m].one => x \in runs[m].given \cup runs[m].left]_vars
=============================================================================
