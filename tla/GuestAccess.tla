----------------------------- MODULE GuestAccess -----------------------------
(***************************************************************************)
(* One member's access: the passes of reconcile.user and reconcile.guild in  *)
(* src/application/synchronization.ts, the gateway events of                *)
(* src/application/guild-events.ts, and guest applications, decisions,      *)
(* grants and revocations of src/application/service.ts.                    *)
(*                                                                         *)
(* An action is one transaction or one call to Discord.  The handlers of two *)
(* gateway events run side by side, so they commit in any order.  The rules  *)
(* themselves are AccessPolicy's.  One link stands for the union of links;   *)
(* officer roles, menu roles and nicknames are left to their own modules.    *)
(***************************************************************************)
EXTENDS Naturals, AccessPolicy

CONSTANTS
  Apps,        \* guest applications the member may file
  Calls,       \* interactions that run at the same time
  Manual,      \* the interaction key of /guest grant
  NoApp,       \* a call that names no application
  Starts,      \* evidence a member may begin with
  MaxChanges   \* bound: moves of the member, changes of evidence, officers' acts,
               \* interactions begun and faults, all together

\* What is stored about the member.
Evidence ==
  [link : {"none", "unknown", "confirmed", "absent"}, former : BOOLEAN, fresh : BOOLEAN,
   revoked : BOOLEAN, loss : BOOLEAN, cooling : BOOLEAN]

ASSUME KeyAssumption == Manual \notin Apps /\ NoApp \notin Apps \cup {Manual}
ASSUME BoundAssumption == MaxChanges \in Nat /\ Starts \subseteq Evidence

VARIABLES
  server,   \* Discord's truth: whether the member is here, the join, the roles
  events,   \* gateway events whose handler has not committed
  row,      \* guild_users: present and joined_at (0 is NULL)
  evidence, \* links, history, roster age and guest_state of the member
  grants,   \* guest_grants by source key
  apps,     \* guest_applications
  review,   \* guest.review of each application, and what its message shows
  pass,     \* the member's reconcile.user row and its running attempt
  sweep,    \* the guild's reconcile.guild row and its running attempt
  settings, \* revision and effects switch of the guild
  call,     \* interactions in flight
  spent     \* changes so far

vars == <<server, events, row, evidence, grants, apps, review, pass, sweep, settings, call, spent>>

Roles == {"member", "guest"}
Keys == Apps \cup {Manual}
Spend == spent < MaxChanges /\ spent' = spent + 1

Idle == [kind |-> "idle", app |-> NoApp, here |-> FALSE, join |-> 0, roles |-> {}, revision |-> 0]
NoPass == [job |-> "none", newer |-> FALSE, at |-> "none", roles |-> {}, add |-> {}, remove |-> {},
           supersedes |-> FALSE, closed |-> {}, failed |-> FALSE, revision |-> 0]
Unfiled == [state |-> "none", join |-> 0, barred |-> FALSE]
\* Ghost: `cut` says that no redraw was queued for how the application was closed.
Unposted == [job |-> "none", newer |-> FALSE, seen |-> "none", shows |-> "none", cut |-> FALSE]

-----------------------------------------------------------------------------
(* Rows *)

\* ensureUser() with a join time writes it whatever is stored.
Ensured(join) == [present |-> TRUE, join |-> join]

\* reconcileUser(): one active row per member; a running one is asked again.
Requeued(p) ==
  IF p.job = "none" THEN [p EXCEPT !.job = "queued"]
  ELSE IF p.job = "running" THEN [p EXCEPT !.newer = TRUE] ELSE p
ReconcileUser == pass' = Requeued(pass)
ReconcileGuild == sweep' = Requeued(sweep)

Pending(a) == apps[a].state = "pending"
Open == {a \in Apps : Pending(a)}
\* A transaction of apply() holds the member's row and the guild's: whatever locks
\* either waits.  The member's passes lock neither.
Locked == \E c \in Calls : call[c].kind = "filing"
\* A state change of applications queues the review of each.
Redrawn(closed) == [a \in Apps |-> IF a \in closed THEN Requeued(review[a]) ELSE review[a]]
Closing(closed, state) ==
  [a \in Apps |-> IF a \in closed THEN [apps[a] EXCEPT !.state = state] ELSE apps[a]]
Close(closed, state) == apps' = Closing(closed, state) /\ review' = Redrawn(closed)

\* accessFacts() of the stored evidence and the given roles.
FactsOf(ev, roles) ==
  [membership |-> MembershipClass(TRUE, ev.link = "confirmed", ev.link = "unknown", ev.loss),
   fresh |-> ev.fresh, former |-> ev.former, revoked |-> ev.revoked,
   grant |-> \E k \in Keys : grants[k] = "active",
   verified |-> ev.link # "none",
   hasMember |-> "member" \in roles, hasGuest |-> "guest" \in roles]
Desired(f) == {r \in Roles : IF r = "member" THEN DesiredMember(f) ELSE DesiredGuest(f)}

-----------------------------------------------------------------------------
(* Discord *)

\* The member leaves or comes back; roles do not survive a departure.
Leave ==
  /\ server.here /\ Spend
  /\ server' = [server EXCEPT !.here = FALSE, !.roles = {}]
  /\ events' = events \cup {<<"left", 0>>}
  /\ UNCHANGED <<row, evidence, grants, apps, review, pass, sweep, settings, call>>
Join ==
  /\ ~server.here /\ Spend
  /\ server' = [here |-> TRUE, join |-> server.join + 1, roles |-> {}]
  /\ events' = events \cup {<<"joined", server.join + 1>>}
  /\ UNCHANGED <<row, evidence, grants, apps, review, pass, sweep, settings, call>>
EditRoles ==
  /\ server.here /\ Spend
  /\ \E roles \in SUBSET Roles \ {server.roles} : server' = [server EXCEPT !.roles = roles]
  /\ events' = events \cup {<<"changed", 0>>}
  /\ UNCHANGED <<row, evidence, grants, apps, review, pass, sweep, settings, call>>

\* memberJoined(), memberLeft(), memberChanged(): each in its own transaction.
MemberJoined(join) ==
  /\ ~Locked /\ <<"joined", join>> \in events /\ events' = events \ {<<"joined", join>>}
  /\ row' = Ensured(join)
  /\ ReconcileUser
  /\ UNCHANGED <<server, evidence, grants, apps, review, sweep, settings, call, spent>>

\* Mutant: the reviews of what a departure cancels are not redrawn.
MemberLeftQuietly ==
  /\ ~Locked /\ <<"left", 0>> \in events /\ events' = events \ {<<"left", 0>>}
  /\ row' = [row EXCEPT !.present = FALSE]
  /\ apps' = Closing(Open, "cancelled")
  /\ UNCHANGED <<server, evidence, grants, review, pass, sweep, settings, call, spent>>

MemberLeft ==
  /\ ~Locked /\ <<"left", 0>> \in events /\ events' = events \ {<<"left", 0>>}
  /\ row' = [row EXCEPT !.present = FALSE]
  /\ Close(Open, "cancelled")
  /\ UNCHANGED <<server, evidence, grants, pass, sweep, settings, call, spent>>
MemberChanged ==
  /\ <<"changed", 0>> \in events /\ events' = events \ {<<"changed", 0>>}
  /\ ReconcileUser
  /\ UNCHANGED <<server, row, evidence, grants, apps, review, sweep, settings, call, spent>>

-----------------------------------------------------------------------------
(* Evidence *)

\* trust() and endLink(): a new link counts at once when a fresh roster lists
\* it, and ending the last confirmed one is a local loss.
Link ==
  /\ ~Locked /\ evidence.link = "none" /\ Spend
  /\ \E listed \in BOOLEAN :
       LET confirmed == listed /\ evidence.fresh
       IN evidence' = [evidence EXCEPT !.link = IF confirmed THEN "confirmed" ELSE "unknown",
                                       !.former = @ \/ confirmed]
  /\ ReconcileUser
  /\ UNCHANGED <<server, events, row, grants, apps, review, sweep, settings, call>>

\* Mutant: an ended link waits for the next pass.
EndLinkQuietly ==
  /\ ~Locked /\ evidence.link # "none" /\ Spend
  /\ evidence' = [evidence EXCEPT !.link = "none", !.loss = TRUE]
  /\ UNCHANGED <<server, events, row, grants, apps, review, pass, sweep, settings, call>>

EndLink ==
  /\ ~Locked /\ evidence.link # "none" /\ Spend
  /\ evidence' = [evidence EXCEPT !.link = "none", !.loss = TRUE]
  /\ ReconcileUser
  /\ UNCHANGED <<server, events, row, grants, apps, review, sweep, settings, call>>

\* An accepted roster is fresh and queues the guild; without one, evidence ages.
RosterAccepted ==
  /\ Spend
  /\ \E link \in IF evidence.link = "none" THEN {"none"} ELSE {"confirmed", "absent"} :
       evidence' = [evidence EXCEPT !.fresh = TRUE, !.link = link,
                                    !.former = @ \/ link = "confirmed"]
  /\ ReconcileGuild
  /\ UNCHANGED <<server, events, row, grants, apps, review, pass, settings, call>>
EvidenceAges ==
  /\ evidence.fresh /\ Spend
  /\ evidence' = [evidence EXCEPT !.fresh = FALSE]
  /\ UNCHANGED <<server, events, row, grants, apps, review, pass, sweep, settings, call>>

\* The hourly roster queues the guild's pass for ever.
Hourly ==
  /\ sweep.job = "none" /\ ReconcileGuild
  /\ UNCHANGED <<server, events, row, evidence, grants, apps, review, pass, settings, call, spent>>

-----------------------------------------------------------------------------
(* Officers *)

\* grantWithin(): a key that was used before changes nothing.
GrantWithin(k) ==
  IF grants[k] = "none"
  THEN /\ grants' = [grants EXCEPT ![k] = "active"]
       /\ evidence' = [evidence EXCEPT !.revoked = FALSE]
  ELSE UNCHANGED <<grants, evidence>>

\* guestAction(): a grant under its interaction's key, delivered once or twice.
GuestGrant ==
  /\ ~Locked /\ Spend
  /\ GrantWithin(Manual)
  /\ ReconcileUser
  /\ UNCHANGED <<server, events, row, apps, review, sweep, settings, call>>

\* Ghost: the applications filed before the latest revocation.
Barred(filed) == [a \in Apps |-> [filed[a] EXCEPT !.barred = filed[a].state # "none"]]

\* Mutant: a revocation leaves the pending application open.
GuestRevokeOnly ==
  /\ ~Locked /\ Spend
  /\ evidence' = [evidence EXCEPT !.revoked = TRUE]
  /\ apps' = Barred(apps)
  /\ ReconcileUser
  /\ UNCHANGED <<server, events, row, grants, review, sweep, settings, call>>

GuestRevoke ==
  /\ ~Locked /\ Spend
  /\ evidence' = [evidence EXCEPT !.revoked = TRUE]
  /\ apps' = Barred(Closing(Open, "cancelled")) /\ review' = Redrawn(Open)
  /\ ReconcileUser
  /\ UNCHANGED <<server, events, row, grants, sweep, settings, call>>

\* guestReset(): every active grant ends and a revocation is lifted.
GuestReset ==
  /\ ~Locked /\ Spend
  /\ evidence.revoked \/ \E k \in Keys : grants[k] = "active"
  /\ evidence' = [evidence EXCEPT !.revoked = FALSE]
  /\ grants' = [k \in Keys |-> IF grants[k] = "active" THEN "ended" ELSE grants[k]]
  /\ ReconcileUser
  /\ UNCHANGED <<server, events, row, apps, review, sweep, settings, call>>

\* A settings change moves the revision and queues the guild.
Configure ==
  /\ ~Locked /\ Spend
  /\ settings' = [settings EXCEPT !.revision = @ + 1]
  /\ ReconcileGuild
  /\ UNCHANGED <<server, events, row, evidence, grants, apps, review, pass, call>>

-----------------------------------------------------------------------------
(* Applications *)

\* apply() and decide() read the guild and the member before their transaction.
Begin(c, kind, app) ==
  /\ call[c].kind = "idle" /\ Spend
  /\ call' = [call EXCEPT ![c] =
       [kind |-> kind, app |-> app, here |-> server.here, join |-> server.join,
        roles |-> server.roles, revision |-> settings.revision]]
  /\ UNCHANGED <<server, events, row, evidence, grants, apps, review, pass, sweep, settings>>
BeginApply(c) == server.here /\ Begin(c, "apply", NoApp)
BeginDecide(c) ==
  \E a \in Apps, kind \in {"approve", "deny"} : apps[a].state # "none" /\ Begin(c, kind, a)

Ends(c) == call' = [call EXCEPT ![c] = Idle]

\* What apply() refuses once it holds the member's row.
JoinChanged(c) == \/ row.join > call[c].join
                  \/ row.join = call[c].join /\ ~row.present
Eligible(c) ==
  LET f == FactsOf(evidence, call[c].roles)
  IN \/ evidence.link # "none" \/ f.membership = "member" \/ f.hasMember \/ f.hasGuest
     \/ ~f.revoked /\ (f.grant \/ f.former)
Refused(c) ==
  \/ call[c].revision # settings.revision \/ JoinChanged(c) \/ Eligible(c)
  \/ /\ evidence.cooling
     /\ ~\E a \in Apps : Pending(a) /\ apps[a].join = call[c].join
Submits(c) == call[c].kind = "apply" /\ ~Locked /\ ~Refused(c)

Mine(c) == {a \in Open : apps[a].join = call[c].join}
CanFile == \E a \in Apps : apps[a].state = "none"

\* The same join finds its request.
ApplyFinds(c) ==
  /\ Submits(c) /\ Mine(c) # {} /\ Ends(c)
  /\ row' = Ensured(call[c].join)
  /\ UNCHANGED <<server, events, evidence, grants, apps, review, pass, sweep, settings, spent>>

\* The open request of an older join is read without a lock on it ...
ApplyReads(c) ==
  /\ Submits(c) /\ Mine(c) = {} /\ CanFile
  /\ \E a \in Open : call' = [call EXCEPT ![c].kind = "filing", ![c].app = a]
  /\ UNCHANGED <<server, events, row, evidence, grants, apps, review, pass, sweep, settings, spent>>
\* ... and cancelled by its id, whatever it has become, as the new one is filed.
File(c, old) ==
  LET new == CHOOSE a \in Apps : apps[a].state = "none"
  IN /\ row' = Ensured(call[c].join)
     /\ apps' = [Closing(old, "cancelled") EXCEPT ![new] =
                   [state |-> "pending", join |-> call[c].join, barred |-> FALSE]]
     /\ review' = Redrawn(old \cup {new})
     /\ Ends(c)
     /\ UNCHANGED <<server, events, evidence, grants, pass, sweep, settings, spent>>
ApplyReplaces(c) == call[c].kind = "filing" /\ CanFile /\ File(c, {call[c].app})
ApplyFiles(c) == Submits(c) /\ Open = {} /\ CanFile /\ File(c, {})
ApplyRefused(c) ==
  /\ call[c].kind = "apply" /\ ~Locked /\ Refused(c) /\ Ends(c)
  /\ UNCHANGED <<server, events, row, evidence, grants, apps, review, pass, sweep, settings, spent>>

\* decide(): what the decision becomes once the rows are locked.
Standing(c) ==
  LET a == call[c].app
  IN /\ call[c].here /\ call[c].join = apps[a].join
     /\ row.present /\ row.join = apps[a].join
Decision(c) ==
  IF ~Standing(c) THEN "cancelled"
  ELSE IF evidence.link # "none" THEN "superseded"
  ELSE IF call[c].kind = "approve" THEN "approved" ELSE "denied"

\* Mutant: the state is the one the call read before its transaction.
DecideUnlocked(c) ==
  LET a == call[c].app state == Decision(c)
  IN /\ call[c].kind \in {"approve", "deny"} /\ ~Locked /\ Ends(c)
     /\ Close({a}, state)
     /\ IF state = "approved" THEN GrantWithin(a) /\ ReconcileUser
        ELSE /\ evidence' = [evidence EXCEPT !.cooling = @ \/ state = "denied"]
             /\ UNCHANGED <<grants, pass>>
     /\ UNCHANGED <<server, events, row, sweep, settings, spent>>

Decide(c) ==
  LET a == call[c].app state == Decision(c)
  IN /\ call[c].kind \in {"approve", "deny"} /\ ~Locked /\ Ends(c)
     /\ IF ~Pending(a) THEN UNCHANGED <<apps, review, evidence, grants, pass>>
        ELSE /\ Close({a}, state)
             /\ IF state = "approved" THEN GrantWithin(a) /\ ReconcileUser
                ELSE /\ evidence' = [evidence EXCEPT !.cooling = @ \/ state = "denied"]
                     /\ UNCHANGED <<grants, pass>>
     /\ UNCHANGED <<server, events, row, sweep, settings, spent>>

\* GUEST_COOLDOWN_SECONDS after the latest denial.
CooldownEnds ==
  /\ evidence.cooling /\ evidence' = [evidence EXCEPT !.cooling = FALSE]
  /\ UNCHANGED <<server, events, row, grants, apps, review, pass, sweep, settings, call, spent>>

-----------------------------------------------------------------------------
(* reconcile.user *)

\* user(): one pass at a time by the member's advisory lock; it reads the guild
\* and the member from Discord first.
PassReads ==
  /\ pass.job = "queued"
  /\ pass' = [pass EXCEPT !.job = IF server.here THEN "running" ELSE "none",
                          !.at = IF server.here THEN "read" ELSE "none",
                          !.roles = server.roles, !.revision = settings.revision]
  /\ UNCHANGED <<server, events, row, evidence, grants, apps, review, sweep, settings, call, spent>>

\* seedFreshLink(), accessFacts() and desiredAccess(): the pass's delta.
Seeded ==
  IF evidence.link # "unknown" \/ ~evidence.fresh THEN {evidence}
  ELSE {[evidence EXCEPT !.link = link, !.former = @ \/ link = "confirmed"] :
          link \in {"confirmed", "absent"}}
PassDecides ==
  /\ pass.at = "read" /\ pass.revision = settings.revision
  /\ \E ev \in Seeded :
       LET f == FactsOf(ev, pass.roles) want == Desired(f)
       IN /\ evidence' = ev
          /\ pass' = [pass EXCEPT !.at = "decided", !.add = want \ pass.roles,
                !.remove = pass.roles \ want,
                !.supersedes = DesiredMember(f) \/ (DesiredGuest(f) /\ f.verified)]
  /\ UNCHANGED <<server, events, row, grants, apps, review, sweep, settings, call, spent>>

\* The end of an attempt: a newer request, or a failure, leaves the row queued.
Ended(again) == [NoPass EXCEPT !.job = IF again THEN "queued" ELSE "none"]

\* Paused effects park the row until they resume; a changed revision supersedes.
PassStops ==
  /\ \/ pass.at \in {"read", "decided"} /\ pass.revision # settings.revision
     \/ pass.at = "decided" /\ ~settings.effects
  /\ pass' = Ended(TRUE)
  /\ UNCHANGED <<server, events, row, evidence, grants, apps, review, sweep, settings, call, spent>>

Echo(roles) == IF roles = server.roles THEN events ELSE events \cup {<<"changed", 0>>}
\* gateway.roles(): removals, then additions, on the member as they are now.
PassWrites ==
  /\ pass.at = "decided" /\ settings.effects /\ pass.revision = settings.revision
  /\ IF server.here
     THEN LET roles == (server.roles \ pass.remove) \cup pass.add
          IN /\ server' = [server EXCEPT !.roles = roles] /\ events' = Echo(roles)
             /\ pass' = [pass EXCEPT !.at = "wrote"]
     ELSE pass' = [pass EXCEPT !.at = "wrote", !.failed = TRUE] /\ UNCHANGED <<server, events>>
  /\ UNCHANGED <<row, evidence, grants, apps, review, sweep, settings, call, spent>>
\* A role is above the bot or an answer is lost: part of the delta is applied.
PassWriteFails ==
  /\ pass.at = "decided" /\ settings.effects /\ pass.revision = settings.revision /\ server.here
  /\ Spend
  /\ \E roles \in {server.roles, server.roles \ pass.remove} :
       server' = [server EXCEPT !.roles = roles] /\ events' = Echo(roles)
  /\ pass' = [pass EXCEPT !.at = "wrote", !.failed = TRUE]
  /\ UNCHANGED <<row, evidence, grants, apps, review, sweep, settings, call>>

\* An applicant whom the pass found eligible needs no decision, whatever became
\* of the write: a statement of its own closes the request ...
PassSupersedes ==
  /\ pass.at = "wrote"
  /\ IF pass.supersedes /\ Open # {}
     THEN /\ apps' = Closing(Open, "superseded")
          /\ pass' = [pass EXCEPT !.at = "closed", !.closed = Open]
     ELSE UNCHANGED apps /\ pass' = Ended(pass.newer \/ pass.failed)
  /\ UNCHANGED <<server, events, row, evidence, grants, review, sweep, settings, call, spent>>
\* ... and another queues the redraw, which nothing repeats when it fails.
PassRedraws ==
  /\ pass.at = "closed"
  /\ review' = Redrawn(pass.closed)
  /\ pass' = Ended(pass.newer \/ pass.failed)
  /\ UNCHANGED <<server, events, row, evidence, grants, apps, sweep, settings, call, spent>>
Cut(closed) == [a \in Apps |-> [review[a] EXCEPT !.cut = @ \/ a \in closed]]
PassRedrawFails ==
  /\ pass.at = "closed" /\ Spend
  /\ review' = Cut(pass.closed)
  /\ pass' = Ended(TRUE)
  /\ UNCHANGED <<server, events, row, evidence, grants, apps, sweep, settings, call>>

-----------------------------------------------------------------------------
(* reconcile.guild *)

\* guild(): the member list is read before the transaction that applies it.
SweepReads ==
  /\ sweep.job = "queued"
  /\ sweep' = [job |-> "running", newer |-> FALSE, here |-> server.here, join |-> server.join]
  /\ UNCHANGED <<server, events, row, evidence, grants, apps, review, pass, settings, call, spent>>

\* Mutant: only members still marked present are refreshed.
SweepAppliesKnown ==
  LET seen == IF sweep.here /\ row.present THEN Ensured(sweep.join) ELSE [row EXCEPT !.present = FALSE]
  IN /\ sweep.job = "running" /\ ~Locked /\ row' = seen
     /\ IF sweep.here THEN ReconcileUser ELSE UNCHANGED pass
     /\ Close({a \in Open : seen # Ensured(apps[a].join)}, "cancelled")
     /\ sweep' = [job |-> IF sweep.newer THEN "queued" ELSE "none", newer |-> FALSE,
                  here |-> FALSE, join |-> 0]
     /\ UNCHANGED <<server, events, evidence, grants, settings, call, spent>>

SweepApplies ==
  LET seen == IF sweep.here THEN Ensured(sweep.join) ELSE [row EXCEPT !.present = FALSE]
  IN /\ sweep.job = "running" /\ ~Locked /\ row' = seen
     /\ IF sweep.here THEN ReconcileUser ELSE UNCHANGED pass
     /\ Close({a \in Open : seen # Ensured(apps[a].join)}, "cancelled")
     /\ sweep' = [job |-> IF sweep.newer THEN "queued" ELSE "none", newer |-> FALSE,
                  here |-> FALSE, join |-> 0]
     /\ UNCHANGED <<server, events, evidence, grants, settings, call, spent>>

-----------------------------------------------------------------------------
(* guest.review *)

\* The row is read, then its message is posted or redrawn.
ReviewReads(a) ==
  /\ review[a].job = "queued" /\ settings.effects
  /\ review' = [review EXCEPT ![a] = [@ EXCEPT !.job = "running", !.newer = FALSE,
                                              !.seen = apps[a].state, !.cut = FALSE]]
  /\ UNCHANGED <<server, events, row, evidence, grants, apps, pass, sweep, settings, call, spent>>
ReviewPosts(a) ==
  /\ review[a].job = "running"
  /\ review' = [review EXCEPT ![a] = [@ EXCEPT !.shows = review[a].seen,
                                    !.job = IF review[a].newer THEN "queued" ELSE "none"]]
  /\ UNCHANGED <<server, events, row, evidence, grants, apps, pass, sweep, settings, call, spent>>

-----------------------------------------------------------------------------

\* A restart loses events, transactions and running attempts, queues the guild, and
\* brings back what was parked while ENABLE_EFFECTS was off.
Restarted(effects) ==
  /\ settings' = [settings EXCEPT !.effects = effects]
  /\ events' = {} /\ call' = [c \in Calls |-> Idle]
  /\ pass' = IF pass.job = "running" THEN Ended(TRUE) ELSE pass
  /\ review' = [a \in Apps |-> [Cut(pass.closed)[a] EXCEPT !.job = IF @ = "running" THEN "queued" ELSE @]]
  /\ sweep' = [job |-> "queued", newer |-> FALSE, here |-> FALSE, join |-> 0]
  /\ UNCHANGED <<server, row, evidence, grants, apps>>
Restart == Spend /\ \E effects \in BOOLEAN : Restarted(effects)
ResumeEffects == ~settings.effects /\ Restarted(TRUE) /\ UNCHANGED spent

-----------------------------------------------------------------------------

\* The request that may be open at first.
First == CHOOSE a \in Apps : TRUE
Init ==
  /\ server = [here |-> TRUE, join |-> 2, roles |-> {}]
  /\ events = {} /\ row = Ensured(2)
  /\ evidence \in Starts
  /\ grants = [k \in Keys |-> "none"]
  /\ \E filed \in BOOLEAN, join \in 1 .. 2 :
       /\ filed => (evidence.former => evidence.revoked)
       /\ apps = [a \in Apps |-> IF filed /\ a = First
                               THEN [Unfiled EXCEPT !.state = "pending", !.join = join] ELSE Unfiled]
       /\ review = [a \in Apps |-> [Unposted EXCEPT !.shows = apps[a].state]]
  /\ pass = [NoPass EXCEPT !.job = "queued"]
  /\ sweep = [job |-> "none", newer |-> FALSE, here |-> FALSE, join |-> 0]
  /\ settings = [revision |-> 1, effects |-> TRUE]
  /\ call = [c \in Calls |-> Idle]
  /\ spent = 0

Events == MemberLeft \/ MemberChanged \/ \E join \in 1 .. MaxChanges + 2 : MemberJoined(join)
Passes == PassReads \/ PassDecides \/ PassStops \/ PassWrites \/ PassSupersedes \/ PassRedraws
Sweeps == SweepReads \/ SweepApplies
Reviews(a) == ReviewReads(a) \/ ReviewPosts(a)
CallEnds(c) ==
  ApplyFinds(c) \/ ApplyReads(c) \/ ApplyReplaces(c) \/ ApplyFiles(c) \/ ApplyRefused(c) \/ Decide(c)

Next ==
  \/ Leave \/ Join \/ EditRoles \/ Events
  \/ Link \/ EndLink \/ RosterAccepted \/ EvidenceAges \/ Hourly
  \/ GuestGrant \/ GuestRevoke \/ GuestReset \/ Configure \/ ResumeEffects
  \/ \E c \in Calls : BeginApply(c) \/ BeginDecide(c) \/ CallEnds(c)
  \/ CooldownEnds \/ Passes \/ PassWriteFails \/ PassRedrawFails \/ Sweeps
  \/ \E a \in Apps : Reviews(a)
  \/ Restart

\* The bot handles its events, its queue and its interactions; nobody has to ask.
Fairness ==
  /\ WF_vars(Events) /\ WF_vars(Passes) /\ WF_vars(Sweeps) /\ WF_vars(ResumeEffects)
  /\ \A a \in Apps : WF_vars(Reviews(a))
  /\ \A c \in Calls : WF_vars(CallEnds(c))
Spec == Init /\ [][Next]_vars /\ Fairness

-----------------------------------------------------------------------------

(* A closed application stays as it was closed, and one filed before its      *)
(* applicant's access was revoked is never approved afterwards: decide() and  *)
(* /guest revoke meet on the member's row (service.ts:2849, 3059).  One case  *)
(* alone moves a closed one: apply() reads the request it replaces without a  *)
(* lock and cancels it by id, so what a pass superseded meanwhile becomes     *)
(* cancelled as that very call commits (service.ts:2765-2781).               *)
Replaced(a) ==
  /\ apps[a].state = "superseded" /\ apps'[a].state = "cancelled"
  /\ \E c \in Calls : call[c].kind = "filing" /\ call[c].app = a /\ call'[c] = Idle
DecisionsStand ==
  [][\A a \in Apps :
       /\ apps[a].state \notin {"none", "pending"} => apps'[a].state = apps[a].state \/ Replaced(a)
       /\ apps[a].barred => apps'[a].state # "approved" \/ apps[a].state = "approved"]_vars

(* Every change of links, grants, revocations, settings or roles by hand      *)
(* queues its own pass: once the changes stop, the member's roles are those   *)
(* the policy asks for, without the hourly roster (synchronization.ts:834).   *)
AccessSettles ==
  <>[](server.here => server.roles = Desired(FactsOf(evidence, server.roles)))

(* While the guild keeps being swept, the row comes to agree with Discord     *)
(* whatever order the events of a quick rejoin committed in, and a request of *)
(* an earlier join does not stay open (synchronization.ts:723).              *)
PresenceSettles ==
  []<>(sweep.job = "running") =>
    <>[](/\ row.present = server.here /\ (server.here => row.join = server.join)
         /\ \A a \in Apps : Pending(a) => server.here /\ apps[a].join = server.join)

(* However an application ends - decided, cancelled by a departure, replaced  *)
(* or superseded by a pass - its review message comes to show it, so officers *)
(* are not left with buttons of a closed request (dispatch.ts:287).  Only a   *)
(* pass that stops between closing a request and queueing its redraw, two     *)
(* statements of their own, leaves one behind: the next pass finds nothing    *)
(* open (synchronization.ts:1056-1076).                                      *)
ReviewsShowOutcome ==
  <>[](\A a \in Apps : apps[a].state # "none" =>
         \/ review[a].shows = apps[a].state
         \/ review[a].cut /\ apps[a].state = "superseded")
=============================================================================
