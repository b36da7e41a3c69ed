-------------------------- MODULE GuestAccessProofs --------------------------
(***************************************************************************)
(* Theorems about the access of one member (GuestAccess) and the rules it     *)
(* follows (AccessPolicy).  The rules: a pass that repeats itself changes     *)
(* nothing, and what is recorded as decided does not depend on the roles the *)
(* member happens to hold.  The protocol: every step moves the applications  *)
(* in one of five ways (Moves), whichever handlers, passes and interactions  *)
(* run side by side, and no way reopens a closed application or approves one *)
(* that a revocation has passed over.  While a replacement holds the         *)
(* member's row (FilingOK), only a pass can move what it is about to cancel. *)
(***************************************************************************)
EXTENDS GuestAccess, TLAPS

States == {"none", "pending", "approved", "denied", "cancelled", "superseded"}
Jobs == {"none", "queued", "running"}

ServerRec == [here : BOOLEAN, join : Nat, roles : SUBSET Roles]
RowRec == [present : BOOLEAN, join : Nat]
AppRec == [state : States, join : Nat, barred : BOOLEAN]
ReviewRec == [job : Jobs, newer : BOOLEAN, seen : States, shows : States, cut : BOOLEAN]
PassRec == [job : Jobs, newer : BOOLEAN, at : {"none", "read", "decided", "wrote", "closed"},
            roles : SUBSET Roles, add : SUBSET Roles, remove : SUBSET Roles, supersedes : BOOLEAN,
            closed : SUBSET Apps, failed : BOOLEAN, revision : Nat]
SweepRec == [job : Jobs, newer : BOOLEAN, here : BOOLEAN, join : Nat]
CallRec == [kind : {"idle", "apply", "filing", "approve", "deny"}, app : Apps \cup {NoApp}, here : BOOLEAN,
            join : Nat, roles : SUBSET Roles, revision : Nat]

TypeOK ==
  /\ server \in ServerRec /\ row \in RowRec /\ evidence \in Evidence
  /\ grants \in [Keys -> {"none", "active", "ended"}]
  /\ apps \in [Apps -> AppRec] /\ review \in [Apps -> ReviewRec]
  /\ pass \in PassRec /\ sweep \in SweepRec
  /\ settings \in [revision : Nat, effects : BOOLEAN]
  /\ call \in [Calls -> CallRec] /\ spent \in Nat
  /\ \A c \in Calls : call[c].kind \in {"filing", "approve", "deny"} => call[c].app \in Apps

\* A member has at most one open application.
OnePending == \A a, b \in Apps : Pending(a) /\ Pending(b) => a = b
\* A revocation closes what it passes over.
NoneBarred == \A a \in Apps : apps[a].barred => ~Pending(a)
\* An approval and its grant commit together, and nothing else uses the key.
GrantsMatch == \A a \in Apps : apps[a].state = "approved" <=> grants[a] # "none"
\* A pass asks for one role at most, and for nothing twice.
AsksForOne ==
  pass.at = "decided" => LET after == (pass.roles \ pass.remove) \cup pass.add
                         IN /\ ~(Roles \subseteq after)
                            /\ pass.add \cap pass.roles = {} /\ pass.remove \subseteq pass.roles

\* A replacement is alone with the member's row: nothing else is open than what it is
\* about to cancel, which only a pass may have closed.
FilingOK ==
  \A c \in Calls : call[c].kind = "filing" =>
    /\ apps[call[c].app].state \in {"pending", "superseded"}
    /\ \A a \in Apps : Pending(a) => a = call[c].app
    /\ \A d \in Calls : call[d].kind = "filing" => d = c

Inv == TypeOK /\ OnePending /\ NoneBarred /\ GrantsMatch /\ AsksForOne /\ FilingOK

-----------------------------------------------------------------------------
(* What the rules promise *)

Settled(f) == Holding(f, DesiredMember(f), DesiredGuest(f))

(* A pass over the roles the last pass left asks for nothing more, so the     *)
(* bot's own role events cannot make it add and remove a role in turn.        *)
THEOREM DesiredIsStable ==
  ASSUME NEW f \in Facts
  PROVE  /\ DesiredMember(Settled(f)) = DesiredMember(f)
         /\ DesiredGuest(Settled(f)) = DesiredGuest(f)
<1>1. f.membership \in Memberships /\ DesiredMember(f) \in BOOLEAN /\ DesiredGuest(f) \in BOOLEAN
  BY DEF Facts, DesiredMember, DesiredGuest
<1>2. /\ Settled(f).hasMember = DesiredMember(f)
      /\ Settled(f).hasGuest = DesiredGuest(f)
      /\ \A k \in {"membership", "fresh", "former", "grant", "revoked", "verified"} :
           Settled(f)[k] = f[k]
  BY DEF Facts, Settled, Holding
<1>. QED
  BY <1>1, <1>2 DEF Facts, Memberships, DesiredMember, DesiredGuest

(* Nobody receives the Member role on evidence older than the roster         *)
(* interval, and nobody whose Guest access was revoked is ever given Guest.   *)
THEOREM NothingFromStaleEvidence ==
  ASSUME NEW f \in Facts
  PROVE  /\ ~f.fresh /\ ~f.hasMember => ~DesiredMember(f)
         /\ f.revoked => ~DesiredGuest(f)
         /\ ~(DesiredMember(f) /\ DesiredGuest(f))
  BY DEF Facts, Memberships, DesiredMember, DesiredGuest

(* accessDecisive() by class, as its comment works it out: Member is open     *)
(* while a link waits for its first roster and while a member's evidence is   *)
(* stale; Guest is open in doubt, on stale membership, and on stale           *)
(* registration that nothing else backs.                                     *)
THEOREM DecisiveByClass ==
  ASSUME NEW f \in Facts
  PROVE  /\ MemberDecisive(f) <=> \/ f.membership = "ineligible"
                                  \/ f.membership = "member" /\ f.fresh
         /\ GuestDecisive(f) <=>
              \/ f.revoked
              \/ f.membership = "member" /\ f.fresh
              \/ /\ f.membership = "ineligible"
                 /\ f.fresh \/ f.grant \/ f.former \/ ~f.verified
<1>1. f.membership \in Memberships
  BY DEF Facts
<1>2. \A m, g \in BOOLEAN :
        DesiredMember(Holding(f, m, g)) = (\/ f.membership = "member" /\ (f.fresh \/ m)
                                           \/ f.membership = "uncertain" /\ m)
  BY DEF Facts, Holding, DesiredMember
<1>3. \A m, g \in BOOLEAN :
        DesiredGuest(Holding(f, m, g)) =
          (/\ ~f.revoked /\ ~DesiredMember(Holding(f, m, g))
           /\ \/ f.membership = "member" /\ g
              \/ f.membership = "uncertain" /\ (f.grant \/ g)
              \/ /\ f.membership = "ineligible"
                 /\ f.grant \/ f.former \/ (f.verified /\ (f.fresh \/ g)))
  BY DEF Facts, Holding, DesiredGuest
<1>4. MemberDecisive(f) <=>
        /\ DesiredMember(Holding(f, TRUE, FALSE)) = DesiredMember(Holding(f, FALSE, FALSE))
        /\ DesiredMember(Holding(f, TRUE, TRUE)) = DesiredMember(Holding(f, FALSE, FALSE))
        /\ DesiredMember(Holding(f, FALSE, TRUE)) = DesiredMember(Holding(f, FALSE, FALSE))
  BY DEF MemberDecisive
<1>5. GuestDecisive(f) <=>
        /\ DesiredGuest(Holding(f, TRUE, FALSE)) = DesiredGuest(Holding(f, FALSE, FALSE))
        /\ DesiredGuest(Holding(f, TRUE, TRUE)) = DesiredGuest(Holding(f, FALSE, FALSE))
        /\ DesiredGuest(Holding(f, FALSE, TRUE)) = DesiredGuest(Holding(f, FALSE, FALSE))
  BY DEF GuestDecisive
<1>6. /\ f.fresh \in BOOLEAN /\ f.revoked \in BOOLEAN /\ f.grant \in BOOLEAN
      /\ f.former \in BOOLEAN /\ f.verified \in BOOLEAN
  BY DEF Facts
<1>. QED
  BY <1>1, <1>2, <1>3, <1>4, <1>5, <1>6 DEF Memberships

-----------------------------------------------------------------------------
(* The rules as a pass uses them *)

LEMMA FactsTyped ==
  ASSUME NEW ev \in Evidence, NEW roles \in SUBSET Roles
  PROVE  /\ FactsOf(ev, roles) \in Facts
         /\ FactsOf(ev, roles).hasMember = ("member" \in roles)
         /\ FactsOf(ev, roles).hasGuest = ("guest" \in roles)
<1> DEFINE class == MembershipClass(TRUE, ev.link = "confirmed", ev.link = "unknown", ev.loss)
           granted == \E k \in Keys : grants[k] = "active"
           linked == ev.link # "none"
           member == "member" \in roles
           guest == "guest" \in roles
<1>1. /\ class \in Memberships /\ granted \in BOOLEAN /\ linked \in BOOLEAN
      /\ member \in BOOLEAN /\ guest \in BOOLEAN
  BY DEF MembershipClass, Memberships
<1>2. ev.fresh \in BOOLEAN /\ ev.former \in BOOLEAN /\ ev.revoked \in BOOLEAN
  BY DEF Evidence
<1>3. FactsOf(ev, roles) =
        [membership |-> class, fresh |-> ev.fresh, former |-> ev.former, revoked |-> ev.revoked,
         grant |-> granted, verified |-> linked, hasMember |-> member, hasGuest |-> guest]
  BY Zenon DEF FactsOf
<1> HIDE DEF class, granted, linked, member, guest
<1>4. /\ FactsOf(ev, roles) \in Facts
      /\ FactsOf(ev, roles).hasMember = member /\ FactsOf(ev, roles).hasGuest = guest
  BY <1>1, <1>2, <1>3 DEF Facts
<1>5. QED  BY <1>4 DEF member, guest

\* Only the roles held tell the facts of two passes over the same evidence apart.
LEMMA FactsHolding ==
  ASSUME NEW ev \in Evidence, NEW roles \in SUBSET Roles, NEW others \in SUBSET Roles
  PROVE  FactsOf(ev, others) = Holding(FactsOf(ev, roles), "member" \in others, "guest" \in others)
<1> DEFINE f == FactsOf(ev, roles)
           g == FactsOf(ev, others)
<1>1. f \in Facts /\ g \in Facts /\ g.hasMember = ("member" \in others) /\ g.hasGuest = ("guest" \in others)
  BY FactsTyped
<1>2. /\ g.membership = f.membership /\ g.fresh = f.fresh /\ g.former = f.former
      /\ g.revoked = f.revoked /\ g.grant = f.grant /\ g.verified = f.verified
  BY DEF FactsOf
<1> HIDE DEF f, g
<1>3. ASSUME NEW m \in BOOLEAN, NEW n \in BOOLEAN, g.hasMember = m, g.hasGuest = n PROVE g = Holding(f, m, n)
  BY <1>1, <1>2, <1>3 DEF Holding, Facts
<1>4. ("member" \in others) \in BOOLEAN /\ ("guest" \in others) \in BOOLEAN
  OBVIOUS
<1>5. QED  BY <1>1, <1>3, <1>4 DEF f, g

LEMMA DesiredRoles ==
  ASSUME NEW f \in Facts
  PROVE  /\ Desired(f) \in SUBSET Roles
         /\ ("member" \in Desired(f)) = DesiredMember(f)
         /\ ("guest" \in Desired(f)) = DesiredGuest(f)
         /\ ~(Roles \subseteq Desired(f))
<1>1. DesiredMember(f) \in BOOLEAN /\ DesiredGuest(f) \in BOOLEAN
  BY DEF DesiredMember, DesiredGuest
<1>2. /\ Desired(f) \in SUBSET Roles
      /\ ("member" \in Desired(f)) = DesiredMember(f)
      /\ ("guest" \in Desired(f)) = DesiredGuest(f)
  BY <1>1 DEF Desired, Roles
<1>3. QED  BY <1>2, NothingFromStaleEvidence DEF Roles

(* A pass that reads the roles an earlier pass wrote, with the evidence the    *)
(* same, has nothing to add and nothing to remove: the events the bot's own   *)
(* writes raise do not keep it going.                                        *)
THEOREM RepeatedPassChangesNothing ==
  ASSUME NEW ev \in Evidence, NEW roles \in SUBSET Roles
  PROVE  LET wrote == Desired(FactsOf(ev, roles))
         IN Desired(FactsOf(ev, wrote)) = wrote
<1> DEFINE f == FactsOf(ev, roles)
           wrote == Desired(f)
           again == FactsOf(ev, wrote)
<1>1. f \in Facts
  BY FactsTyped
<1>2. wrote \in SUBSET Roles /\ ("member" \in wrote) = DesiredMember(f) /\ ("guest" \in wrote) = DesiredGuest(f)
  BY <1>1, DesiredRoles
<1>3. again = Settled(f)
  BY <1>2, FactsHolding DEF Settled
<1>4. DesiredMember(again) = DesiredMember(f) /\ DesiredGuest(again) = DesiredGuest(f)
  BY <1>1, <1>3, DesiredIsStable
<1>5. QED  BY <1>4 DEF Desired

-----------------------------------------------------------------------------
(* Types *)

LEMMA RequeuedTyped ==
  /\ \A p \in PassRec : Requeued(p) \in PassRec
  /\ \A p \in SweepRec : Requeued(p) \in SweepRec
  /\ \A p \in ReviewRec : Requeued(p) \in ReviewRec
<1>1. ASSUME NEW p \in PassRec PROVE Requeued(p) \in PassRec
  BY DEF Requeued, PassRec, Jobs
<1>2. ASSUME NEW p \in SweepRec PROVE Requeued(p) \in SweepRec
  BY DEF Requeued, SweepRec, Jobs
<1>3. ASSUME NEW p \in ReviewRec PROVE Requeued(p) \in ReviewRec
  BY DEF Requeued, ReviewRec, Jobs
<1>4. QED  BY <1>1, <1>2, <1>3

LEMMA ClosingTyped ==
  ASSUME TypeOK, NEW closed \in SUBSET Apps, NEW state \in States
  PROVE  /\ Closing(closed, state) \in [Apps -> AppRec]
         /\ Redrawn(closed) \in [Apps -> ReviewRec]
         /\ Barred(Closing(closed, state)) \in [Apps -> AppRec]
<1>1. apps \in [Apps -> AppRec] /\ review \in [Apps -> ReviewRec]
  BY DEF TypeOK
<1>2. \A r \in AppRec : [r EXCEPT !.state = state] \in AppRec
  BY DEF AppRec
<1>3. \A r \in AppRec, b \in BOOLEAN : [r EXCEPT !.barred = b] \in AppRec
  BY DEF AppRec
<1>4. Closing(closed, state) \in [Apps -> AppRec]
  BY <1>1, <1>2 DEF Closing
<1>5. Redrawn(closed) \in [Apps -> ReviewRec]
  BY <1>1, RequeuedTyped DEF Redrawn
<1>6. QED  BY <1>3, <1>4, <1>5 DEF Barred

LEMMA CutTyped ==
  ASSUME TypeOK, NEW closed
  PROVE  Cut(closed) \in [Apps -> ReviewRec]
<1>1. \A r \in ReviewRec, b \in BOOLEAN : [r EXCEPT !.cut = b] \in ReviewRec
  BY DEF ReviewRec
<1>2. \A a \in Apps : review[a] \in ReviewRec /\ (review[a].cut \/ a \in closed) \in BOOLEAN
  BY DEF TypeOK, ReviewRec
<1>3. QED  BY <1>1, <1>2 DEF Cut

LEMMA GrantTyped ==
  ASSUME TypeOK, NEW k \in Keys, GrantWithin(k)
  PROVE  grants' \in [Keys -> {"none", "active", "ended"}] /\ evidence' \in Evidence
<1>1. [evidence EXCEPT !.revoked = FALSE] \in Evidence
  BY DEF TypeOK, Evidence
<1>2. QED  BY <1>1 DEF TypeOK, GrantWithin

LEMMA EvidenceTyped ==
  ASSUME NEW ev \in Evidence, NEW b \in BOOLEAN, NEW d \in BOOLEAN,
         NEW link \in {"none", "unknown", "confirmed", "absent"}
  PROVE  /\ [ev EXCEPT !.link = link] \in Evidence /\ [ev EXCEPT !.former = b] \in Evidence
         /\ [ev EXCEPT !.fresh = b] \in Evidence /\ [ev EXCEPT !.revoked = b] \in Evidence
         /\ [ev EXCEPT !.cooling = b] \in Evidence
         /\ [ev EXCEPT !.link = link, !.loss = b] \in Evidence
         /\ [ev EXCEPT !.link = link, !.former = b] \in Evidence
         /\ [ev EXCEPT !.fresh = d, !.link = link, !.former = b] \in Evidence
  BY DEF Evidence

LEMMA InitTyped == Init => TypeOK
<1> SUFFICES ASSUME Init PROVE TypeOK
  OBVIOUS
<1>1. /\ server \in ServerRec /\ row \in RowRec /\ evidence \in Evidence
      /\ grants \in [Keys -> {"none", "active", "ended"}] /\ spent \in Nat
      /\ settings \in [revision : Nat, effects : BOOLEAN]
  BY BoundAssumption DEF Init, ServerRec, RowRec, Ensured, Keys
<1>2. pass \in PassRec /\ sweep \in SweepRec
  BY DEF Init, NoPass, PassRec, SweepRec, Jobs
<1>3. call \in [Calls -> CallRec] /\ \A c \in Calls : call[c].kind = "idle"
  BY DEF Init, Idle, CallRec
<1>4. apps \in [Apps -> AppRec] /\ review \in [Apps -> ReviewRec]
  <2>1. PICK filed \in BOOLEAN, join \in 1 .. 2 :
          /\ apps = [a \in Apps |-> IF filed /\ a = First
                                    THEN [Unfiled EXCEPT !.state = "pending", !.join = join] ELSE Unfiled]
          /\ review = [a \in Apps |-> [Unposted EXCEPT !.shows = apps[a].state]]
    BY DEF Init
  <2>2. Unfiled \in AppRec /\ [Unfiled EXCEPT !.state = "pending", !.join = join] \in AppRec
    <3>1. join \in Nat /\ "pending" \in States
      BY DEF States
    <3>2. \A r \in AppRec, n \in Nat, s \in States : [r EXCEPT !.state = s, !.join = n] \in AppRec
      BY DEF AppRec
    <3>3. Unfiled \in AppRec
      BY DEF Unfiled, AppRec, States
    <3>4. QED  BY <3>1, <3>2, <3>3
  <2>3. apps \in [Apps -> AppRec]
    BY <2>1, <2>2
  <2>4. \A shows \in States : [Unposted EXCEPT !.shows = shows] \in ReviewRec
    BY DEF Unposted, ReviewRec, Jobs, States
  <2>5. \A a \in Apps : apps[a].state \in States
    BY <2>3 DEF AppRec
  <2>6. QED  BY <2>1, <2>3, <2>4, <2>5
<1>5. QED  BY <1>1, <1>2, <1>3, <1>4 DEF TypeOK

LEMMA SpendTyped == TypeOK /\ Spend => spent' \in Nat
  BY DEF TypeOK, Spend

LEMMA QueuesTyped ==
  /\ TypeOK /\ ReconcileUser => pass' \in PassRec
  /\ TypeOK /\ ReconcileGuild => sweep' \in SweepRec
  BY RequeuedTyped DEF TypeOK, ReconcileUser, ReconcileGuild

LEMMA DiscordTyped ==
  ASSUME TypeOK,
         Leave \/ Join \/ EditRoles \/ MemberLeft \/ MemberChanged \/ \E join \in Nat : MemberJoined(join)
  PROVE  TypeOK'
<1>1. CASE Leave
  <2>1. server' \in ServerRec
    BY <1>1 DEF Leave, TypeOK, ServerRec
  <2>2. QED  BY <1>1, <2>1, SpendTyped DEF Leave, TypeOK
<1>2. CASE Join
  <2>1. server' \in ServerRec
    BY <1>2 DEF Join, TypeOK, ServerRec
  <2>2. QED  BY <1>2, <2>1, SpendTyped DEF Join, TypeOK
<1>3. CASE EditRoles
  <2>1. server' \in ServerRec
    BY <1>3 DEF EditRoles, TypeOK, ServerRec
  <2>2. QED  BY <1>3, <2>1, SpendTyped DEF EditRoles, TypeOK
<1>4. CASE MemberLeft
  <2>1. Open \in SUBSET Apps /\ "cancelled" \in States
    BY DEF Open, States
  <2>2. apps' \in [Apps -> AppRec] /\ review' \in [Apps -> ReviewRec]
    BY <1>4, <2>1, ClosingTyped DEF MemberLeft, Close
  <2>3. row' \in RowRec
    BY <1>4 DEF MemberLeft, TypeOK, RowRec
  <2>4. QED  BY <1>4, <2>2, <2>3 DEF MemberLeft, TypeOK
<1>5. CASE MemberChanged
  BY <1>5, QueuesTyped DEF MemberChanged, TypeOK
<1>6. CASE \E join \in Nat : MemberJoined(join)
  BY <1>6, QueuesTyped DEF MemberJoined, Ensured, RowRec, TypeOK
<1>7. QED  BY <1>1, <1>2, <1>3, <1>4, <1>5, <1>6

LEMMA OfficersTyped ==
  ASSUME TypeOK,
         \/ Link \/ EndLink \/ RosterAccepted \/ EvidenceAges \/ Hourly
         \/ GuestGrant \/ GuestRevoke \/ GuestReset \/ Configure \/ CooldownEnds
  PROVE  TypeOK'
<1>0. /\ evidence \in Evidence /\ evidence.former \in BOOLEAN
      /\ \A x : (evidence.former \/ x = "confirmed") \in BOOLEAN
  BY DEF TypeOK, Evidence
<1>1. CASE Link
  <2>1. evidence' \in Evidence
    BY <1>0, <1>1, EvidenceTyped DEF Link
  <2>2. QED  BY <1>1, <2>1, QueuesTyped, SpendTyped DEF Link, TypeOK
<1>2. CASE EndLink
  <2>1. evidence' \in Evidence
    BY <1>0, <1>2, EvidenceTyped DEF EndLink
  <2>2. QED  BY <1>2, <2>1, QueuesTyped, SpendTyped DEF EndLink, TypeOK
<1>3. CASE RosterAccepted
  <2>1. evidence' \in Evidence
    BY <1>0, <1>3, EvidenceTyped DEF RosterAccepted
  <2>2. QED  BY <1>3, <2>1, QueuesTyped, SpendTyped DEF RosterAccepted, TypeOK
<1>4. CASE EvidenceAges
  <2>1. evidence' \in Evidence
    BY <1>0, <1>4, EvidenceTyped DEF EvidenceAges
  <2>2. QED  BY <1>4, <2>1, SpendTyped DEF EvidenceAges, TypeOK
<1>5. CASE Hourly
  BY <1>5, QueuesTyped DEF Hourly, TypeOK
<1>6. CASE GuestGrant
  BY <1>6, QueuesTyped, SpendTyped, GrantTyped DEF GuestGrant, Keys, TypeOK
<1>7. CASE GuestRevoke
  <2>1. Open \in SUBSET Apps /\ "cancelled" \in States
    BY DEF Open, States
  <2>2. apps' \in [Apps -> AppRec] /\ review' \in [Apps -> ReviewRec]
    BY <1>7, <2>1, ClosingTyped DEF GuestRevoke
  <2>3. evidence' \in Evidence
    BY <1>0, <1>7, EvidenceTyped DEF GuestRevoke
  <2>4. QED  BY <1>7, <2>2, <2>3, QueuesTyped, SpendTyped DEF GuestRevoke, TypeOK
<1>8. CASE GuestReset
  <2>1. grants' \in [Keys -> {"none", "active", "ended"}] /\ evidence' \in Evidence
    BY <1>0, <1>8, EvidenceTyped DEF GuestReset, TypeOK
  <2>2. QED  BY <1>8, <2>1, QueuesTyped, SpendTyped DEF GuestReset, TypeOK
<1>9. CASE Configure
  BY <1>9, QueuesTyped, SpendTyped DEF Configure, TypeOK
<1>10. CASE CooldownEnds
  BY <1>0, <1>10, EvidenceTyped DEF CooldownEnds, TypeOK
<1>11. QED  BY <1>1, <1>2, <1>3, <1>4, <1>5, <1>6, <1>7, <1>8, <1>9, <1>10

LEMMA CallsTyped ==
  ASSUME TypeOK, NEW c \in Calls, BeginApply(c) \/ BeginDecide(c) \/ CallEnds(c)
  PROVE  TypeOK'
<1>0. Idle \in CallRec /\ Idle.kind = "idle"
  BY DEF Idle, CallRec
<1>1. ASSUME NEW kind \in {"apply", "approve", "deny"}, NEW app \in Apps \cup {NoApp}, Begin(c, kind, app),
             kind # "apply" => app \in Apps
      PROVE  TypeOK'
  <2> DEFINE new == [kind |-> kind, app |-> app, here |-> server.here, join |-> server.join,
                     roles |-> server.roles, revision |-> settings.revision]
  <2>1. new \in CallRec /\ new.kind = kind /\ new.app = app
    BY DEF TypeOK, CallRec, ServerRec
  <2>2. call' = [call EXCEPT ![c] = new]
    BY <1>1 DEF Begin
  <2> HIDE DEF new
  <2>3. /\ call' \in [Calls -> CallRec]
        /\ \A d \in Calls : call'[d].kind \in {"filing", "approve", "deny"} => call'[d].app \in Apps
    BY <1>1, <2>1, <2>2 DEF TypeOK
  <2>4. QED  BY <1>1, <2>3 DEF Begin, Spend, TypeOK
<1>2. CASE BeginApply(c)
  BY <1>1, <1>2 DEF BeginApply
<1>3. CASE BeginDecide(c)
  BY <1>1, <1>3 DEF BeginDecide
<1>4. ASSUME Ends(c)
      PROVE  /\ call' \in [Calls -> CallRec]
             /\ \A d \in Calls : call'[d].kind \in {"filing", "approve", "deny"} => call'[d].app \in Apps
  BY <1>0, <1>4 DEF Ends, TypeOK
<1>5. ASSUME NEW old \in SUBSET Apps, CanFile, File(c, old) PROVE TypeOK'
  <2> DEFINE new == CHOOSE a \in Apps : apps[a].state = "none"
             filed == [state |-> "pending", join |-> call[c].join, barred |-> FALSE]
  <2>1. call[c].join \in Nat /\ filed \in AppRec /\ "cancelled" \in States
    BY DEF TypeOK, CallRec, AppRec, States
  <2>2. new \in Apps
    BY <1>5 DEF CanFile
  <2>3. /\ apps' = [Closing(old, "cancelled") EXCEPT ![new] = filed]
        /\ review' = Redrawn(old \cup {new})
    BY <1>5 DEF File
  <2>4. row' \in RowRec
    BY <1>5, <2>1 DEF File, Ensured, RowRec
  <2> HIDE DEF new, filed
  <2>5. Closing(old, "cancelled") \in [Apps -> AppRec] /\ review' \in [Apps -> ReviewRec]
    BY <2>1, <2>2, <2>3, ClosingTyped
  <2>6. apps' \in [Apps -> AppRec]
    BY <2>1, <2>2, <2>3, <2>5
  <2>7. QED  BY <1>4, <1>5, <2>4, <2>5, <2>6 DEF File, TypeOK
<1>6. CASE ApplyFinds(c)
  <2>1. row' \in RowRec
    BY <1>6 DEF ApplyFinds, Ensured, RowRec, CallRec, TypeOK
  <2>2. QED  BY <1>4, <1>6, <2>1 DEF ApplyFinds, TypeOK
<1>7. CASE ApplyReads(c)
  <2>1. PICK a \in Open : call' = [call EXCEPT ![c].kind = "filing", ![c].app = a]
    BY <1>7 DEF ApplyReads
  <2>2. a \in Apps
    BY DEF Open
  <2> DEFINE new == [call[c] EXCEPT !.kind = "filing", !.app = a]
  <2>3. new \in CallRec /\ new.app \in Apps
    BY <2>2 DEF TypeOK, CallRec
  <2>4. call' = [call EXCEPT ![c] = new]
    BY <2>1 DEF TypeOK
  <2> HIDE DEF new
  <2>5. /\ call' \in [Calls -> CallRec]
        /\ \A d \in Calls : call'[d].kind \in {"filing", "approve", "deny"} => call'[d].app \in Apps
    BY <2>3, <2>4 DEF TypeOK
  <2>6. QED  BY <1>7, <2>5 DEF ApplyReads, TypeOK
<1>8. CASE ApplyReplaces(c)
  <2>1. {call[c].app} \in SUBSET Apps
    BY <1>8 DEF ApplyReplaces, TypeOK
  <2>2. QED  BY <1>5, <1>8, <2>1 DEF ApplyReplaces
<1>9. CASE ApplyFiles(c)
  BY <1>5, <1>9 DEF ApplyFiles
<1>10. CASE ApplyRefused(c)
  BY <1>4, <1>10 DEF ApplyRefused, TypeOK
<1>11. CASE Decide(c)
  <2> DEFINE a == call[c].app
             state == Decision(c)
  <2>1. a \in Apps /\ a \in Keys /\ state \in States
    BY <1>11 DEF Decide, TypeOK, Keys, Decision, States
  <2>2. apps' \in [Apps -> AppRec] /\ review' \in [Apps -> ReviewRec]
    <3>1. CASE ~Pending(a)
      BY <1>11, <3>1 DEF Decide, TypeOK
    <3>2. CASE Pending(a)
      <4>1. Close({a}, state)
        BY <1>11, <3>2 DEF Decide
      <4>2. {a} \in SUBSET Apps
        BY <2>1
      <4> HIDE DEF a, state
      <4>3. QED  BY <2>1, <4>1, <4>2, ClosingTyped DEF Close
    <3>3. QED  BY <3>1, <3>2
  <2>3. /\ grants' \in [Keys -> {"none", "active", "ended"}] /\ evidence' \in Evidence
        /\ pass' \in PassRec
    <3>1. CASE UNCHANGED <<evidence, grants, pass>>
      BY <3>1 DEF TypeOK
    <3>2. CASE GrantWithin(a) /\ ReconcileUser
      BY <2>1, <3>2, GrantTyped, RequeuedTyped DEF ReconcileUser, TypeOK
    <3>3. CASE evidence' = [evidence EXCEPT !.cooling = @ \/ state = "denied"] /\ UNCHANGED <<grants, pass>>
      BY <3>3 DEF TypeOK, Evidence
    <3>4. QED  BY <1>11, <3>1, <3>2, <3>3 DEF Decide
  <2>4. QED  BY <1>4, <1>11, <2>2, <2>3 DEF Decide, TypeOK
<1>12. QED  BY <1>2, <1>3, <1>6, <1>7, <1>8, <1>9, <1>10, <1>11 DEF CallEnds

LEMMA PassesTyped ==
  ASSUME TypeOK,
         \/ PassReads \/ PassDecides \/ PassStops \/ PassWrites \/ PassWriteFails
         \/ PassSupersedes \/ PassRedraws \/ PassRedrawFails
  PROVE  TypeOK'
<1>0. \A again \in BOOLEAN : Ended(again) \in PassRec
  BY DEF Ended, NoPass, PassRec, Jobs
<1>1. CASE PassReads
  <2>1. /\ \A p \in PassRec, job \in Jobs, at \in {"none", "read"}, roles \in SUBSET Roles, n \in Nat :
             [p EXCEPT !.job = job, !.at = at, !.roles = roles, !.revision = n] \in PassRec
    BY DEF PassRec
  <2>2. server.roles \in SUBSET Roles /\ settings.revision \in Nat /\ server.here \in BOOLEAN
    BY DEF TypeOK, ServerRec
  <2>3. pass' \in PassRec
    BY <1>1, <2>1, <2>2 DEF PassReads, TypeOK, Jobs
  <2>4. QED  BY <1>1, <2>3 DEF PassReads, TypeOK
<1>2. CASE PassDecides
  <2>1. PICK ev \in Seeded :
          LET f == FactsOf(ev, pass.roles) want == Desired(f)
          IN /\ evidence' = ev
             /\ pass' = [pass EXCEPT !.at = "decided", !.add = want \ pass.roles,
                   !.remove = pass.roles \ want,
                   !.supersedes = DesiredMember(f) \/ (DesiredGuest(f) /\ f.verified)]
    BY <1>2 DEF PassDecides
  <2>2. ev \in Evidence
    <3>1. /\ evidence \in Evidence /\ evidence.former \in BOOLEAN
          /\ \A x : (evidence.former \/ x = "confirmed") \in BOOLEAN
      BY DEF TypeOK, Evidence
    <3>2. QED  BY <3>1, EvidenceTyped DEF Seeded
  <2> DEFINE f == FactsOf(ev, pass.roles)
             want == Desired(f)
             supersedes == DesiredMember(f) \/ (DesiredGuest(f) /\ f.verified)
  <2>3. pass.roles \in SUBSET Roles
    BY DEF TypeOK, PassRec
  <2>4. f \in Facts /\ want \in SUBSET Roles
    BY <2>2, <2>3, FactsTyped, DesiredRoles
  <2>5. supersedes \in BOOLEAN
    OBVIOUS
  <2>6. pass' = [pass EXCEPT !.at = "decided", !.add = want \ pass.roles,
                   !.remove = pass.roles \ want, !.supersedes = supersedes]
    BY <2>1
  <2> HIDE DEF f, want, supersedes
  <2>7. pass' \in PassRec
    BY <2>3, <2>4, <2>5, <2>6 DEF TypeOK, PassRec
  <2>8. QED  BY <1>2, <2>1, <2>2, <2>7 DEF PassDecides, TypeOK
<1>3. CASE PassStops
  BY <1>0, <1>3 DEF PassStops, TypeOK
<1>4. CASE PassWrites
  <2>1. /\ \A p \in PassRec : /\ [p EXCEPT !.at = "wrote"] \in PassRec
                              /\ [p EXCEPT !.at = "wrote", !.failed = TRUE] \in PassRec
    BY DEF PassRec
  <2>2. \A s \in ServerRec, roles \in SUBSET Roles : [s EXCEPT !.roles = roles] \in ServerRec
    BY DEF ServerRec
  <2>3. server.roles \in SUBSET Roles /\ pass.add \in SUBSET Roles
    BY DEF TypeOK, ServerRec, PassRec
  <2>4. (server.roles \ pass.remove) \cup pass.add \in SUBSET Roles
    BY <2>3
  <2>5. server' \in ServerRec /\ pass' \in PassRec
    BY <1>4, <2>1, <2>2, <2>4 DEF PassWrites, TypeOK
  <2>6. QED  BY <1>4, <2>5 DEF PassWrites, TypeOK
<1>5. CASE PassWriteFails
  <2>1. pass' \in PassRec
    BY <1>5 DEF PassWriteFails, TypeOK, PassRec
  <2>2. server' \in ServerRec
    BY <1>5 DEF PassWriteFails, TypeOK, ServerRec
  <2>3. QED  BY <1>5, <2>1, <2>2, SpendTyped DEF PassWriteFails, TypeOK
<1>6. CASE PassSupersedes
  <2>1. Open \in SUBSET Apps /\ "superseded" \in States /\ (pass.newer \/ pass.failed) \in BOOLEAN
    BY DEF Open, States
  <2>2. apps' \in [Apps -> AppRec] /\ pass' \in PassRec
    <3>1. CASE pass.supersedes /\ Open # {}
      <4>1. apps' = Closing(Open, "superseded") /\ pass' = [pass EXCEPT !.at = "closed", !.closed = Open]
        BY <1>6, <3>1 DEF PassSupersedes
      <4>2. \A p \in PassRec, closed \in SUBSET Apps : [p EXCEPT !.at = "closed", !.closed = closed] \in PassRec
        BY DEF PassRec
      <4>3. QED  BY <2>1, <4>1, <4>2, ClosingTyped DEF TypeOK
    <3>2. CASE ~(pass.supersedes /\ Open # {})
      <4>1. apps' = apps /\ pass' = Ended(pass.newer \/ pass.failed)
        BY <1>6, <3>2 DEF PassSupersedes
      <4>2. QED  BY <1>0, <2>1, <4>1 DEF TypeOK
    <3>3. QED  BY <3>1, <3>2
  <2>3. QED  BY <1>6, <2>2 DEF PassSupersedes, TypeOK
<1>7. CASE PassRedraws
  <2>1. pass.closed \in SUBSET Apps /\ (pass.newer \/ pass.failed) \in BOOLEAN /\ "cancelled" \in States
    BY DEF TypeOK, PassRec, States
  <2>2. pass' \in PassRec
    BY <1>0, <1>7, <2>1 DEF PassRedraws
  <2>3. review' \in [Apps -> ReviewRec]
    BY <1>7, <2>1, ClosingTyped DEF PassRedraws
  <2>4. QED  BY <1>7, <2>2, <2>3 DEF PassRedraws, TypeOK
<1>8. CASE PassRedrawFails
  <2>1. pass' \in PassRec
    BY <1>0, <1>8 DEF PassRedrawFails
  <2>2. review' \in [Apps -> ReviewRec]
    BY <1>8, CutTyped DEF PassRedrawFails
  <2>3. QED  BY <1>8, <2>1, <2>2, SpendTyped DEF PassRedrawFails, TypeOK
<1>9. QED  BY <1>1, <1>2, <1>3, <1>4, <1>5, <1>6, <1>7, <1>8

LEMMA QueueTyped ==
  ASSUME TypeOK,
         \/ SweepReads \/ SweepApplies \/ Restart \/ ResumeEffects
         \/ \E a \in Apps : ReviewReads(a) \/ ReviewPosts(a)
  PROVE  TypeOK'
<1>1. CASE SweepReads
  <2>1. sweep' \in SweepRec
    BY <1>1 DEF SweepReads, SweepRec, Jobs, TypeOK, ServerRec
  <2>2. QED  BY <1>1, <2>1 DEF SweepReads, TypeOK
<1>2. CASE SweepApplies
  <2> DEFINE seen == IF sweep.here THEN Ensured(sweep.join) ELSE [row EXCEPT !.present = FALSE]
             stale == {a \in Open : seen # Ensured(apps[a].join)}
  <2>1. row' \in RowRec
    <3>1. row' = seen
      BY <1>2 DEF SweepApplies
    <3>2. QED  BY <3>1 DEF Ensured, RowRec, SweepRec, TypeOK
  <2>2. stale \in SUBSET Apps /\ "cancelled" \in States /\ Close(stale, "cancelled")
    BY <1>2 DEF SweepApplies, States, Open
  <2> HIDE DEF stale
  <2>3. apps' \in [Apps -> AppRec] /\ review' \in [Apps -> ReviewRec]
    BY <2>2, ClosingTyped DEF Close
  <2>4. sweep' \in SweepRec
    BY <1>2 DEF SweepApplies, SweepRec, Jobs
  <2>5. pass' \in PassRec
    BY <1>2, QueuesTyped DEF SweepApplies, TypeOK
  <2>6. QED  BY <1>2, <2>1, <2>3, <2>4, <2>5 DEF SweepApplies, TypeOK
<1>3. ASSUME NEW effects \in BOOLEAN, Restarted(effects), spent' \in Nat PROVE TypeOK'
  <2>1. settings' \in [revision : Nat, effects : BOOLEAN]
    BY <1>3 DEF Restarted, TypeOK
  <2>2. call' \in [Calls -> CallRec] /\ \A c \in Calls : call'[c].kind = "idle"
    BY <1>3 DEF Restarted, Idle, CallRec
  <2>3. pass' \in PassRec
    BY <1>3 DEF Restarted, Ended, NoPass, PassRec, Jobs, TypeOK
  <2>4. review' \in [Apps -> ReviewRec]
    <3>1. \A r \in ReviewRec, job \in Jobs : [r EXCEPT !.job = job] \in ReviewRec
      BY DEF ReviewRec
    <3>2. \A r \in ReviewRec : (IF r.job = "running" THEN "queued" ELSE r.job) \in Jobs
      BY DEF ReviewRec, Jobs
    <3>3. Cut(pass.closed) \in [Apps -> ReviewRec]
      BY CutTyped
    <3>4. review' = [a \in Apps |-> [Cut(pass.closed)[a] EXCEPT
            !.job = IF Cut(pass.closed)[a].job = "running" THEN "queued" ELSE Cut(pass.closed)[a].job]]
      BY <1>3, <3>3 DEF Restarted, ReviewRec
    <3>5. QED  BY <3>1, <3>2, <3>3, <3>4
  <2>5. sweep' \in SweepRec
    BY <1>3 DEF Restarted, SweepRec, Jobs
  <2>6. QED  BY <1>3, <2>1, <2>2, <2>3, <2>4, <2>5 DEF Restarted, TypeOK
<1>4. CASE Restart
  BY <1>3, <1>4, SpendTyped DEF Restart
<1>5. CASE ResumeEffects
  BY <1>3, <1>5 DEF ResumeEffects, TypeOK
<1>6. ASSUME NEW a \in Apps, ReviewReads(a) \/ ReviewPosts(a) PROVE TypeOK'
  <2>1. \A r \in ReviewRec, job \in Jobs, s \in States :
          /\ [r EXCEPT !.job = job, !.newer = FALSE, !.seen = s, !.cut = FALSE] \in ReviewRec
          /\ [r EXCEPT !.shows = s, !.job = job] \in ReviewRec
    BY DEF ReviewRec
  <2>2. review[a] \in ReviewRec /\ apps[a].state \in States /\ review[a].seen \in States
    BY DEF TypeOK, AppRec, ReviewRec
  <2>3. CASE ReviewReads(a)
    <3> DEFINE new == [review[a] EXCEPT !.job = "running", !.newer = FALSE, !.seen = apps[a].state,
                                       !.cut = FALSE]
    <3>1. new \in ReviewRec
      BY <2>1, <2>2 DEF Jobs
    <3>2. review' = [review EXCEPT ![a] = new]
      BY <2>3 DEF ReviewReads
    <3> HIDE DEF new
    <3>3. review' \in [Apps -> ReviewRec]
      BY <3>1, <3>2 DEF TypeOK
    <3>4. QED  BY <2>3, <3>3 DEF ReviewReads, TypeOK
  <2>4. CASE ReviewPosts(a)
    <3> DEFINE new == [review[a] EXCEPT !.shows = review[a].seen,
                                    !.job = IF review[a].newer THEN "queued" ELSE "none"]
    <3>1. new \in ReviewRec
      BY <2>1, <2>2 DEF Jobs
    <3>2. review' = [review EXCEPT ![a] = new]
      BY <2>4 DEF ReviewPosts
    <3> HIDE DEF new
    <3>3. review' \in [Apps -> ReviewRec]
      BY <3>1, <3>2 DEF TypeOK
    <3>4. QED  BY <2>4, <3>3 DEF ReviewPosts, TypeOK
  <2>5. QED  BY <1>6, <2>3, <2>4
<1>7. QED  BY <1>1, <1>2, <1>4, <1>5, <1>6

LEMMA NextTyped == TypeOK /\ [Next]_vars => TypeOK'
<1> SUFFICES ASSUME TypeOK, [Next]_vars PROVE TypeOK'
  OBVIOUS
<1>1. CASE UNCHANGED vars
  BY <1>1 DEF vars, TypeOK
<1>2. CASE Events
  <2>1. 1 .. MaxChanges + 2 \subseteq Nat
    BY BoundAssumption
  <2>2. QED  BY <1>2, <2>1, DiscordTyped DEF Events
<1>3. CASE Passes \/ PassWriteFails \/ PassRedrawFails
  BY <1>3, PassesTyped DEF Passes
<1>4. CASE Sweeps \/ Restart \/ ResumeEffects \/ \E a \in Apps : Reviews(a)
  BY <1>4, QueueTyped DEF Sweeps, Reviews
<1>5. CASE \E c \in Calls : BeginApply(c) \/ BeginDecide(c) \/ CallEnds(c)
  BY <1>5, CallsTyped
<1>6. QED  BY <1>1, <1>2, <1>3, <1>4, <1>5, DiscordTyped, OfficersTyped DEF Next

-----------------------------------------------------------------------------
(* What a step does to the applications *)

\* No key of an application is granted, and none is freed.
GrantsKept == \A a \in Apps : (grants'[a] = "none") = (grants[a] = "none")

\* Nothing, some pending ones are closed, a revocation closes all and passes over them,
\* a new one replaces those that are open, or were when its call read them, or one is
\* approved with its grant.
Replacing(a) == \E c \in Calls : call[c].kind = "filing" /\ call[c].app = a /\ call'[c] = Idle
Closes(closed, state) == (\A a \in closed : Pending(a)) /\ apps' = Closing(closed, state)
Revokes == \E closed \in SUBSET Apps : /\ \A a \in Apps : Pending(a) <=> a \in closed
                                       /\ apps' = Barred(Closing(closed, "cancelled"))
Files ==
  \E new \in Apps, join \in Nat, closed \in SUBSET Apps :
    /\ apps[new].state = "none" /\ \A a \in Apps : Pending(a) => a \in closed
    /\ \A a \in closed : Pending(a) \/ (apps[a].state = "superseded" /\ Replacing(a))
    /\ apps' = [Closing(closed, "cancelled") EXCEPT
                  ![new] = [state |-> "pending", join |-> join, barred |-> FALSE]]
Approves ==
  \E a \in Apps : Closes({a}, "approved") /\ grants' = [grants EXCEPT ![a] = "active"]
Moves ==
  \/ GrantsKept /\ \/ apps' = apps \/ Revokes \/ Files
                   \/ \E closed \in SUBSET Apps, state \in {"denied", "cancelled", "superseded"} :
                        Closes(closed, state)
  \/ Approves

LEMMA OfficersMove ==
  ASSUME TypeOK, GuestGrant \/ GuestReset \/ GuestRevoke
  PROVE  Moves
<1>0. /\ Manual \in Keys /\ Manual \notin Apps /\ Apps \subseteq Keys
      /\ grants \in [Keys -> {"none", "active", "ended"}]
  BY KeyAssumption DEF Keys, TypeOK
<1>1. CASE GuestGrant
  BY <1>0, <1>1 DEF GuestGrant, GrantWithin, Moves, GrantsKept
<1>2. CASE GuestReset
  BY <1>0, <1>2 DEF GuestReset, Moves, GrantsKept
<1>3. CASE GuestRevoke
  <2>1. apps' = Barred(Closing(Open, "cancelled")) /\ GrantsKept
    BY <1>3 DEF GuestRevoke, GrantsKept
  <2>2. Open \in SUBSET Apps /\ \A a \in Apps : Pending(a) <=> a \in Open
    BY DEF Open
  <2>3. QED  BY <2>1, <2>2 DEF Moves, Revokes
<1>4. QED  BY <1>1, <1>2, <1>3

LEMMA ClosesMove ==
  ASSUME NEW closed \in SUBSET Apps, NEW state \in {"denied", "cancelled", "superseded"},
         \A a \in closed : Pending(a), Close(closed, state), UNCHANGED grants
  PROVE  Moves
  BY DEF Close, Closes, Moves, GrantsKept

LEMMA CallsMove ==
  ASSUME TypeOK, GrantsMatch, FilingOK, NEW c \in Calls,
         ApplyReplaces(c) \/ ApplyFiles(c) \/ Decide(c)
  PROVE  Moves
<1>1. ASSUME NEW old \in SUBSET Apps, CanFile, File(c, old), \A a \in Apps : Pending(a) => a \in old,
             \A a \in old : Pending(a) \/ (apps[a].state = "superseded" /\ Replacing(a))
      PROVE  Moves
  <2> DEFINE new == CHOOSE a \in Apps : apps[a].state = "none"
  <2>1. GrantsKept /\ call[c].join \in Nat
    BY <1>1 DEF File, GrantsKept, TypeOK, CallRec
  <2>2. apps' = [Closing(old, "cancelled") EXCEPT
                   ![new] = [state |-> "pending", join |-> call[c].join, barred |-> FALSE]]
    BY <1>1 DEF File
  <2>3. new \in Apps /\ apps[new].state = "none"
    BY <1>1 DEF CanFile
  <2> HIDE DEF new
  <2>4. Files
    BY <1>1, <2>1, <2>2, <2>3 DEF Files
  <2>5. QED  BY <2>1, <2>4 DEF Moves
<1>2. CASE ApplyReplaces(c)
  <2> DEFINE old == {call[c].app}
  <2>1. call[c].kind = "filing" /\ CanFile /\ File(c, old)
    BY <1>2 DEF ApplyReplaces
  <2>2. call[c].app \in Apps /\ call'[c] = Idle
    BY <2>1 DEF File, Ends, TypeOK
  <2>3. Replacing(call[c].app)
    BY <2>1, <2>2 DEF Replacing
  <2>4. /\ apps[call[c].app].state \in {"pending", "superseded"}
        /\ \A a \in Apps : Pending(a) => a = call[c].app
    BY <2>1 DEF FilingOK
  <2>5. \A a \in old : Pending(a) \/ (apps[a].state = "superseded" /\ Replacing(a))
    BY <2>3, <2>4 DEF Pending
  <2>6. old \in SUBSET Apps /\ \A a \in Apps : Pending(a) => a \in old
    BY <2>2, <2>4
  <2> HIDE DEF old
  <2>7. QED  BY <1>1, <2>1, <2>5, <2>6
<1>3. CASE ApplyFiles(c)
  <2>1. \A a \in Apps : ~Pending(a)
    BY <1>3 DEF ApplyFiles, Open
  <2>2. QED  BY <1>1, <1>3, <2>1 DEF ApplyFiles
<1>4. CASE Decide(c)
  <2> DEFINE a == call[c].app
             state == Decision(c)
  <2>1. a \in Apps
    BY <1>4 DEF Decide, TypeOK
  <2>2. CASE ~Pending(a)
    BY <1>4, <2>2 DEF Decide, Moves, GrantsKept
  <2>3. CASE Pending(a) /\ state = "approved"
    <3>1. Close({a}, "approved") /\ GrantWithin(a)
      BY <1>4, <2>3 DEF Decide
    <3>2. grants[a] = "none"
      BY <2>1, <2>3 DEF GrantsMatch, Pending
    <3> HIDE DEF a
    <3>3. QED  BY <2>1, <2>3, <3>1, <3>2 DEF Close, GrantWithin, Closes, Approves, Moves
  <2>4. CASE Pending(a) /\ state # "approved"
    <3>1. Close({a}, state) /\ UNCHANGED grants
      BY <1>4, <2>4 DEF Decide
    <3>2. state \in {"denied", "cancelled", "superseded"}
      BY <2>4 DEF Decision
    <3> HIDE DEF a, state
    <3>3. QED  BY <2>1, <2>4, <3>1, <3>2, ClosesMove
  <2>5. QED  BY <2>2, <2>3, <2>4
<1>5. QED  BY <1>2, <1>3, <1>4

LEMMA NextMoves ==
  ASSUME TypeOK, GrantsMatch, FilingOK, [Next]_vars
  PROVE  Moves
<1>1. Open \in SUBSET Apps /\ \A a \in Open : Pending(a)
  BY DEF Open
<1>2. CASE UNCHANGED <<apps, grants>>
  BY <1>2 DEF Moves, GrantsKept
<1>3. CASE MemberLeft
  <2>1. Close(Open, "cancelled") /\ UNCHANGED grants
    BY <1>3 DEF MemberLeft
  <2>2. QED  BY <1>1, <2>1, ClosesMove
<1>4. CASE SweepApplies
  <2> DEFINE seen == IF sweep.here THEN Ensured(sweep.join) ELSE [row EXCEPT !.present = FALSE]
             stale == {a \in Open : seen # Ensured(apps[a].join)}
  <2>1. Close(stale, "cancelled") /\ UNCHANGED grants
    BY <1>4 DEF SweepApplies
  <2>2. stale \in SUBSET Apps /\ \A a \in stale : Pending(a)
    BY DEF Open
  <2> HIDE DEF stale
  <2>3. QED  BY <2>1, <2>2, ClosesMove
<1>5. CASE PassSupersedes
  <2>1. CASE UNCHANGED apps
    BY <1>2, <1>5, <2>1 DEF PassSupersedes
  <2>2. CASE apps' = Closing(Open, "superseded")
    BY <1>1, <1>5, <2>2 DEF PassSupersedes, Closes, Moves, GrantsKept
  <2>3. QED  BY <1>5, <2>1, <2>2 DEF PassSupersedes
<1>6. CASE GuestGrant \/ GuestReset \/ GuestRevoke
  BY <1>6, OfficersMove
<1>7. CASE \E c \in Calls : ApplyReplaces(c) \/ ApplyFiles(c) \/ Decide(c)
  BY <1>7, CallsMove
<1>8. CASE Leave \/ Join \/ EditRoles \/ MemberChanged \/ \E join \in 1 .. MaxChanges + 2 : MemberJoined(join)
  BY <1>2, <1>8 DEF Leave, Join, EditRoles, MemberChanged, MemberJoined
<1>9. CASE Link \/ EndLink \/ RosterAccepted \/ EvidenceAges \/ Hourly \/ Configure \/ CooldownEnds
  BY <1>2, <1>9 DEF Link, EndLink, RosterAccepted, EvidenceAges, Hourly, Configure, CooldownEnds
<1>10. CASE ResumeEffects \/ Restart
  BY <1>2, <1>10 DEF ResumeEffects, Restart, Restarted
<1>11. CASE \E c \in Calls : BeginApply(c) \/ BeginDecide(c) \/ ApplyFinds(c) \/ ApplyReads(c) \/ ApplyRefused(c)
  BY <1>2, <1>11 DEF BeginApply, BeginDecide, Begin, ApplyFinds, ApplyReads, ApplyRefused
<1>12. CASE PassReads \/ PassDecides \/ PassStops \/ PassWrites \/ PassWriteFails
            \/ PassRedraws \/ PassRedrawFails \/ SweepReads
  BY <1>2, <1>12 DEF PassReads, PassDecides, PassStops, PassWrites, PassWriteFails,
                     PassRedraws, PassRedrawFails, SweepReads
<1>13. CASE \E a \in Apps : ReviewReads(a) \/ ReviewPosts(a)
  BY <1>2, <1>13 DEF ReviewReads, ReviewPosts
<1>14. CASE UNCHANGED vars
  BY <1>2, <1>14 DEF vars
<1>15. QED
  BY <1>3, <1>4, <1>5, <1>6, <1>7, <1>8, <1>9, <1>10, <1>11, <1>12, <1>13, <1>14
  DEF Next, Events, Passes, Sweeps, Reviews, CallEnds

\* What closing some applications leaves.
LEMMA ClosingReads ==
  ASSUME TypeOK, NEW closed \in SUBSET Apps, NEW state \in States, NEW a \in Apps
  PROVE  /\ Closing(closed, state)[a].state = IF a \in closed THEN state ELSE apps[a].state
         /\ Closing(closed, state)[a].barred = apps[a].barred
         /\ Barred(Closing(closed, state))[a].state = Closing(closed, state)[a].state
         /\ Barred(Closing(closed, state))[a].barred = (Closing(closed, state)[a].state # "none")
  BY DEF TypeOK, AppRec, Closing, Barred

\* One move keeps what the invariant says of applications, and lets decisions stand.
Stands(a) ==
  /\ apps[a].state \notin {"none", "pending"} => apps'[a].state = apps[a].state \/ Replaced(a)
  /\ apps[a].barred => apps'[a].state # "approved" \/ apps[a].state = "approved"

LEMMA MovesKeep ==
  ASSUME TypeOK, OnePending, NoneBarred, GrantsMatch, Moves
  PROVE  OnePending' /\ NoneBarred' /\ GrantsMatch' /\ \A a \in Apps : Stands(a)
<1>0. /\ {"denied", "cancelled", "superseded", "approved"} \subseteq States
      /\ \A a \in Apps : apps[a].barred \in BOOLEAN /\ a \in Keys
      /\ grants \in [Keys -> {"none", "active", "ended"}] /\ apps \in [Apps -> AppRec]
  BY DEF States, TypeOK, AppRec, Keys
<1>1. CASE GrantsKept /\ apps' = apps
  BY <1>1 DEF OnePending, NoneBarred, GrantsMatch, GrantsKept, Stands, Pending
<1>2. ASSUME NEW closed \in SUBSET Apps, NEW state \in {"denied", "cancelled", "superseded"},
             GrantsKept, Closes(closed, state)
      PROVE  OnePending' /\ NoneBarred' /\ GrantsMatch' /\ \A a \in Apps : Stands(a)
  <2>1. \A a \in Apps : /\ apps'[a].state = IF a \in closed THEN state ELSE apps[a].state
                        /\ apps'[a].barred = apps[a].barred
                        /\ a \in closed => apps[a].state = "pending"
    BY <1>0, <1>2, ClosingReads DEF Closes, Pending
  <2>2. QED  BY <1>2, <2>1 DEF OnePending, NoneBarred, GrantsMatch, GrantsKept, Stands, Pending
<1>3. CASE GrantsKept /\ Revokes
  <2>1. PICK closed \in SUBSET Apps : /\ \A a \in Apps : Pending(a) <=> a \in closed
                                      /\ apps' = Barred(Closing(closed, "cancelled"))
    BY <1>3 DEF Revokes
  <2>2. \A a \in Apps : /\ apps'[a].state = IF a \in closed THEN "cancelled" ELSE apps[a].state
                        /\ a \in closed <=> apps[a].state = "pending"
    BY <1>0, <2>1, ClosingReads DEF Pending
  <2>3. \A a \in Apps : apps'[a].state # "pending"
    BY <2>2
  <2>4. QED  BY <1>3, <2>2, <2>3 DEF OnePending, NoneBarred, GrantsMatch, GrantsKept, Stands, Pending
<1>4. CASE GrantsKept /\ Files
  <2>1. PICK new \in Apps, join \in Nat, closed \in SUBSET Apps :
          /\ apps[new].state = "none" /\ \A a \in Apps : Pending(a) => a \in closed
          /\ \A a \in closed : Pending(a) \/ (apps[a].state = "superseded" /\ Replacing(a))
          /\ apps' = [Closing(closed, "cancelled") EXCEPT
                        ![new] = [state |-> "pending", join |-> join, barred |-> FALSE]]
    BY <1>4 DEF Files
  <2>2. Closing(closed, "cancelled") \in [Apps -> AppRec]
    BY <1>0, ClosingTyped
  <2>3. apps'[new].state = "pending" /\ apps'[new].barred = FALSE
    BY <2>1, <2>2
  <2>4. \A a \in Apps \ {new} : /\ apps'[a].state = IF a \in closed THEN "cancelled" ELSE apps[a].state
                                /\ apps[a].state = "pending" => a \in closed
    BY <1>0, <2>1, <2>2, ClosingReads DEF Pending
  <2>5. \A a \in Apps \ {new} : apps'[a].state # "pending"
    BY <2>4
  <2>6. OnePending' /\ NoneBarred'
    BY <2>3, <2>5 DEF OnePending, NoneBarred, Pending
  <2>7. new \notin closed
    BY <2>1 DEF Pending
  <2>8. GrantsMatch'
    <3>1. \A a \in closed : apps[a].state # "approved"
      BY <2>1 DEF Pending
    <3>2. QED  BY <1>4, <2>1, <2>3, <2>4, <3>1 DEF GrantsMatch, GrantsKept
  <2>9. ASSUME NEW a \in Apps PROVE Stands(a)
    <3>1. CASE a = new
      BY <2>1, <2>3, <3>1 DEF Stands
    <3>2. CASE a \in closed
      <4>1. apps'[a].state = "cancelled"
        BY <2>4, <2>7, <3>2
      <4>2. apps[a].state = "pending" \/ (apps[a].state = "superseded" /\ Replacing(a))
        BY <2>1, <3>2 DEF Pending
      <4>3. QED  BY <4>1, <4>2 DEF Stands, Replaced, Replacing
    <3>3. CASE a # new /\ a \notin closed
      BY <2>4, <3>3 DEF Stands
    <3>4. QED  BY <3>1, <3>2, <3>3
  <2>10. QED  BY <2>6, <2>8, <2>9
<1>5. CASE Approves
  <2>1. PICK new \in Apps : Closes({new}, "approved") /\ grants' = [grants EXCEPT ![new] = "active"]
    BY <1>5 DEF Approves
  <2>2. \A a \in Apps : /\ apps'[a].state = IF a = new THEN "approved" ELSE apps[a].state
                        /\ apps'[a].barred = apps[a].barred
    BY <1>0, <2>1, ClosingReads DEF Closes
  <2>3. apps[new].state = "pending" /\ ~apps[new].barred
    BY <2>1 DEF Closes, Pending, NoneBarred
  <2>4. \A a \in Apps : grants'[a] = IF a = new THEN "active" ELSE grants[a]
    BY <1>0, <2>1
  <2>5. QED  BY <2>2, <2>3, <2>4 DEF OnePending, NoneBarred, GrantsMatch, Stands, Pending
<1>6. QED  BY <1>1, <1>2, <1>3, <1>4, <1>5 DEF Moves

-----------------------------------------------------------------------------
(* What a pass asks for *)

LEMMA PassAsks == TypeOK /\ PassDecides => AsksForOne'
<1> SUFFICES ASSUME TypeOK, PassDecides PROVE AsksForOne'
  OBVIOUS
<1>1. PICK ev \in Seeded :
        LET want == Desired(FactsOf(ev, pass.roles))
        IN pass'.add = want \ pass.roles /\ pass'.remove = pass.roles \ want /\ pass'.roles = pass.roles
  BY DEF PassDecides, TypeOK, PassRec
<1>2. ev \in Evidence
  <2>1. /\ evidence \in Evidence /\ evidence.former \in BOOLEAN
        /\ \A x : (evidence.former \/ x = "confirmed") \in BOOLEAN
    BY DEF TypeOK, Evidence
  <2>2. QED  BY <2>1, EvidenceTyped DEF Seeded
<1> DEFINE want == Desired(FactsOf(ev, pass.roles))
<1>3. pass.roles \in SUBSET Roles
  BY DEF TypeOK, PassRec
<1>4. want \in SUBSET Roles /\ ~(Roles \subseteq want)
  BY <1>2, <1>3, FactsTyped, DesiredRoles
<1>5. pass'.add = want \ pass.roles /\ pass'.remove = pass.roles \ want /\ pass'.roles = pass.roles
  BY <1>1
<1> HIDE DEF want
<1>6. (pass'.roles \ pass'.remove) \cup pass'.add = want
  BY <1>4, <1>5
<1>7. QED  BY <1>4, <1>5, <1>6 DEF AsksForOne

LEMMA PassKept ==
  ASSUME TypeOK, [Next]_vars
  PROVE  PassDecides \/ pass' = pass \/ pass' = Requeued(pass) \/ pass'.at # "decided"
<1>0. \A again \in BOOLEAN : Ended(again).at = "none"
  BY DEF Ended, NoPass
<1>1. CASE Leave \/ Join \/ EditRoles \/ MemberLeft \/ MemberChanged \/ \E join \in 1 .. MaxChanges + 2 : MemberJoined(join)
  BY <1>1 DEF Leave, Join, EditRoles, MemberLeft, MemberChanged, MemberJoined, ReconcileUser
<1>2. CASE Link \/ EndLink \/ RosterAccepted \/ EvidenceAges \/ Hourly \/ Configure \/ CooldownEnds
           \/ GuestGrant \/ GuestReset \/ GuestRevoke
  BY <1>2 DEF Link, EndLink, RosterAccepted, EvidenceAges, Hourly, Configure, CooldownEnds,
              GuestGrant, GuestReset, GuestRevoke, ReconcileUser
<1>3. CASE ResumeEffects \/ Restart
  BY <1>0, <1>3 DEF ResumeEffects, Restart, Restarted
<1>4. CASE \E c \in Calls : BeginApply(c) \/ BeginDecide(c) \/ CallEnds(c)
  BY <1>4 DEF BeginApply, BeginDecide, Begin, CallEnds, ApplyFinds, ApplyReads, ApplyReplaces, ApplyFiles,
              File, ApplyRefused, Decide, ReconcileUser
<1>5. CASE PassReads
  BY <1>5 DEF PassReads, TypeOK, PassRec
<1>6. CASE PassStops
  BY <1>0, <1>6 DEF PassStops
<1>7. CASE PassWrites \/ PassWriteFails
  <2>1. \A p \in PassRec : /\ [p EXCEPT !.at = "wrote"].at = "wrote"
                           /\ [p EXCEPT !.at = "wrote", !.failed = TRUE].at = "wrote"
    BY DEF PassRec
  <2>2. QED  BY <1>7, <2>1 DEF PassWrites, PassWriteFails, TypeOK
<1>8. CASE PassSupersedes \/ PassRedraws \/ PassRedrawFails
  <2>1. (pass.newer \/ pass.failed) \in BOOLEAN /\ Open \in SUBSET Apps
    BY DEF Open
  <2>2. \A p \in PassRec, closed \in SUBSET Apps : [p EXCEPT !.at = "closed", !.closed = closed].at = "closed"
    BY DEF PassRec
  <2>3. QED  BY <1>0, <1>8, <2>1, <2>2 DEF PassSupersedes, PassRedraws, PassRedrawFails, TypeOK
<1>9. CASE Sweeps
  BY <1>9 DEF Sweeps, SweepReads, SweepApplies, ReconcileUser
<1>10. CASE \E a \in Apps : Reviews(a)
  BY <1>10 DEF Reviews, ReviewReads, ReviewPosts
<1>11. CASE UNCHANGED vars
  BY <1>11 DEF vars
<1>12. QED
  BY <1>1, <1>2, <1>3, <1>4, <1>5, <1>6, <1>7, <1>8, <1>9, <1>10, <1>11 DEF Next, Events, Passes

LEMMA NextAsks == TypeOK /\ AsksForOne /\ [Next]_vars => AsksForOne'
<1> SUFFICES ASSUME TypeOK, AsksForOne, [Next]_vars PROVE AsksForOne'
  OBVIOUS
<1>1. CASE PassDecides
  BY <1>1, PassAsks
<1>2. CASE pass' = pass
  BY <1>2 DEF AsksForOne
<1>3. CASE pass' = Requeued(pass)
  <2>1. /\ pass'.at = pass.at /\ pass'.roles = pass.roles
        /\ pass'.add = pass.add /\ pass'.remove = pass.remove
    BY <1>3 DEF Requeued, TypeOK, PassRec
  <2>2. QED  BY <2>1 DEF AsksForOne
<1>4. CASE pass'.at # "decided"
  BY <1>4 DEF AsksForOne
<1>5. QED  BY <1>1, <1>2, <1>3, <1>4, PassKept

-----------------------------------------------------------------------------
(* While a replacement holds the member's row *)

\* A step that leaves no call filing, or the applications and the filing call as they were.
LEMMA FilingStays ==
  ASSUME FilingOK,
         \/ \A c \in Calls : call'[c].kind # "filing"
         \/ UNCHANGED apps /\ \A c \in Calls : call'[c].kind = "filing" => call'[c] = call[c]
  PROVE  FilingOK'
  BY DEF FilingOK, Pending

LEMMA NextFiling ==
  ASSUME TypeOK, OnePending, FilingOK, [Next]_vars
  PROVE  FilingOK'
<1>0. Idle.kind # "filing" /\ call \in [Calls -> CallRec] /\ apps \in [Apps -> AppRec]
  BY DEF Idle, TypeOK
<1>1. CASE UNCHANGED <<apps, call>>
  BY <1>1, FilingStays
<1>2. CASE ~Locked /\ UNCHANGED call
  BY <1>2, FilingStays DEF Locked
<1>3. CASE MemberLeft \/ GuestRevoke \/ SweepApplies
  BY <1>2, <1>3 DEF MemberLeft, GuestRevoke, SweepApplies
<1>4. CASE ResumeEffects \/ Restart
  BY <1>0, <1>4, FilingStays DEF ResumeEffects, Restart, Restarted
<1>5. ASSUME NEW c \in Calls, BeginApply(c) \/ BeginDecide(c) \/ CallEnds(c) PROVE FilingOK'
  <2>1. CASE BeginApply(c) \/ BeginDecide(c)
    <3>1. UNCHANGED apps /\ \A d \in Calls : call'[d].kind = "filing" => call'[d] = call[d]
      BY <1>0, <2>1 DEF BeginApply, BeginDecide, Begin
    <3>2. QED  BY <3>1, FilingStays
  <2>2. CASE ApplyFinds(c) \/ ApplyRefused(c)
    <3>1. UNCHANGED apps /\ \A d \in Calls : call'[d].kind = "filing" => call'[d] = call[d]
      BY <1>0, <2>2 DEF ApplyFinds, ApplyRefused, Ends
    <3>2. QED  BY <3>1, FilingStays
  <2>3. CASE ApplyFiles(c) \/ Decide(c)
    <3>1. ~Locked /\ Ends(c)
      BY <2>3 DEF ApplyFiles, Submits, File, Decide
    <3>2. \A d \in Calls : call'[d].kind # "filing"
      BY <1>0, <3>1 DEF Locked, Ends
    <3>3. QED  BY <3>2, FilingStays
  <2>4. CASE ApplyReplaces(c)
    <3>1. Ends(c) /\ \A d \in Calls : call[d].kind = "filing" => d = c
      BY <2>4 DEF ApplyReplaces, File, FilingOK
    <3>2. \A d \in Calls : call'[d].kind # "filing"
      BY <1>0, <3>1 DEF Ends
    <3>3. QED  BY <3>2, FilingStays
  <2>5. CASE ApplyReads(c)
    <3>1. PICK a \in Open : call' = [call EXCEPT ![c].kind = "filing", ![c].app = a]
      BY <2>5 DEF ApplyReads
    <3>2. /\ a \in Apps /\ Pending(a) /\ UNCHANGED apps
          /\ \A d \in Calls : call[d].kind # "filing"
      BY <2>5 DEF Open, ApplyReads, Submits, Locked
    <3>3. /\ call'[c].app = a
          /\ \A d \in Calls : call'[d].kind = "filing" => d = c
      BY <1>0, <3>1, <3>2 DEF CallRec
    <3>4. \A b \in Apps : Pending(b) => b = a
      BY <3>2 DEF OnePending
    <3>5. QED  BY <3>2, <3>3, <3>4 DEF FilingOK, Pending
  <2>6. QED  BY <1>5, <2>1, <2>2, <2>3, <2>4, <2>5 DEF CallEnds
<1>6. CASE PassSupersedes
  <2>1. CASE UNCHANGED apps
    BY <1>1, <1>6, <2>1 DEF PassSupersedes
  <2>2. CASE apps' = Closing(Open, "superseded")
    <3>1. /\ \A a \in Apps : apps'[a].state = IF Pending(a) THEN "superseded" ELSE apps[a].state
          /\ UNCHANGED call
      BY <1>0, <1>6, <2>2 DEF PassSupersedes, Closing, Open, AppRec
    <3>2. \A c \in Calls : call[c].kind = "filing" => call[c].app \in Apps
      BY DEF TypeOK
    <3>3. QED  BY <3>1, <3>2 DEF FilingOK, Pending
  <2>3. QED  BY <1>6, <2>1, <2>2 DEF PassSupersedes
<1>7. CASE Leave \/ Join \/ EditRoles \/ MemberChanged \/ \E join \in 1 .. MaxChanges + 2 : MemberJoined(join)
  BY <1>1, <1>7 DEF Leave, Join, EditRoles, MemberChanged, MemberJoined
<1>8. CASE Link \/ EndLink \/ RosterAccepted \/ EvidenceAges \/ Hourly \/ Configure \/ CooldownEnds
           \/ GuestGrant \/ GuestReset
  BY <1>1, <1>8 DEF Link, EndLink, RosterAccepted, EvidenceAges, Hourly, Configure, CooldownEnds,
                    GuestGrant, GuestReset
<1>9. CASE PassReads \/ PassDecides \/ PassStops \/ PassWrites \/ PassWriteFails
           \/ PassRedraws \/ PassRedrawFails \/ SweepReads
  BY <1>1, <1>9 DEF PassReads, PassDecides, PassStops, PassWrites, PassWriteFails,
                    PassRedraws, PassRedrawFails, SweepReads
<1>10. CASE \E a \in Apps : Reviews(a)
  BY <1>1, <1>10 DEF Reviews, ReviewReads, ReviewPosts
<1>11. CASE UNCHANGED vars
  BY <1>1, <1>11 DEF vars
<1>12. QED
  BY <1>3, <1>4, <1>5, <1>6, <1>7, <1>8, <1>9, <1>10, <1>11 DEF Next, Events, Passes, Sweeps

-----------------------------------------------------------------------------
(* The theorems *)

LEMMA InitInv == Init => Inv
<1> SUFFICES ASSUME Init PROVE Inv
  OBVIOUS
<1>1. TypeOK
  BY InitTyped
<1>2. PICK filed \in BOOLEAN, join \in 1 .. 2 :
        apps = [a \in Apps |-> IF filed /\ a = First
                               THEN [Unfiled EXCEPT !.state = "pending", !.join = join] ELSE Unfiled]
  BY DEF Init
<1>3. \A a \in Apps : /\ apps[a].state = IF filed /\ a = First THEN "pending" ELSE "none"
                      /\ apps[a].barred = FALSE
  BY <1>2 DEF Unfiled
<1>4. FilingOK
  BY DEF Init, Idle, FilingOK
<1>5. OnePending /\ NoneBarred
  BY <1>3 DEF OnePending, NoneBarred, Pending
<1>6. GrantsMatch
  BY <1>3 DEF Init, GrantsMatch, Keys
<1>7. AsksForOne
  BY DEF Init, NoPass, AsksForOne
<1>8. QED  BY <1>1, <1>4, <1>5, <1>6, <1>7 DEF Inv

LEMMA NextInv == Inv /\ [Next]_vars => Inv' /\ \A a \in Apps : Stands(a)
<1> SUFFICES ASSUME Inv, [Next]_vars PROVE Inv' /\ \A a \in Apps : Stands(a)
  OBVIOUS
<1> USE DEF Inv
<1>1. TypeOK'
  BY NextTyped
<1>2. OnePending' /\ NoneBarred' /\ GrantsMatch' /\ \A a \in Apps : Stands(a)
  BY NextMoves, MovesKeep
<1>3. AsksForOne'
  BY NextAsks
<1>4. FilingOK'
  BY NextFiling
<1>5. QED  BY <1>1, <1>2, <1>3, <1>4

(* Whatever runs side by side: a member has one open application at most, an   *)
(* approval and the grant it gives commit together, a pass decides on one of  *)
(* the two roles at most (service.ts:2849, synchronization.ts:856), and while *)
(* apply() replaces an open application, nothing else is open and only a pass *)
(* can have closed that one (service.ts:2765).                               *)
THEOREM OneOpenApplication == Spec => []Inv
<1>1. Init => Inv
  BY InitInv
<1>2. Inv /\ [Next]_vars => Inv'
  BY NextInv
<1>3. QED  BY <1>1, <1>2, PTL DEF Spec

(* For any number of applications, interactions and changes: an application   *)
(* that is approved, denied or cancelled stays so, a superseded one is at     *)
(* most cancelled, by the call that read it open and files another as it      *)
(* commits (service.ts:2765-2781), and one that a revocation passed over is   *)
(* never approved (service.ts:2849, 3059).                                   *)
THEOREM DecisionsAreKept == Spec => DecisionsStand
<1>1. Inv /\ [Next]_vars =>
        [\A a \in Apps :
           /\ apps[a].state \notin {"none", "pending"} => apps'[a].state = apps[a].state \/ Replaced(a)
           /\ apps[a].barred => apps'[a].state # "approved" \/ apps[a].state = "approved"]_vars
  BY NextInv DEF Stands
<1>2. QED  BY <1>1, OneOpenApplication, PTL DEF Spec, DecisionsStand
=============================================================================
