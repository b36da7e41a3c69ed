---------------------------- MODULE AccessPolicy ----------------------------
(***************************************************************************)
(* The pure rules of src/domain/policy.ts and src/application/rank-policy.ts *)
(* that turn stored evidence into the access roles a member should hold.     *)
(* What they promise is proved in GuestAccessProofs.                         *)
(***************************************************************************)
EXTENDS Naturals

Memberships == {"member", "uncertain", "ineligible"}

\* AccessFacts: what accessFacts() reads, and the roles the member holds.
Facts ==
  [membership : Memberships, fresh : BOOLEAN, former : BOOLEAN, grant : BOOLEAN,
   revoked : BOOLEAN, verified : BOOLEAN, hasMember : BOOLEAN, hasGuest : BOOLEAN]

\* membershipClass(): the union over the member's active links.
MembershipClass(fcLinked, confirmed, unknown, localLoss) ==
  IF fcLinked /\ confirmed THEN "member"
  ELSE IF fcLinked /\ unknown /\ ~localLoss THEN "uncertain"
  ELSE "ineligible"

\* desiredAccess(): stale evidence and doubt keep what is held and add nothing.
DesiredMember(f) ==
  \/ f.membership = "member" /\ (f.fresh \/ f.hasMember)
  \/ f.membership = "uncertain" /\ f.hasMember
DesiredGuest(f) ==
  /\ ~f.revoked /\ ~DesiredMember(f)
  /\ \/ f.membership = "member" /\ f.hasGuest
     \/ f.membership = "uncertain" /\ (f.grant \/ f.hasGuest)
     \/ /\ f.membership = "ineligible"
        /\ f.grant \/ f.former \/ (f.verified /\ (f.fresh \/ f.hasGuest))

\* accessDecisive(): the same answer for every combination of held roles.
Holding(f, m, g) == [f EXCEPT !.hasMember = m, !.hasGuest = g]
MemberDecisive(f) ==
  \A m, g \in BOOLEAN : DesiredMember(Holding(f, m, g)) = DesiredMember(Holding(f, FALSE, FALSE))
GuestDecisive(f) ==
  \A m, g \in BOOLEAN : DesiredGuest(Holding(f, m, g)) = DesiredGuest(Holding(f, FALSE, FALSE))

\* registrationEligible()
RegistrationEligible(f) ==
  f.verified /\ f.membership = "ineligible" /\ f.fresh /\ ~f.revoked

\* grandfatherBasis(), once the evidence is fresh: who receives a durable grant
\* at first activation.
GrandfatherBasis(f) ==
  IF f.membership = "member" THEN "member"
  ELSE IF f.revoked THEN "revoked"
  ELSE IF f.grant THEN "existing_grant" ELSE "grant"

-----------------------------------------------------------------------------
(* Rank roles *)

\* RankEvidence of one link: its membership, whether the rank asked about is
\* held (or unknown), and whether the link may confer rank.
RankEvidence ==
  [state : {"present", "missing", "absent", "unseen"}, rank : {"yes", "no", "unread"},
   confers : BOOLEAN]

\* rankUnion() for one of the two roles.
RankUnion(links, fcLinked, localLoss) ==
  LET trusted == {l \in links : l.confers}
      eligible == {l \in trusted : l.state \in {"present", "missing"}}
  IN IF ~fcLinked THEN "no"
     ELSE IF \E l \in eligible : l.rank = "yes" THEN "yes"
     ELSE IF \E l \in eligible : l.rank = "unread" THEN "unreadable"
     ELSE IF ~localLoss /\ \E l \in trusted : l.state = "unseen" THEN "unresolved"
     ELSE "no"

\* rankAccess(): a manager's grant or revocation overrides the union.
RankState(union, override) ==
  CASE override = "granted" -> "yes" [] override = "revoked" -> "no" [] OTHER -> union

RankBacks(state) == state \in {"yes", "unreadable"}

DesiredRankRole(state, held, fresh, manual) ==
  IF state \in {"unreadable", "unresolved"} THEN held
  ELSE state = "yes" /\ (manual \/ fresh \/ held)
RankDecisive(state, fresh, manual) ==
  DesiredRankRole(state, TRUE, fresh, manual) = DesiredRankRole(state, FALSE, fresh, manual)
=============================================================================
