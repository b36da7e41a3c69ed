----------------------------- MODULE Verification -----------------------------
(***************************************************************************)
(* Character claims and links of one server: claim(), verify(), assign(),   *)
(* trust(), unclaim(), preferences() in application/service.ts over         *)
(* challenges, links and guild_users.                                       *)
(*                                                                         *)
(* A transaction is split where another can come between: it waits for a    *)
(* lock, or reads under one and writes later.  A call's pc tells its locks:  *)
(* "counting" holds the advisory lock of claims and the member's row,        *)
(* "locked" the member's row and the claim, "trusting" the character's too.  *)
(* Permissions, audits and the membership evidence of a link are left out.  *)
(***************************************************************************)
EXTENDS Integers, Sequences, FiniteSets, SequencesExt, FiniteSetsExt

CONSTANTS
  Users, NoUser, Chars, NoChar,
  Controller,     \* the member who can edit a character's biography
  Imported,       \* members an older bot knew: no automatic main
  Calls,          \* concurrent calls
  Window,         \* how long a token is valid
  Skew,           \* the process's clock behind the database's
  OwnLimit, AllLimit,
  MaxClaims, Horizon   \* bounds: claims issued, time

ConstantsOK ==
  /\ NoUser \notin Users /\ NoChar \notin Chars
  /\ Controller \in [Chars -> Users]
  /\ Imported \subseteq Users
  /\ Window \in Nat \ {0} /\ Skew \in Nat
  /\ OwnLimit \in Nat \ {0} /\ AllLimit \in Nat \ {0}
  /\ MaxClaims \in Nat /\ Horizon \in Nat

VARIABLES
  clock,
  claims,      \* the challenges, in the order they were inserted
  bio,         \* each character's biography: the tokens (claims) it shows
  owner,       \* the active link of each character
  linked,      \* members who ever had a link
  main, sync,  \* each member's main character and nickname sync
  proofs,      \* history: the links that /verify made
  clashed,     \* history: a unique index refused a row
  call

links == <<owner, linked, main, sync, proofs>>
vars == <<clock, claims, bio, links, clashed, call>>

Ids == 1..Len(claims)
Idle == [pc |-> "idle", verify |-> FALSE, user |-> NoUser, char |-> NoChar, start |-> 0,
         seen |-> {}, id |-> 0, old |-> {}, created |-> FALSE, first |-> FALSE,
         becomes |-> FALSE]
Ends(k) == call' = [call EXCEPT ![k] = Idle]

\* Mutant: a transaction does not lock its member's row.
UserFreeAlways(u) == TRUE
UserFree(u) ==
  \A k \in Calls : call[k].pc \in {"counting", "locked", "trusting"} => call[k].user # u
CharFree(c) == \A k \in Calls : call[k].pc = "trusting" => call[k].char # c
\* Mutant: claims are not serialized.
ClaimsFreeAlways == TRUE
ClaimsFree == \A k \in Calls : call[k].pc # "counting"

Unfinished(i) == ~claims[i].consumed /\ ~claims[i].replaced
Of(i, u, c) == claims[i].user = u /\ claims[i].char = c
LinksOf(u) == {c \in Chars : owner[c] = u}

-----------------------------------------------------------------------------
(* claim() *)

Full(counted, u) ==
  \/ Cardinality({i \in counted : claims[i].user = u}) >= OwnLimit
  \/ Cardinality(counted) >= AllLimit

\* The transaction begins: its now() is fixed, before it waits for the lock.
BeginClaim(k, u, c) ==
  /\ call[k].pc = "idle" /\ Len(claims) < MaxClaims
  /\ call' = [call EXCEPT ![k] = [Idle EXCEPT !.pc = "claiming", !.user = u, !.char = c,
                                              !.start = clock]]
  /\ UNCHANGED <<clock, claims, bio, links, clashed>>

\* An owned character is refused; earlier claims for the character are replaced
\* and no longer counted against the limits.
Count(k) ==
  LET u == call[k].user  c == call[k].char
      old == {i \in Ids : Of(i, u, c) /\ Unfinished(i)}
      counted == {i \in Ids \ old : Unfinished(i) /\ claims[i].expires > call[k].start}
  IN /\ call[k].pc = "claiming" /\ ClaimsFree /\ UserFree(u)
     /\ IF owner[c] # NoUser \/ Full(counted, u)
        THEN Ends(k)
        ELSE call' = [call EXCEPT ![k].pc = "counting", ![k].old = old]
     /\ UNCHANGED <<clock, claims, bio, links, clashed>>

Insert(k) ==
  LET u == call[k].user  c == call[k].char
      replaced == [i \in Ids |->
                     IF i \in call[k].old THEN [claims[i] EXCEPT !.replaced = TRUE] ELSE claims[i]]
      claim == [user |-> u, char |-> c, issued |-> call[k].start,
                expires |-> call[k].start + Window, consumed |-> FALSE, replaced |-> FALSE]
  IN /\ call[k].pc = "counting"
     /\ IF \E i \in Ids \ call[k].old : Of(i, u, c) /\ Unfinished(i)
        THEN clashed' = TRUE /\ claims' = claims
        ELSE claims' = Append(replaced, claim) /\ clashed' = clashed
     /\ Ends(k)
     /\ UNCHANGED <<clock, bio, links>>

-----------------------------------------------------------------------------
(* verify() and assign(), with trust() *)

\* The Lodestone profile is read before the transaction.
ReadProfile(k, u, c) ==
  /\ call[k].pc = "idle"
  /\ call' = [call EXCEPT ![k] = [Idle EXCEPT !.pc = "profiled", !.verify = TRUE, !.user = u,
                                              !.char = c, !.seen = bio[c]]]
  /\ UNCHANGED <<clock, claims, bio, links, clashed>>

\* The latest claim that was not replaced: ORDER BY issued_at DESC LIMIT 1.
Candidates(u, c) == {i \in Ids : Of(i, u, c) /\ ~claims[i].replaced}
Latest(u, c) ==
  CHOOSE i \in Candidates(u, c) : \A j \in Candidates(u, c) :
    claims[j].issued < claims[i].issued \/ (claims[j].issued = claims[i].issued /\ j <= i)

\* Mutant: any token in the biography is accepted.
ProvesAny(id, seen) == seen # {}
Proves(id, seen) == id \in seen

\* The member's row and the claim are locked: there is none, it has expired by
\* the process's clock, or its token is not in the biography that was read.
Unproved(k) ==
  LET u == call[k].user  c == call[k].char  i == Latest(u, c)
  IN Candidates(u, c) # {} =>
       \/ claims[i].expires <= clock - Skew
       \/ ~claims[i].consumed /\ ~Proves(i, call[k].seen)
RefuseProof(k) ==
  /\ call[k].pc = "profiled" /\ UserFree(call[k].user)
  /\ Unproved(k)
  /\ Ends(k)
  /\ UNCHANGED <<clock, claims, bio, links, clashed>>
AnswerVerified(k) ==
  /\ call[k].pc = "profiled" /\ UserFree(call[k].user)
  /\ ~Unproved(k) /\ claims[Latest(call[k].user, call[k].char)].consumed
  /\ Ends(k)
  /\ UNCHANGED <<clock, claims, bio, links, clashed>>
AcceptProof(k) ==
  LET latest == Latest(call[k].user, call[k].char)
  IN /\ call[k].pc = "profiled" /\ UserFree(call[k].user)
     /\ ~Unproved(k) /\ ~claims[latest].consumed
     /\ call' = [call EXCEPT ![k].pc = "locked", ![k].id = latest]
     /\ UNCHANGED <<clock, claims, bio, links, clashed>>

\* assign() locks the member's row as it is upserted.
BeginAssign(k, u, c) ==
  /\ call[k].pc = "idle" /\ UserFree(u)
  /\ call' = [call EXCEPT ![k] = [Idle EXCEPT !.pc = "locked", !.user = u, !.char = c]]
  /\ UNCHANGED <<clock, claims, bio, links, clashed>>

\* Mutant: trust() reads the links without the character's row.
TrustUnlocked(k) ==
  LET u == call[k].user  c == call[k].char
      first == u \notin Imported /\ u \notin linked
  IN /\ call[k].pc = "locked"
     /\ IF owner[c] \notin {u, NoUser} THEN Ends(k)
        ELSE call' = [call EXCEPT ![k].pc = "trusting", ![k].created = owner[c] = NoUser,
                        ![k].first = first,
                        ![k].becomes = first \/ (u \notin Imported /\ main[u] = NoChar
                                                 /\ LinksOf(u) = {})]
     /\ UNCHANGED <<clock, claims, bio, links, clashed>>

\* trust() locks the character's row; another owner's link is a conflict.
Trust(k) ==
  LET u == call[k].user  c == call[k].char
      first == u \notin Imported /\ u \notin linked
  IN /\ call[k].pc = "locked" /\ CharFree(c)
     /\ IF owner[c] \notin {u, NoUser} THEN Ends(k)
        ELSE call' = [call EXCEPT ![k].pc = "trusting", ![k].created = owner[c] = NoUser,
                        ![k].first = first,
                        ![k].becomes = first \/ (u \notin Imported /\ main[u] = NoChar
                                                 /\ LinksOf(u) = {})]
     /\ UNCHANGED <<clock, claims, bio, links, clashed>>

\* The claim is consumed only while it is valid by the database's clock.
Consumable(i) == Unfinished(i) /\ claims[i].expires > clock

NewLink(k) ==
  LET u == call[k].user  c == call[k].char
  IN /\ owner' = [owner EXCEPT ![c] = u]
     /\ linked' = linked \cup {u}
     /\ main' = IF call[k].becomes THEN [main EXCEPT ![u] = c] ELSE main
     /\ sync' = IF call[k].first THEN [sync EXCEPT ![u] = TRUE] ELSE sync
     /\ proofs' = IF call[k].verify
                  THEN proofs \cup {[claim |-> call[k].id, at |-> clock]} ELSE proofs

\* The rest of verify() or assign() and the commit; a refusal rolls all back.
Commit(k) ==
  LET c == call[k].char
      clash == call[k].created /\ owner[c] # NoUser
      refused == clash \/ (call[k].verify /\ ~Consumable(call[k].id))
  IN /\ call[k].pc = "trusting"
     /\ clashed' = (clashed \/ clash)
     /\ IF refused \/ ~call[k].created THEN UNCHANGED links ELSE NewLink(k)
     /\ claims' = IF refused \/ ~call[k].verify THEN claims
                  ELSE [claims EXCEPT ![call[k].id].consumed = TRUE]
     /\ Ends(k)
     /\ UNCHANGED <<clock, bio>>

-----------------------------------------------------------------------------
(* unclaim(), preferences() *)

\* Mutant: the main character stays when its link ends.
UnclaimKeepsMain(u, c) ==
  /\ UserFree(u) /\ CharFree(c) /\ owner[c] = u
  /\ owner' = [owner EXCEPT ![c] = NoUser]
  /\ UNCHANGED <<clock, claims, bio, linked, main, sync, proofs, clashed, call>>

Unclaim(u, c) ==
  /\ UserFree(u) /\ CharFree(c) /\ owner[c] = u
  /\ owner' = [owner EXCEPT ![c] = NoUser]
  /\ main' = IF main[u] = c THEN [main EXCEPT ![u] = NoChar] ELSE main
  /\ UNCHANGED <<clock, claims, bio, linked, sync, proofs, clashed, call>>

SetMain(u, c) ==
  /\ UserFree(u) /\ owner[c] = u
  /\ main' = [main EXCEPT ![u] = c]
  /\ UNCHANGED <<clock, claims, bio, owner, linked, sync, proofs, clashed, call>>
SetSync(u, on) ==
  /\ UserFree(u) /\ on => main[u] # NoChar
  /\ sync' = [sync EXCEPT ![u] = on]
  /\ UNCHANGED <<clock, claims, bio, owner, linked, main, proofs, clashed, call>>

-----------------------------------------------------------------------------
(* The member's side, time and failures *)

\* A member puts a token they were given into a biography they can edit.
Publish(i) ==
  /\ Controller[claims[i].char] = claims[i].user
  /\ bio' = [bio EXCEPT ![claims[i].char] = @ \cup {i}]
  /\ UNCHANGED <<clock, claims, links, clashed, call>>
Tick ==
  /\ clock < Horizon
  /\ clock' = clock + 1
  /\ UNCHANGED <<claims, bio, links, clashed, call>>
Crash(k) ==
  /\ call[k].pc # "idle"
  /\ Ends(k)
  /\ UNCHANGED <<clock, claims, bio, links, clashed>>

Init ==
  /\ clock = 0 /\ claims = <<>> /\ bio = [c \in Chars |-> {}]
  /\ owner = [c \in Chars |-> NoUser] /\ linked = {}
  /\ main = [u \in Users |-> NoChar] /\ sync = [u \in Users |-> FALSE]
  /\ proofs = {} /\ clashed = FALSE
  /\ call = [k \in Calls |-> Idle]

Begin(k, u, c) == BeginClaim(k, u, c) \/ ReadProfile(k, u, c) \/ BeginAssign(k, u, c)
Continue(k) ==
  \/ Count(k) \/ Insert(k)
  \/ RefuseProof(k) \/ AnswerVerified(k) \/ AcceptProof(k) \/ Trust(k) \/ Commit(k)
  \/ Crash(k)
Next ==
  \/ \E u \in Users, c \in Chars :
       (\E k \in Calls : Begin(k, u, c)) \/ Unclaim(u, c) \/ SetMain(u, c)
  \/ \E u \in Users, on \in BOOLEAN : SetSync(u, on)
  \/ \E k \in Calls : Continue(k)
  \/ \E i \in Ids : Publish(i)
  \/ Tick

Spec == Init /\ [][Next]_vars

-----------------------------------------------------------------------------
(* Properties *)

\* Types; a locked claim is the caller's own and no member's row is held twice.
TypeOK ==
  /\ clock \in 0..Horizon /\ linked \subseteq Users /\ clashed \in BOOLEAN
  /\ owner \in [Chars -> Users \cup {NoUser}]
  /\ main \in [Users -> Chars \cup {NoChar}] /\ sync \in [Users -> BOOLEAN]
  /\ \A c \in Chars : bio[c] \subseteq Ids
  /\ \A k \in Calls : call[k].pc \in {"idle", "claiming", "counting", "profiled", "locked",
                                      "trusting"}
  /\ \A k \in Calls : call[k].id # 0 => Of(call[k].id, call[k].user, call[k].char)
  /\ \A k, l \in Calls : k # l /\ call[k].pc \in {"locked", "trusting"}
       /\ call[l].pc \in {"locked", "trusting"} => call[k].user # call[l].user

\* A member's main character is one of their linked characters.
MainIsLinked == \A u \in Users : main[u] # NoChar => owner[main[u]] = u

\* /verify links a character only to the member who can edit its biography,
\* with a token that was valid at that moment, and each token once.
ProvedByController ==
  /\ \A p \in proofs : Controller[claims[p.claim].char] = claims[p.claim].user
  /\ \A p, q \in proofs : p.claim = q.claim => p = q
  /\ \A p \in proofs : claims[p.claim].issued <= p.at /\ p.at < claims[p.claim].expires

\* However claims race, a member never holds more than OwnLimit valid tokens and
\* the server never more than AllLimit.
ClaimsBounded ==
  LET valid == {i \in Ids : Unfinished(i) /\ claims[i].expires > clock}
  IN /\ Cardinality(valid) <= AllLimit
     /\ \A u \in Users : Cardinality({i \in valid : claims[i].user = u}) <= OwnLimit

\* No race of claims or links meets a unique index, which would be answered with
\* an unexpected error.
RacesAreAnswered == ~clashed

\* A link never changes a main character that the member already has, nor turns
\* on the nickname sync of a member who had a link before.
LinkingKeepsChoices ==
  [][\A u \in Users : owner' # owner /\ (\A c \in Chars : owner[c] = u => owner'[c] = u) =>
       /\ main[u] # NoChar => main'[u] = main[u]
       /\ u \in linked => sync'[u] = sync[u]]_vars

=============================================================================
