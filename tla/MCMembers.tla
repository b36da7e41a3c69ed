------------------------------ MODULE MCMembers ------------------------------
(***************************************************************************)
(* One run for SelfRoles, Verification, NicknameSync and Moderation.  part      *)
(* says which of them a behavior is about; the others stay in one initial      *)
(* state.                                                                     *)
(***************************************************************************)
EXTENDS SelfRoles, Integers, TLC

CONSTANTS
  Tries,                              \* two concurrent calls
  Manual, NoNick,                     \* nicknames of NicknameSync
  NickEdits, NickWishes, NickFaults,  \* and its bounds
  Users, NoUser, Chars, NoChar, Imported,
  Controller,                         \* who can edit a character's biography
  Window, Skew, OwnLimit, AllLimit,   \* of Verification
  MaxClaims, LinkHorizon,             \* and its bounds
  Features, ManagerOnly, Lengths, Forever,
  PauseHorizon                        \* bound of Moderation

Symmetric == Permutations(Tries) \cup Permutations(Tabs)

VARIABLES
  part, clock, claims, bio, owner, linked, main, sync, proofs, clashed, call,
  nick, nickRow, here, fresh, again, nickWorker, wished, count,
  hour, open, pausing, clash
linkVars == <<clock, claims, bio, owner, linked, main, sync, proofs, clashed, call>>
nickVars == <<nick, nickRow, here, fresh, again, nickWorker, wished, count>>
pauseVars == <<hour, open, pausing, clash>>

\* Two members and two characters, both under u1's control.
FirstControls == [c \in Chars |-> "u1"]
Links == INSTANCE Verification WITH Calls <- Tries, Horizon <- LinkHorizon
ASSUME LinksAssumption == Links!ConstantsOK

\* Bound: one behavior is about both members and one character, where u2 keeps the
\* sync a first link turns on and a second claim needs that no link was u2's, or
\* about one member and both characters without a claim.
About(users, chars) ==
  /\ linked \subseteq users
  /\ \A c \in Chars : owner[c] \in users \cup {NoUser}
  /\ \A c \in Chars \ chars : owner[c] = NoUser
  /\ \A u \in Users : main[u] \in chars \cup {NoChar}
  /\ \A i \in DOMAIN claims : claims[i].char \in chars
  /\ \A k \in Tries : call[k].user \in users \cup {NoUser} /\ call[k].char \in chars \cup {NoChar}
OneOrTheOther ==
  \/ /\ About(Users, {"c1"}) /\ sync["u2"] = ("u2" \in linked)
     /\ 2 \notin DOMAIN claims \/ linked \subseteq {"u1"}
  \/ About({"u1"}, Chars) /\ claims = <<>>

\* A member with two characters, without a nickname or with one set by hand.
Nick == INSTANCE NicknameSync WITH
  Overlaps <- FALSE, MaxEdits <- NickEdits, MaxWishes <- NickWishes, MaxFaults <- NickFaults,
  row <- nickRow, worker <- nickWorker, linked <- here, chosen <- wished
ASSUME NickAssumption == Nick!ConstantsOK

\* Pauses of two features, one of them for managers only, by two calls at once.
Pauses == INSTANCE Moderation WITH
  Calls <- Tries, Horizon <- PauseHorizon, now <- hour, rows <- open, call <- pausing, clashed <- clash
ASSUME PausesAssumption == Pauses!ConstantsOK

PartsInit ==
  /\ part \in {"roles", "links", "nickname", "pauses"}
  /\ Init
  /\ part = "roles" \/ (OnMenu(menu) = {} /\ \A c \in Cats : menu.cats[c].max = Unlimited)
  /\ Links!Init
  /\ Nick!Init /\ (part = "nickname" \/ nick = NoNick)
  /\ Pauses!Init
Moves(name, A) == part = name /\ A /\ UNCHANGED part
PartsNext ==
  \/ /\ Moves("roles", Next)
     /\ UNCHANGED <<linkVars, nickVars, pauseVars>>
  \/ /\ Moves("links", Links!Next)
     /\ UNCHANGED <<vars, nickVars, pauseVars>>
  \/ /\ Moves("nickname", Nick!Next)
     /\ UNCHANGED <<vars, linkVars, pauseVars>>
  \/ /\ Moves("pauses", Pauses!Next)
     /\ UNCHANGED <<vars, linkVars, nickVars>>
PartsSpec == PartsInit /\ [][PartsNext]_<<part, vars, linkVars, nickVars, pauseVars>>

\* A link by /verify has the controller's proof and takes no character and no main
\* from anyone, limits and mains hold, and no race meets a unique index (Verification).
LinksAreProved ==
  /\ [](part = "links" => /\ Links!ProvedByController /\ Links!RacesAreAnswered
                          /\ Links!MainIsLinked /\ Links!ClaimsBounded)
  /\ Links!LinkingKeepsChoices
\* The member's own nickname comes back, sync stops only after an edit by hand, and the
\* worker replaces no nickname that it has not recorded (NicknameSync).
NicknameIsTheirs ==
  /\ [](part = "nickname" => Nick!TypeOK /\ Nick!NicknameComesBack /\ Nick!OnlyEditsSuspend)
  /\ Nick!EditsAreRespected
\* Pauses meet no index and end only as they should (Moderation).
PausesHold == Pauses!PausesHold
=============================================================================
