------------------------------ MODULE WebActors ------------------------------
(***************************************************************************)
(* How the web pages let a signed-in user through (src/web/access.ts and      *)
(* servePage() of server.ts): the memo of resolved actors, the resolutions     *)
(* that fill it, and the page requests that share them.                       *)
(*                                                                         *)
(* The memo's entries are apart by server and user, so one user on one server  *)
(* stands for all.  Form tokens, page budgets, the age of a sign-in and what   *)
(* the pages show are left out.                                              *)
(***************************************************************************)
EXTENDS Naturals

CONSTANTS
  Requests, None,
  MemoFor,                \* ACTOR_MEMO_MS
  Horizon, MaxChanges     \* bounds: the clock, changes of the user's access

ConstantsOK == None \notin Requests /\ MemoFor \in Nat \ {0} /\ {Horizon, MaxChanges} \subseteq Nat

VARIABLES
  now,        \* the clock of the process
  member,     \* Discord: the user may use the page now
  req,        \* the page requests being answered
  memo,       \* AccessResolver.memo: [by, until, answer], or None
  lastMember, \* history: the last time the user could use the page
  changes

vars == <<now, member, req, memo, lastMember, changes>>
world == <<now, member, lastMember, changes>>

\* began, since: history: when the request came, and whether the user could use the
\* page at some time from then on.
NoRequest == [kind |-> "none", step |-> "none", for |-> None, answer |-> "none", began |-> 0, since |-> FALSE]
At(r, step) == req[r].step = step

-----------------------------------------------------------------------------
(* AccessResolver *)

\* prune(), then the entry.
Held == IF memo # None /\ memo.until > now THEN memo ELSE None

\* A mutant: every request is answered by the memo.
UsesMemoAlways(r) == Held # None
\* Only a GET is answered by the memo.
UsesMemo(r) == Held # None /\ req[r].kind = "get"

\* actor(): the memo's answer, the one that it still waits for, or a resolution of its own.
Ask(r) ==
  /\ At(r, "ask")
  /\ IF UsesMemo(r)
     THEN /\ req' = [req EXCEPT ![r].step = IF Held.answer = "pending" THEN "waits" ELSE "answered",
                                ![r].for = Held.by, ![r].answer = Held.answer]
          /\ memo' = Held
     ELSE /\ req' = [req EXCEPT ![r].step = "resolves"]
          /\ memo' = [by |-> r, until |-> now + MemoFor, answer |-> "pending"]
  /\ UNCHANGED world

\* peek(): what the memo holds may refuse a POST, never let it through.
Peek(r) ==
  /\ At(r, "peek") /\ memo' = Held
  /\ req' = IF Held = None \/ Held.answer = "yes" THEN [req EXCEPT ![r].step = "ask"]
            ELSE IF Held.answer = "no" THEN [req EXCEPT ![r] = NoRequest]
            ELSE [req EXCEPT ![r].step = "peeks", ![r].for = Held.by]
  /\ UNCHANGED world

\* Discord decides ...
Decides(r) ==
  /\ At(r, "resolves")
  /\ req' = [req EXCEPT ![r].step = "decided", ![r].answer = IF member THEN "yes" ELSE "no"]
  /\ UNCHANGED <<memo, world>>

\* ... and the answer reaches the request and everyone who waits for this resolution.
Told(s, r) == req[s].for = r /\ req[s].step \in {"waits", "peeks"}
Answers(r) ==
  /\ At(r, "decided")
  /\ req' = [s \in Requests |->
               IF s = r THEN [req[r] EXCEPT !.step = "answered"]
               ELSE IF ~Told(s, r) THEN req[s]
               ELSE IF At(s, "waits") THEN [req[s] EXCEPT !.step = "answered", !.for = None, !.answer = req[r].answer]
               ELSE IF req[r].answer = "no" THEN NoRequest
               ELSE [req[s] EXCEPT !.step = "ask", !.for = None]]
  /\ memo' = IF memo # None /\ memo.by = r THEN [memo EXCEPT !.by = None, !.answer = req[r].answer] ELSE memo
  /\ UNCHANGED world

\* An error ends the requests that waited for it, and leaves the memo if it is still there.
ResolveFails(r) ==
  /\ req[r].step \in {"resolves", "decided"}
  /\ req' = [s \in Requests |->
               IF s = r \/ (Told(s, r) /\ At(s, "waits")) THEN NoRequest
               ELSE IF Told(s, r) THEN [req[s] EXCEPT !.step = "ask", !.for = None]
               ELSE req[s]]
  /\ memo' = IF memo # None /\ memo.by = r THEN None ELSE memo
  /\ UNCHANGED world

-----------------------------------------------------------------------------
(* servePage() *)

\* kind "fresh": a GET of a page that never reuses the memo.
Arrives(r, kind) ==
  /\ At(r, "none")
  /\ req' = [req EXCEPT ![r] = [NoRequest EXCEPT !.kind = kind, !.step = IF kind = "post" THEN "peek" ELSE "ask",
                                                 !.began = now, !.since = member]]
  /\ UNCHANGED <<memo, world>>
\* Answered: the page is shown or the POST is carried out, or the request is refused.
Serves(r) == At(r, "answered") /\ req' = [req EXCEPT ![r] = NoRequest] /\ UNCHANGED <<memo, world>>

-----------------------------------------------------------------------------
Tick ==
  /\ now < Horizon /\ now' = now + 1
  /\ lastMember' = IF member THEN now + 1 ELSE lastMember
  /\ UNCHANGED <<member, changes, req, memo>>
\* The user loses a role or leaves, or comes back.
AccessChanges ==
  /\ changes < MaxChanges /\ changes' = changes + 1 /\ member' = ~member
  /\ lastMember' = now
  /\ req' = [r \in Requests |-> IF At(r, "none") THEN req[r] ELSE [req[r] EXCEPT !.since = @ \/ ~member]]
  /\ UNCHANGED <<now, memo>>

Init ==
  /\ now = 0 /\ member = TRUE /\ lastMember = 0 /\ changes = 0
  /\ req = [r \in Requests |-> NoRequest] /\ memo = None
Next ==
  \/ \E r \in Requests :
       \/ \E kind \in {"get", "fresh", "post"} : Arrives(r, kind)
       \/ Ask(r) \/ Peek(r) \/ Decides(r) \/ Answers(r) \/ ResolveFails(r) \/ Serves(r)
  \/ Tick \/ AccessChanges
Spec == Init /\ [][Next]_vars

-----------------------------------------------------------------------------
(* Properties *)

\* Whoever is let through could use the page at some time since the request came; only
\* a GET that may reuse the memo is let through on an answer from before, at most
\* ACTOR_MEMO_MS old then ("no answer is reused for longer than ACTOR_MEMO_MS after
\* Discord was asked, however slow the answer was", access.ts).
AccessIsCurrent ==
  \A r \in Requests : At(r, "answered") /\ req[r].answer = "yes" =>
    \/ req[r].since
    \/ req[r].kind = "get" /\ lastMember + MemoFor > req[r].began
=============================================================================
