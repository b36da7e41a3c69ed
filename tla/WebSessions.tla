----------------------------- MODULE WebSessions -----------------------------
(***************************************************************************)
(* How one user signs in to the web pages (src/web/): the sessions in          *)
(* PostgreSQL (sessions.ts), the limit on a user's sign-ins (limits.ts), and   *)
(* the requests that use them (server.ts).                                    *)
(*                                                                         *)
(* Sessions and sign-in counts are apart by user, so one user stands for all.  *)
(* The token exchange that comes first is ExchangeGate's.  The handshake's     *)
(* cookie, form tokens and the age of a sign-in are left out.                  *)
(***************************************************************************)
EXTENDS Integers, FiniteSets

CONSTANTS
  Browsers, Calls, None,
  Tokens,                     \* session tokens, in the order they are made: 1 .. n
  PerUser,                    \* SESSIONS_PER_USER
  Idle, Absolute, Touch,      \* SESSION_IDLE_MS, SESSION_ABSOLUTE_MS, SESSION_TOUCH_MS
  SignInLimit, SignInWindow,
  Horizon                     \* bound: the clock

ConstantsOK ==
  /\ IsFiniteSet(Tokens) /\ Tokens = 1 .. Cardinality(Tokens) /\ PerUser \in Tokens
  /\ {Idle, Absolute, Touch, SignInLimit, SignInWindow} \subseteq Nat \ {0}
  /\ Touch < Idle /\ Horizon \in Nat

VARIABLES
  now,        \* the clock of the database and of the process
  rows,       \* web_sessions: [created, seen] of each token, or None
  used,       \* tokens handed out
  cookie,     \* the token each browser presents, or None
  call,       \* the callbacks being answered: [step, browser, presented, tx]
  signIns     \* RateLimiter of the user's sign-ins: [start, count]

vars == <<now, rows, used, cookie, call, signIns>>
tables == <<rows, used, cookie>>

NoCall == [step |-> "none", browser |-> None, presented |-> None, tx |-> 0]
At(k, step) == call[k].step = step
Goes(k, step) == call' = [call EXCEPT ![k].step = step]
Ends(k) == call' = [call EXCEPT ![k] = NoCall]

-----------------------------------------------------------------------------
(* PgSessions *)

LiveAt(time, t) == rows[t] # None /\ time < rows[t].created + Absolute /\ time < rows[t].seen + Idle
Live == {t \in Tokens : LiveAt(now, t)}
Without(tokens) == [t \in Tokens |-> IF t \in tokens THEN None ELSE rows[t]]

\* What create() deletes: the live rows that are not among the newest PerUser - 1.
\* time is now() of its transaction, which began before it had the user's lock.  Of
\* sign-ins at the same time the code ranks by the stored hash, here by the token.
Newer(o, t) == rows[o].created > rows[t].created \/ (rows[o].created = rows[t].created /\ o > t)
\* A mutant: as many others are kept as there may be in all.
EvictedLate(time) ==
  LET others == {t \in Tokens : LiveAt(time, t)}
  IN  {t \in others : Cardinality({o \in others : Newer(o, t)}) >= PerUser}
Evicted(time) ==
  LET others == {t \in Tokens : LiveAt(time, t)}
  IN  {t \in others : Cardinality({o \in others : Newer(o, t)}) >= PerUser - 1}

\* A mutant: the touch does not look whether the row is live.
TouchedBlindly(t) ==
  IF rows[t] # None /\ now >= rows[t].seen + Touch THEN [rows EXCEPT ![t].seen = now] ELSE rows
\* get(): a live row that was last seen a while ago is touched.
Touched(t) == IF LiveAt(now, t) /\ now >= rows[t].seen + Touch THEN [rows EXCEPT ![t].seen = now] ELSE rows

-----------------------------------------------------------------------------
(* The callback, after the exchange: the sign-in limit, admission, rotation and the new
   session. *)

\* RateLimiter.take(): a window that has ended starts anew, one that is full refuses.
Ended == now >= signIns.start + SignInWindow
Allows == Ended \/ signIns.count < SignInLimit
Counted == IF Ended THEN [start |-> now, count |-> 1] ELSE [signIns EXCEPT !.count = @ + 1]

Callback(k, b) ==
  /\ At(k, "none") /\ Allows /\ signIns' = Counted
  /\ call' = [call EXCEPT ![k] = [step |-> "admit", browser |-> b, presented |-> cookie[b], tx |-> 0]]
  /\ UNCHANGED <<now, tables>>
\* Whatever session the request came with ends, admitted or not.
Admits(k) ==
  LET presented == call[k].presented
  IN  /\ At(k, "admit") /\ rows' = Without({presented})
      /\ \/ Goes(k, "create") /\ cookie' = cookie
         \/ Ends(k) /\ cookie' = IF presented = None THEN cookie ELSE [cookie EXCEPT ![call[k].browser] = None]
      /\ UNCHANGED <<now, used, signIns>>
AdmissionFails(k) == At(k, "admit") /\ Ends(k) /\ UNCHANGED <<now, tables, signIns>>
\* The transaction begins and waits for the user's lock ...
CreateBegins(k) ==
  /\ At(k, "create") /\ used < Cardinality(Tokens)
  /\ call' = [call EXCEPT ![k].step = "locks", ![k].tx = now]
  /\ UNCHANGED <<now, tables, signIns>>
\* ... and then inserts and evicts.
Creates(k) ==
  LET time == call[k].tx
      new == used + 1
  IN  /\ At(k, "locks") /\ new \in Tokens /\ used' = new
      /\ rows' = [Without(Evicted(time)) EXCEPT ![new] = [created |-> time, seen |-> time]]
      /\ cookie' = [cookie EXCEPT ![call[k].browser] = new]
      /\ Ends(k)
      /\ UNCHANGED <<now, signIns>>

-----------------------------------------------------------------------------
(* Pages and sign-out *)

\* The session middleware of a page.
Visits(b) ==
  /\ cookie[b] # None /\ rows' = Touched(cookie[b]) /\ rows' # rows
  /\ UNCHANGED <<now, used, cookie, call, signIns>>
\* Here, or with a live session everywhere.
SignsOut(b) ==
  /\ cookie[b] # None /\ cookie' = [cookie EXCEPT ![b] = None]
  /\ rows' \in {Without({cookie[b]})} \cup IF cookie[b] \in Live THEN {Without(Tokens)} ELSE {}
  /\ UNCHANGED <<now, used, call, signIns>>
Sweep ==
  /\ rows' = Without(Tokens \ Live) /\ rows' # rows
  /\ UNCHANGED <<now, used, cookie, call, signIns>>
NoWindow == [start |-> 0 - SignInWindow, count |-> 0]
\* A window that is over counts like none: it is forgotten here.
Tick ==
  /\ now < Horizon /\ now' = now + 1
  /\ signIns' = IF now' >= signIns.start + SignInWindow THEN NoWindow ELSE signIns
  /\ UNCHANGED <<tables, call>>
\* What is in memory is gone.
Restart == call' = [k \in Calls |-> NoCall] /\ signIns' = NoWindow /\ UNCHANGED <<now, tables>>

\* The user is signed in once less than may be, in the first browser.
Init ==
  /\ now = 0 /\ used = PerUser - 1
  /\ rows = [t \in Tokens |-> IF t <= used THEN [created |-> 0, seen |-> 0] ELSE None]
  /\ cookie = [b \in Browsers |-> IF b = 1 /\ used > 0 THEN 1 ELSE None]
  /\ call = [k \in Calls |-> NoCall]
  /\ signIns = NoWindow
Next ==
  \/ \E k \in Calls :
       \/ \E b \in Browsers : Callback(k, b)
       \/ Admits(k) \/ AdmissionFails(k) \/ CreateBegins(k) \/ Creates(k)
  \/ \E b \in Browsers : Visits(b) \/ SignsOut(b)
  \/ Sweep \/ Tick \/ Restart
Spec == Init /\ [][Next]_vars

-----------------------------------------------------------------------------
(* Properties *)

\* However many sign-ins end at once, a user has at most SESSIONS_PER_USER sessions, and
\* a session that is over never comes back, whatever the requests that still present it.
SessionsAreBounded ==
  /\ [](Cardinality(Live) <= PerUser)
  /\ [][\A t \in 1 .. used : t \notin Live => t \notin Live']_vars
=============================================================================
