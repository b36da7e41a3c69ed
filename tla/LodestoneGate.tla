---------------------------- MODULE LodestoneGate ----------------------------
(***************************************************************************)
(* Admission of requests to the Lodestone: the parse slots and the retry    *)
(* loop of infrastructure/lodestone/client.ts, and the start gate and the   *)
(* shared 429 cooldown of gate.ts, as runner.ts uses them.                  *)
(*                                                                         *)
(* One JavaScript thread runs every request, so an action is what happens   *)
(* between two awaits.  Time is a counter; sleeps and deadlines are steps   *)
(* that may come at any later moment, except where gate.ts compares clocks. *)
(***************************************************************************)
EXTENDS Integers, Sequences, FiniteSets, SequencesExt

CONSTANTS
  Requests,       \* calls of request(), each made once
  Concurrency,    \* LODESTONE_CONCURRENCY
  Attempts,       \* LODESTONE_ATTEMPTS
  Spacing,        \* LODESTONE_START_MS, in ticks
  CooldownBase,   \* COOLDOWN_BASE_MS
  CooldownMax,    \* COOLDOWN_MAX_MS
  RetryAfterMax,  \* RETRY_AFTER_MAX_MS
  Hints,          \* Retry-After values of a 429
  Horizon         \* bound: the clock stops here

ConstantsOK ==
  /\ IsFiniteSet(Requests)
  /\ Concurrency \in Nat \ {0} /\ Attempts \in Nat \ {0}
  /\ Spacing \in Nat /\ CooldownBase \in Nat /\ CooldownMax \in Nat
  /\ RetryAfterMax \in Nat /\ Horizon \in Nat /\ Hints \subseteq Nat

VARIABLES
  now,
  req,        \* each request: where it is and which attempt it makes
  active,     \* parse slots in use
  waiting,    \* requests waiting for a slot, in arrival order
  line,       \* the chain of startLock promises; its head holds the lock
  lastStart,
  coolUntil,
  strikes,    \* consecutive 429s
  failing     \* failingSince is set

vars == <<now, req, active, waiting, line, lastStart, coolUntil, strikes, failing>>
gate == <<lastStart, coolUntil, strikes>>

Places == {"idle", "queued", "woken", "line", "pacing", "fetch", "backoff", "ended"}
Holding == {"line", "pacing", "fetch"}
At(r, pc) == req[r].pc = pc
Move(r, pc) == req' = [req EXCEPT ![r].pc = pc]
Cooling == now < coolUntil

-----------------------------------------------------------------------------
(* Parse slots: slot() *)

\* The while loop of slot(): take a slot or wait at the back.
Enter(r) ==
  IF active < Concurrency
  THEN /\ active' = active + 1
       /\ line' = Append(line, r)
       /\ Move(r, "line")
       /\ UNCHANGED waiting
  ELSE /\ waiting' = Append(waiting, r)
       /\ Move(r, "queued")
       /\ UNCHANGED <<active, line>>

Ask(r) ==
  /\ At(r, "idle") \/ At(r, "backoff")
  /\ Enter(r)
  /\ UNCHANGED <<now, gate, failing>>

\* Mutant: a woken request takes the slot it was woken for without looking.
ResumeBlind(r) ==
  /\ At(r, "woken")
  /\ active' = active + 1
  /\ line' = Append(line, r)
  /\ Move(r, "line")
  /\ UNCHANGED <<waiting, now, gate, failing>>

\* A woken request looks again: another one may have taken the slot.
Resume(r) ==
  /\ At(r, "woken")
  /\ Enter(r)
  /\ UNCHANGED <<now, gate, failing>>

\* Where an attempt that ends with a code leaves its request.
After(r, code) ==
  IF code = "unavailable" /\ req[r].attempt < Attempts
  THEN [pc |-> "backoff", attempt |-> req[r].attempt + 1]
  ELSE [req[r] EXCEPT !.pc = "ended"]
Unreachable == {"unavailable", "rate_limited"}
Reached(r, code) ==
  failing' = IF After(r, code).pc = "ended" THEN code \in Unreachable ELSE failing

\* Mutant: a throttled request frees its slot and wakes nobody.
LeaveQuietly(r, code) ==
  /\ active' = active - 1
  /\ waiting' = IF waiting = <<>> \/ code = "rate_limited" THEN waiting ELSE Tail(waiting)
  /\ req' = [q \in Requests |->
       IF q = r THEN After(r, code)
       ELSE IF waiting # <<>> /\ q = Head(waiting) /\ At(q, "queued") /\ code # "rate_limited"
            THEN [req[q] EXCEPT !.pc = "woken"]
       ELSE req[q]]
  /\ Reached(r, code)

\* The release of a slot wakes the first waiting request.
Leave(r, code) ==
  /\ active' = active - 1
  /\ waiting' = IF waiting = <<>> THEN <<>> ELSE Tail(waiting)
  /\ req' = [q \in Requests |->
       IF q = r THEN After(r, code)
       ELSE IF waiting # <<>> /\ q = Head(waiting) /\ At(q, "queued")
            THEN [req[q] EXCEPT !.pc = "woken"]
       ELSE req[q]]
  /\ Reached(r, code)

\* Mutant: an aborted request keeps its place among the waiting.
AbortKeepsPlace(r) ==
  /\ At(r, "queued")
  /\ req' = [req EXCEPT ![r] = After(r, "unavailable")]
  /\ Reached(r, "unavailable")
  /\ UNCHANGED <<now, active, waiting, line, gate>>

\* The request's deadline while it waits for a slot.
AbortWait(r) ==
  /\ At(r, "queued")
  /\ \E i \in DOMAIN waiting : waiting[i] = r /\ waiting' = RemoveAt(waiting, i)
  /\ req' = [req EXCEPT ![r] = After(r, "unavailable")]
  /\ Reached(r, "unavailable")
  /\ UNCHANGED <<now, active, line, gate>>

\* The job's deadline or shutdown ends a request that waits to try again.
AbortBackoff(r) ==
  /\ At(r, "backoff")
  /\ Move(r, "ended")
  /\ failing' = TRUE
  /\ UNCHANGED <<now, active, waiting, line, gate>>

-----------------------------------------------------------------------------
(* The gate: admit(), throttled(), answered() *)

\* The head of the chain looks at the cooldown and then waits for its slot.
Admit(r) ==
  /\ At(r, "line") /\ Head(line) = r
  /\ IF Cooling
     THEN Leave(r, "rate_limited") /\ line' = Tail(line)
     ELSE Move(r, "pacing") /\ UNCHANGED <<active, waiting, line, failing>>
  /\ UNCHANGED <<now, gate>>

\* Mutant: the cooldown is not read again after the wait for the start slot.
StartEarly(r) ==
  /\ At(r, "pacing")
  /\ now >= lastStart + Spacing
  /\ Move(r, "fetch") /\ lastStart' = now /\ line' = Tail(line)
  /\ UNCHANGED <<now, active, waiting, coolUntil, strikes, failing>>

\* Its start slot has come: start, unless a 429 arrived meanwhile.
Start(r) ==
  /\ At(r, "pacing")
  /\ now >= lastStart + Spacing
  /\ line' = Tail(line)
  /\ IF Cooling
     THEN Leave(r, "rate_limited") /\ UNCHANGED lastStart
     ELSE Move(r, "fetch") /\ lastStart' = now /\ UNCHANGED <<active, waiting, failing>>
  /\ UNCHANGED <<now, coolUntil, strikes>>

\* The deadline while it holds the start lock.
AbortPacing(r) ==
  /\ At(r, "pacing")
  /\ line' = Tail(line)
  /\ Leave(r, "unavailable")
  /\ UNCHANGED <<now, gate>>

Lower(a, b) == IF a < b THEN a ELSE b
Higher(a, b) == IF a > b THEN a ELSE b
Backoff == Lower(CooldownMax, CooldownBase * 2 ^ strikes)

CooldownAfter(hint) ==
  Higher(coolUntil, now + Higher(Backoff, Lower(hint, RetryAfterMax)))

\* A 429 closes the gate for everyone.
Throttled(r) ==
  /\ At(r, "fetch")
  /\ \E hint \in Hints :
       /\ coolUntil' = CooldownAfter(hint)
       /\ strikes' = strikes + 1
  /\ Leave(r, "rate_limited")
  /\ UNCHANGED <<now, line, lastStart>>

\* Any other response ends the escalation, a server error included.
Answered(r) ==
  /\ At(r, "fetch")
  /\ strikes' = 0
  /\ \E code \in {"ok", "not_found", "unavailable"} : Leave(r, code)
  /\ UNCHANGED <<now, line, lastStart, coolUntil>>

\* A network failure, a deadline or shutdown: no response at all.
Unanswered(r) ==
  /\ At(r, "fetch")
  /\ Leave(r, "unavailable")
  /\ UNCHANGED <<now, line, gate>>

Tick == now < Horizon /\ now' = now + 1
        /\ UNCHANGED <<req, active, waiting, line, gate, failing>>

-----------------------------------------------------------------------------
Init ==
  /\ now = 0
  /\ req = [r \in Requests |-> [pc |-> "idle", attempt |-> 1]]
  /\ active = 0 /\ waiting = <<>> /\ line = <<>>
  /\ lastStart = -Spacing /\ coolUntil = 0 /\ strikes = 0
  /\ failing = FALSE

Slots(r) == Resume(r) \/ AbortWait(r) \/ AbortBackoff(r)
Gate(r) == Admit(r) \/ Start(r) \/ AbortPacing(r)
Fetch(r) == Throttled(r) \/ Answered(r) \/ Unanswered(r)
Next == Tick \/ \E r \in Requests : Ask(r) \/ Slots(r) \/ Gate(r) \/ Fetch(r)

Spec == Init /\ [][Next]_vars

\* The event loop runs every resolved await, every fetch has a deadline, and
\* every request has one; only a queued request's own deadline is not assumed.
Fairness ==
  /\ \A r \in Requests : /\ WF_vars(Resume(r)) /\ WF_vars(Gate(r)) /\ WF_vars(Fetch(r))
                         /\ WF_vars(AbortBackoff(r))
FairSpec == Spec /\ Fairness

-----------------------------------------------------------------------------
(* Properties *)

\* The state has its type, and the counters say what the requests do: a slot is
\* counted exactly while a request holds it, and the start lock has its queue.
TypeOK ==
  /\ now \in 0..Horizon /\ strikes \in Nat /\ failing \in BOOLEAN
  /\ req \in [Requests -> [pc : Places, attempt : 1..Attempts]]
  /\ active = Cardinality({r \in Requests : req[r].pc \in Holding})
  /\ ToSet(line) = {r \in Requests : req[r].pc \in {"line", "pacing"}}

\* No more parses run at once than the limit, whoever resumes, aborts or retries.
ParsesBounded == Cardinality({r \in Requests : req[r].pc \in Holding}) <= Concurrency

\* A free slot is never left unused while a request waits for one: a wake-up is
\* never spent on a request that has already given up.
NoWakeupLost ==
  active < Concurrency /\ waiting # <<>> => \E r \in Requests : At(r, "woken")

\* Requests start at least Spacing apart, although waiting requests overlap
\* running ones, and none starts during the cooldown of a 429, not even one that
\* was already waiting for its start slot when the 429 arrived.
StartsAreAllowed ==
  [][\A r \in Requests : At(r, "pacing") /\ req'[r].pc = "fetch" =>
       ~Cooling /\ lastStart' >= lastStart + Spacing]_vars

\* Every request that asked ends, answered, refused or out of attempts.
EveryRequestEnds ==
  \A r \in Requests : req[r].pc # "idle" ~> req[r].pc \in {"idle", "ended"}

=============================================================================
