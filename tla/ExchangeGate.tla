---------------------------- MODULE ExchangeGate ----------------------------
(***************************************************************************)
(* The gate around the Discord requests of a sign-in (ExchangeGate in          *)
(* src/web/limits.ts): the pause after a 429, the cap on exchanges that run at *)
(* once, and the rate of a fixed window.                                      *)
(***************************************************************************)
EXTENDS Integers, FiniteSets, Sequences

CONSTANTS
  Exchanges,              \* sign-ins whose exchange may run
  Limit, Window,          \* EXCHANGE_LIMIT, EXCHANGE_WINDOW_MS
  Concurrency,            \* EXCHANGE_CONCURRENCY
  Delays,                 \* delays that a 429 may name
  Horizon                 \* bound: the clock

ConstantsOK == {Limit, Window, Concurrency} \cup Delays \subseteq Nat \ {0} /\ Horizon \in Nat

VARIABLES
  now,
  running,    \* the exchanges that run
  paused,     \* pausedUntil
  rate,       \* the RateLimiter's window: [start, count]
  asked,      \* history: the latest end of a delay that Discord has named
  begun       \* history: when exchanges began, in order, since the last restart

vars == <<now, running, paused, rate, asked, begun>>

\* RateLimiter.take(): a window that has ended starts anew, one that is full refuses.
Ended == now >= rate.start + Window
Allows == Ended \/ rate.count < Limit
\* A mutant: a window that has ended keeps its start.
CountedKept == [rate EXCEPT !.count = IF Ended THEN 1 ELSE @ + 1]
Counted == IF Ended THEN [start |-> now, count |-> 1] ELSE [rate EXCEPT !.count = @ + 1]

\* run(): the pause, the cap and, last, the rate.
Begins(e) ==
  /\ e \notin running /\ now >= paused /\ Cardinality(running) < Concurrency /\ Allows
  /\ running' = running \cup {e} /\ rate' = Counted
  /\ begun' = Append(begun, now)
  /\ UNCHANGED <<now, paused, asked>>

\* It succeeds, or fails with anything but a 429.
Finishes(e) ==
  /\ e \in running /\ running' = running \ {e}
  /\ UNCHANGED <<now, paused, rate, asked, begun>>

\* A mutant: the newest delay replaces a longer one.
PausedUntilLast(delay) == now + delay
\* A 429 starts the pause or extends it.
PausedUntil(delay) == IF paused > now + delay THEN paused ELSE now + delay
Refused(e, delay) ==
  /\ e \in running /\ running' = running \ {e}
  /\ paused' = PausedUntil(delay) /\ asked' = IF asked > now + delay THEN asked ELSE now + delay
  /\ UNCHANGED <<now, rate, begun>>

Tick == now < Horizon /\ now' = now + 1 /\ UNCHANGED <<running, paused, rate, asked, begun>>

\* The counts and the pause are in memory.
NoRate == [start |-> 0 - Window, count |-> 0]
Restart ==
  /\ running' = {} /\ paused' = 0 /\ rate' = NoRate
  /\ asked' = 0 /\ begun' = <<>> /\ UNCHANGED now

Init == now = 0 /\ running = {} /\ paused = 0 /\ rate = NoRate /\ asked = 0 /\ begun = <<>>
Next ==
  \/ \E e \in Exchanges : Begins(e) \/ Finishes(e) \/ \E delay \in Delays : Refused(e, delay)
  \/ Tick \/ Restart
Spec == Init /\ [][Next]_vars

-----------------------------------------------------------------------------
\* While the process runs, no exchange begins before every delay that Discord has named
\* is over, those of exchanges that ran at once included; and Discord sees at most twice
\* the limit in any stretch as long as the window, wherever the windows begin.
DiscordIsSpared ==
  /\ [][Len(begun') > Len(begun) => now >= asked]_vars
  /\ [](\A i, j \in DOMAIN begun : j >= i + 2 * Limit => begun[j] >= begun[i] + Window)
=============================================================================
