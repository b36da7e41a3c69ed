----------------------------- MODULE NicknameSync -----------------------------
(***************************************************************************)
(* One member's nickname: the row of guild_users that says what sync wants  *)
(* and remembers, and Synchronization.nickname(), which a worker runs in    *)
(* each reconciliation of the member, one at a time (the member's lock).    *)
(*                                                                         *)
(* The row is read once and written column by column around the calls to    *)
(* Discord, while commands change it and the member edits the nickname.     *)
(* DiscordGateway.nickname(), which compares and then writes, is one step.   *)
(* The server owner, whose nickname no bot may change, is left out.         *)
(***************************************************************************)
EXTENDS Naturals

CONSTANTS
  Manual,         \* nicknames set by hand
  NoNick,         \* no nickname, as after a join
  Chars, NoChar,  \* the member's characters; their names as nicknames
  Overlaps,       \* the recorded nickname is reset in the middle of the bot's work:
                  \* sync turned on again before a restore, an attempt around a join
  MaxEdits, MaxWishes, MaxFaults   \* bounds: edits by hand, commands, failures

ConstantsOK ==
  /\ NoNick \in Manual /\ Manual \cap Chars = {}
  /\ NoChar \notin Chars \cup Manual
  /\ Overlaps \in BOOLEAN
  /\ MaxEdits \in Nat /\ MaxWishes \in Nat /\ MaxFaults \in Nat

VARIABLES
  nick,      \* the nickname in Discord
  row,       \* the guild_users row
  linked,    \* the member's linked characters
  fresh,     \* joined_at in the row is the member's current join
  again,     \* the job was asked for again since it was claimed
  worker,    \* the attempt: how far it is, the nickname and the row it read
  chosen,    \* history: the nickname last set by hand
  count      \* bounds: edits, commands and failures so far

vars == <<nick, row, linked, fresh, again, worker, chosen, count>>

Names == Manual \cup Chars
Row == [main : Chars \cup {NoChar}, enabled : BOOLEAN, suspended : BOOLEAN,
        restore : BOOLEAN, baselineSet : BOOLEAN, before : Names, last : Names,
        written : BOOLEAN, expected : Names, pending : BOOLEAN]
NewRow == [main |-> NoChar, enabled |-> FALSE, suspended |-> FALSE, restore |-> FALSE,
           baselineSet |-> FALSE, before |-> NoNick, last |-> NoNick, written |-> FALSE,
           expected |-> NoNick, pending |-> FALSE]
Idle == [pc |-> "idle", seen |-> NoNick, row |-> NewRow]
At(pc) == worker.pc = pc
Go(pc) == worker' = [worker EXCEPT !.pc = pc]
Done == worker' = Idle

-----------------------------------------------------------------------------
(* Commands *)

Wishes == count.wishes < MaxWishes /\ count' = [count EXCEPT !.wishes = @ + 1]
Saved(next) == row' = next /\ again' = TRUE

\* /verify and /assign, in trust(): the first link turns sync on, and a member
\* without links and main gets a main.
LinkCharacter(c) ==
  /\ Wishes /\ c \notin linked
  /\ linked' = linked \cup {c}
  /\ \E first \in BOOLEAN :
       /\ first => row.main = NoChar /\ ~row.enabled /\ ~row.restore /\ ~row.baselineSet
       /\ Saved(IF first THEN [row EXCEPT !.main = c, !.enabled = TRUE, !.suspended = FALSE]
                ELSE IF row.main = NoChar /\ linked = {}
                THEN [row EXCEPT !.main = c, !.restore = @ /\ ~row.enabled]
                ELSE row)
  /\ UNCHANGED <<nick, fresh, worker, chosen>>

\* /unclaim: the main's end asks for the restore.
EndLink(c) ==
  /\ Wishes /\ c \in linked
  /\ linked' = linked \ {c}
  /\ Saved(IF row.main = c THEN [row EXCEPT !.main = NoChar, !.restore = TRUE] ELSE row)
  /\ UNCHANGED <<nick, fresh, worker, chosen>>

\* /main
SetMain(c) ==
  /\ Wishes /\ c \in linked /\ c # row.main
  /\ Saved([row EXCEPT !.main = c, !.restore = @ /\ ~row.enabled])
  /\ UNCHANGED <<nick, linked, fresh, worker, chosen>>

\* /nickname
TurnOn ==
  /\ Wishes /\ row.main # NoChar /\ (~row.enabled \/ row.suspended)
  /\ row.restore => Overlaps
  /\ Saved([row EXCEPT !.enabled = TRUE, !.suspended = FALSE, !.restore = FALSE,
                       !.baselineSet = FALSE])
  /\ UNCHANGED <<nick, linked, fresh, worker, chosen>>
TurnOff ==
  /\ Wishes /\ row.enabled
  /\ Saved([row EXCEPT !.enabled = FALSE, !.suspended = FALSE, !.restore = TRUE])
  /\ UNCHANGED <<nick, linked, fresh, worker, chosen>>

-----------------------------------------------------------------------------
(* The member in Discord *)

Edit(n) ==
  /\ n # nick /\ count.edits < MaxEdits
  /\ count' = [count EXCEPT !.edits = @ + 1]
  /\ nick' = n /\ chosen' = n /\ again' = TRUE
  /\ UNCHANGED <<row, linked, fresh, worker>>

\* The member leaves and joins again, without a nickname.
Rejoin ==
  /\ At("idle") \/ Overlaps
  /\ count.edits < MaxEdits
  /\ count' = [count EXCEPT !.edits = @ + 1]
  /\ nick' = NoNick /\ chosen' = NoNick /\ fresh' = FALSE
  /\ UNCHANGED <<row, linked, again, worker>>
\* ensureUser() sees the new joined_at.
Joined ==
  /\ ~fresh /\ fresh' = TRUE
  /\ Saved([row EXCEPT !.baselineSet = FALSE, !.pending = FALSE])
  /\ UNCHANGED <<nick, linked, worker, chosen, count>>

-----------------------------------------------------------------------------
(* Synchronization.nickname() *)

\* The job is claimed and the member fetched.
Fetch ==
  /\ At("idle") /\ (fresh \/ Overlaps)
  /\ worker' = [Idle EXCEPT !.pc = "fetched", !.seen = nick]
  /\ again' = FALSE
  /\ UNCHANGED <<nick, row, linked, fresh, chosen, count>>

ReadRow ==
  /\ At("fetched")
  /\ worker' = [worker EXCEPT !.pc = "read", !.row = row]
  /\ UNCHANGED <<nick, row, linked, fresh, again, chosen, count>>

\* Mutant: an answer that was lost is not made up for.
OwnPendingNever == FALSE
\* The write that was under way is what is seen now.
OwnPending == worker.row.pending /\ worker.seen = worker.row.expected

\* Mutant: a write of its own that was under way counts as an edit.
IndependentOfPending ==
  /\ worker.row.baselineSet
  /\ worker.seen # (IF worker.row.written THEN worker.row.last ELSE worker.row.before)
\* Somebody else set what is seen now.
Independent ==
  /\ worker.row.baselineSet /\ ~OwnPending
  /\ worker.seen # (IF worker.row.written THEN worker.row.last ELSE worker.row.before)

Suspended(r) == [r EXCEPT !.suspended = TRUE, !.enabled = FALSE, !.pending = FALSE]
\* Mutant: the restore is asked for still.
RestoredStillAsked(r, restored) ==
  [r EXCEPT !.baselineSet = FALSE, !.pending = FALSE, !.written = FALSE,
            !.last = IF restored THEN r.before ELSE r.last]
Restored(r, restored) ==
  [r EXCEPT !.restore = FALSE, !.baselineSet = FALSE, !.pending = FALSE, !.written = FALSE,
            !.last = IF restored THEN r.before ELSE r.last]

\* guard() after the row announced the write: a new generation stops it.
Guarded(pc) == IF again THEN Done ELSE Go(pc)

\* A restore with something to put back is announced.
BeginRestore ==
  LET u == worker.row
  IN /\ At("read") /\ u.restore
     /\ u.baselineSet /\ (u.written \/ OwnPending) /\ ~Independent /\ worker.seen # u.before
     /\ row' = [row EXCEPT !.pending = TRUE, !.expected = row.before, !.last = worker.seen,
                           !.written = TRUE]
     /\ Guarded("restoring")
     /\ UNCHANGED <<nick, linked, fresh, again, chosen, count>>

\* Nothing to put back, or a nickname set by hand.
EndRestore ==
  LET u == worker.row
      restored == OwnPending /\ worker.seen = u.before
  IN /\ At("read") /\ u.restore
     /\ ~(u.baselineSet /\ (u.written \/ OwnPending) /\ ~Independent /\ worker.seen # u.before)
     /\ row' = Restored(IF Independent THEN Suspended(row) ELSE row, restored)
     /\ Done
     /\ UNCHANGED <<nick, linked, fresh, again, chosen, count>>

Syncs == ~worker.row.restore /\ worker.row.enabled /\ ~worker.row.suspended
         /\ worker.row.main # NoChar
NothingToDo ==
  /\ At("read") /\ ~worker.row.restore /\ ~Syncs
  /\ Done
  /\ UNCHANGED <<nick, row, linked, fresh, again, chosen, count>>
SuspendSync ==
  /\ At("read") /\ Syncs /\ Independent
  /\ row' = Suspended(row)
  /\ Done
  /\ UNCHANGED <<nick, linked, fresh, again, chosen, count>>

\* An own write that was under way is settled, and the nickname to come back to
\* is recorded when there is none.
Settled(r) ==
  IF OwnPending THEN [r EXCEPT !.last = worker.seen, !.written = TRUE, !.pending = FALSE] ELSE r
Recorded(r) ==
  IF worker.row.baselineSet THEN r
  ELSE [r EXCEPT !.before = worker.seen, !.baselineSet = TRUE, !.written = FALSE]

\* The character's name is announced, unless it is there already or the
\* character is no longer linked.
BeginName ==
  LET target == worker.row.main
  IN /\ At("read") /\ Syncs /\ ~Independent
     /\ IF target \notin linked THEN row' = Settled(row) /\ Done
        ELSE IF worker.seen = target
        THEN row' = [Recorded(Settled(row)) EXCEPT !.pending = FALSE] /\ Done
        ELSE /\ row' = [Recorded(Settled(row)) EXCEPT !.pending = TRUE, !.expected = target]
             /\ Guarded("naming")
     /\ UNCHANGED <<nick, linked, fresh, again, chosen, count>>

Target == IF At("restoring") THEN worker.row.before ELSE worker.row.main

\* Mutant: the nickname is written whatever it is now.
WriteBlindly ==
  /\ At("restoring") \/ At("naming")
  /\ nick' = Target
  /\ Go(IF At("restoring") THEN "restored" ELSE "named")
  /\ UNCHANGED <<row, linked, fresh, again, chosen, count>>

\* The gateway writes only over the nickname that was seen.
Write ==
  /\ At("restoring") \/ At("naming")
  /\ IF nick = worker.seen
     THEN nick' = Target /\ Go(IF At("restoring") THEN "restored" ELSE "named")
     ELSE nick' = nick /\ Go(IF At("restoring") THEN "keptRestoring" ELSE "keptNaming")
  /\ UNCHANGED <<row, linked, fresh, again, chosen, count>>

Finish ==
  /\ worker.pc \in {"restored", "keptRestoring", "named", "keptNaming"}
  /\ row' = CASE At("restored") -> Restored(row, TRUE)
              [] At("keptRestoring") -> Restored(Suspended(row), FALSE)
              [] At("named") -> [row EXCEPT !.last = Target, !.written = TRUE, !.pending = FALSE]
              [] OTHER -> Suspended(row)
  /\ Done
  /\ UNCHANGED <<nick, linked, fresh, again, chosen, count>>

\* Discord refuses or does not answer, or the process dies; the job runs again.
Fail ==
  /\ ~At("idle") /\ count.faults < MaxFaults
  /\ count' = [count EXCEPT !.faults = @ + 1]
  /\ Done
  /\ again' = TRUE
  /\ UNCHANGED <<nick, row, linked, fresh, chosen>>

-----------------------------------------------------------------------------
Init ==
  /\ nick \in Manual /\ chosen = nick
  /\ row = NewRow /\ linked = {} /\ fresh = TRUE /\ again = FALSE
  /\ worker = Idle
  /\ count = [edits |-> 0, wishes |-> 0, faults |-> 0]

Work ==
  \/ Fetch \/ ReadRow \/ BeginRestore \/ EndRestore
  \/ NothingToDo \/ SuspendSync \/ BeginName \/ Write \/ Finish
Next ==
  \/ Work \/ Fail
  \/ \E c \in Chars : LinkCharacter(c) \/ EndLink(c) \/ SetMain(c)
  \/ TurnOn \/ TurnOff
  \/ \E n \in Manual : Edit(n)
  \/ Rejoin \/ Joined

Spec == Init /\ [][Next]_vars
FairSpec == Spec /\ WF_vars(Work) /\ WF_vars(Joined)

-----------------------------------------------------------------------------
(* Properties *)

\* Types; a main is a linked character, and a suspension is never left enabled.
TypeOK ==
  /\ nick \in Names /\ chosen \in Manual /\ row \in Row /\ linked \subseteq Chars
  /\ worker.row \in Row /\ worker.seen \in Names
  /\ row.main # NoChar => row.main \in linked
  /\ row.suspended => ~row.enabled

\* When sync is off, or no main is left, and no restore is pending, the member
\* has the nickname that was last set by hand, whatever failed in between.
NicknameComesBack ==
  At("idle") /\ ~row.restore /\ (~row.enabled \/ row.main = NoChar) => nick = chosen

\* Sync is suspended only after an edit by hand: a write whose answer was lost, or
\* that a crash cut off, is recognized as the bot's own.
OnlyEditsSuspend == count.edits = 0 => ~row.suspended

\* Once commands, edits and failures stop, every restore has run and a member with
\* sync on shows the main character's name.
SyncConverges ==
  <>[](/\ ~row.restore
       /\ row.enabled /\ ~row.suspended /\ row.main # NoChar => nick = row.main)

\* The worker replaces a nickname that was set by hand only when it is the one
\* recorded to come back: an edit by somebody else is never overwritten.
EditsAreRespected ==
  [][(nick \in Manual /\ nick' \in Chars) => row.baselineSet /\ row.before = nick]_vars

=============================================================================
