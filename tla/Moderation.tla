----------------------------- MODULE Moderation -----------------------------
(***************************************************************************)
(* Pauses: one person's open rows of member_blocks, and the calls that set and *)
(* lift them (src/application/moderation.ts, blocks.ts).                      *)
(*                                                                         *)
(* Closed rows are kept as history and nothing decides by them; they, the row   *)
(* of guild_users, reasons, audit rows and the lists are left out.  The times  *)
(* of a transaction are its start's, and it waits for the person's lock after  *)
(* that.                                                                     *)
(***************************************************************************)
EXTENDS Naturals

CONSTANTS
  Calls, None,
  Features, ManagerOnly,   \* what a pause may name; MANAGER_ONLY_BLOCKS
  Lengths, Forever,        \* PAUSE_DURATIONS
  Horizon                  \* bound: the clock

ConstantsOK ==
  /\ ManagerOnly \subseteq Features /\ Lengths \subseteq Nat \ {0}
  /\ {Horizon, Forever} \subseteq Nat /\ Horizon < Forever

VARIABLES
  now,      \* the clock of the database
  rows,     \* the feature's row without a lift: [level, until], or None
  call,     \* the calls in progress: [op, level, features, length, tx]
  clashed   \* history: a statement met the unique index of open rows

vars == <<now, rows, call, clashed>>

NoCall == [op |-> "none", level |-> "none", features |-> {}, length |-> 0, tx |-> 0]
Ends(c) == call' = [call EXCEPT ![c] = NoCall]

-----------------------------------------------------------------------------
(* Rows *)

\* ACTIVE_BLOCK at a time.
Active(f, time) == rows[f] # None /\ rows[f].until > time

\* A mutant: rows that ended on their own stay open.
CloseNothing(time) == rows
\* closeEnded(): what stays open.
CloseEnded(time) == [f \in Features |-> IF Active(f, time) THEN rows[f] ELSE None]

\* A mutant: who may pause may also replace or lift.
TouchesAll(c) == TRUE
\* An officer changes only what an officer set.
Touches(c) ==
  \A f \in call[c].features :
    Active(f, call[c].tx) /\ rows[f].level = "manager" => call[c].level = "manager"

-----------------------------------------------------------------------------
(* block() and lift() *)

\* Before the transaction: the level, the features, and who the person is at Discord.
MayPause(level, features, person) ==
  /\ person # "manager"
  /\ level = "moderator" => person # "staff" /\ features \cap ManagerOnly = {}
\* Then the transaction begins, and waits for the lock.
Begins(c, op, level, features, length) ==
  /\ call[c] = NoCall /\ features # {}
  /\ \E person \in {"member", "staff", "manager", "gone"} :
       /\ op = "block" => MayPause(level, features, person)
       /\ op = "lift" => person = "gone" /\ length = Forever
       /\ call' = [call EXCEPT ![c] = [op |-> op, level |-> level, features |-> features,
                                       length |-> length, tx |-> now]]
  /\ UNCHANGED <<now, rows, clashed>>

\* Bound: nobody waits as long as the shortest pause lasts.
Waited(c) == \A n \in Lengths : now - call[c].tx < n
Until(c) == IF call[c].length = Forever THEN Forever ELSE call[c].tx + call[c].length

\* What is active is lifted, and the new row is inserted beside what is still open.
Blocks(c) ==
  LET time == call[c].tx
      table == CloseEnded(time)
      New(f) == [level |-> call[c].level, until |-> Until(c)]
  IN  /\ call[c].op = "block" /\ Waited(c) /\ Touches(c)
      /\ IF \E f \in call[c].features : table[f] # None /\ ~Active(f, time)
         THEN clashed' = TRUE /\ rows' = rows
         ELSE /\ rows' = [f \in Features |-> IF f \in call[c].features THEN New(f) ELSE table[f]]
              /\ clashed' = clashed
      /\ Ends(c) /\ UNCHANGED now
Lifts(c) ==
  LET time == call[c].tx
      table == CloseEnded(time)
  IN  /\ call[c].op = "lift" /\ Waited(c) /\ Touches(c)
      /\ rows' = [f \in Features |-> IF f \in call[c].features /\ Active(f, time) THEN None ELSE table[f]]
      /\ Ends(c) /\ UNCHANGED <<now, clashed>>
\* Refused, stopped or failed: everything is rolled back.
RollsBack(c) == call[c] # NoCall /\ Ends(c) /\ UNCHANGED <<now, rows, clashed>>

-----------------------------------------------------------------------------
Tick == now < Horizon /\ now' = now + 1 /\ UNCHANGED <<rows, call, clashed>>

Init ==
  /\ now = 0 /\ rows = [f \in Features |-> None]
  /\ call = [c \in Calls |-> NoCall] /\ clashed = FALSE
Next ==
  \/ \E c \in Calls :
       \/ \E op \in {"block", "lift"}, level \in {"manager", "moderator"}, features \in SUBSET Features,
             length \in Lengths \cup {Forever} : Begins(c, op, level, features, length)
       \/ Blocks(c) \/ Lifts(c) \/ RollsBack(c)
  \/ Tick
Spec == Init /\ [][Next]_vars

-----------------------------------------------------------------------------
\* Whatever calls and ends race: no call meets the table's index; a manager's pause, and
\* any of a feature only managers may pause, lasts until its end unless a manager's call
\* changes it; and a pause that someone else set meanwhile is not taken for expired.
PausesHold ==
  /\ []~clashed
  /\ [][\A f \in Features :
          Active(f, now) /\ rows'[f] # rows[f] =>
            \E c \in Calls : /\ f \in call[c].features /\ call'[c] = NoCall
                             /\ rows[f].level = "manager" \/ f \in ManagerOnly => call[c].level = "manager"]_vars
=============================================================================
