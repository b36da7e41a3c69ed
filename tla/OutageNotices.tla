---------------------------- MODULE OutageNotices ----------------------------
(***************************************************************************)
(* The officer notices about an FC whose roster cannot be read: degraded()  *)
(* and recovered() in application/synchronization.ts, over the rows of the  *)
(* jobs table that are their only memory.                                   *)
(*                                                                         *)
(* One FC and one guild; other guilds may keep the FC's roster refreshed     *)
(* while this one is unlinked or inactive.  The FC lock and its cooldown     *)
(* keep attempts apart, so an attempt is one step at a tick of its own.  A   *)
(* row's status moves as in JobQueue, seen from the notice it carries.       *)
(***************************************************************************)
EXTENDS Integers, Sequences, FiniteSets

CONSTANTS
  Hold,       \* DEGRADED_HOLD_SECONDS, in ticks
  Day,        \* DEGRADED_REPEAT_SECONDS
  Horizon     \* bound: the clock stops here

ConstantsOK ==
  /\ Hold \in Nat /\ Day \in Nat \ {0} /\ Horizon \in Nat

VARIABLES
  now,
  tried,       \* last_attempt_at
  since,       \* last_successful_roster_at; Never before the first one
  failing,     \* last_error is set by a failure other than a wait
  guild,       \* the guild's row: linked to the FC, and active
  notices,     \* the degraded notices' rows, oldest first
  recoveries   \* the recovery lines' rows, oldest first

vars == <<now, tried, since, failing, guild, notices, recoveries>>

Never == -1
Pending == {"queued", "running", "blocked", "disabled"}
Unstarted == {"queued", "blocked", "disabled"}
Statuses == Pending \cup {"succeeded", "failed"}

\* outage and late are history: the outage a notice is about, and whether it
\* was being sent when that outage ended.
Notice == [created : 0..Horizon, due : Nat, status : Statuses, done : -1..Horizon,
           posted : BOOLEAN, outage : -1..Horizon, late : BOOLEAN]
Recovery == [outage : -1..Horizon, status : {"queued", "running", "succeeded", "failed"},
             again : BOOLEAN]

Rows == 1..Len(notices)
Put(i, row) == notices' = [notices EXCEPT ![i] = row]
Finished(row) == [row EXCEPT !.status = "succeeded", !.done = now]

-----------------------------------------------------------------------------
(* Roster attempts *)

Attempt == now > tried /\ tried' = now
Served == guild.linked /\ guild.active

\* Mutant: only notices that were finished count.
ToldByFinished(row) ==
  /\ since # Never => row.created > since
  /\ row.done # Never /\ row.done > now - Day

\* The query of degraded(): this row says that the officers know, or soon will.
Told(row) ==
  \/ row.status \in Pending
  \/ /\ since # Never => row.created > since
     /\ (IF row.done # Never THEN row.done ELSE row.created) > now - Day

\* A failure that is not a wait: last_error, then degraded().
Fails ==
  /\ Attempt
  /\ failing' = TRUE
  /\ notices' =
       IF ~Served \/ \E i \in Rows : Told(notices[i]) THEN notices
       ELSE Append(notices, [created |-> now, due |-> now + Hold, status |-> "queued",
                             done |-> Never, posted |-> FALSE, outage |-> since,
                             late |-> FALSE])
  /\ UNCHANGED <<now, since, guild, recoveries>>

\* Throttled or busy: last_error only.  So does a crash before degraded().
WaitsOrDies ==
  /\ Attempt
  /\ failing' = TRUE
  /\ UNCHANGED <<now, since, guild, notices, recoveries>>

\* closeUnstarted() of the guild's degraded notices.
Closed(row) ==
  CASE row.status \in Unstarted -> Finished(row)
    [] row.status = "running" -> [row EXCEPT !.late = TRUE]
    [] OTHER -> row

\* Mutant: only a guild the bot serves has its notices closed.
ClosedAllServed == [i \in Rows |-> IF Served THEN Closed(notices[i]) ELSE notices[i]]

\* A guild the bot was removed from is linked still, and its notices are closed.
ClosedAll == [i \in Rows |-> IF guild.linked THEN Closed(notices[i]) ELSE notices[i]]

\* Mutant: completion places a notice in an outage.
HeardByCompletion(row) ==
  /\ since # Never => row.done > since \/ row.created > since
  /\ row.posted \/ row.status = "running"

\* The query of recovered(): this outage's notice was posted, or is being sent.
Heard(row) ==
  /\ since # Never => row.created > since
  /\ row.posted \/ row.status = "running"

\* enqueue() of the recovery line: an active row is asked for again.
RecoveryAsked ==
  LET last == Len(recoveries)
  IN IF last > 0 /\ recoveries[last].status = "queued" THEN recoveries
     ELSE IF last > 0 /\ recoveries[last].status = "running"
          THEN [recoveries EXCEPT ![last].again = TRUE]
     ELSE Append(recoveries, [outage |-> since, status |-> "queued", again |-> FALSE])

\* The roster is accepted; after a failure recovered() runs in the transaction.
Accepted ==
  /\ Attempt
  /\ since' = now /\ failing' = FALSE
  /\ IF failing
     THEN /\ notices' = ClosedAll
          /\ recoveries' = IF Served /\ \E i \in Rows : Heard(ClosedAll[i])
                           THEN RecoveryAsked ELSE recoveries
     ELSE UNCHANGED <<notices, recoveries>>
  /\ UNCHANGED <<now, guild>>

-----------------------------------------------------------------------------
(* The guild *)

\* unlinkCompany() closes the waiting notices; linking again changes nothing.
Unlink ==
  /\ guild.linked
  /\ guild' = [guild EXCEPT !.linked = FALSE]
  /\ notices' = ClosedAll
  /\ UNCHANGED <<now, tried, since, failing, recoveries>>
LinkAgain ==
  /\ ~guild.linked
  /\ guild' = [guild EXCEPT !.linked = TRUE]
  /\ UNCHANGED <<now, tried, since, failing, notices, recoveries>>
LeaveOrReturn ==
  /\ guild' = [guild EXCEPT !.active = ~@]
  /\ UNCHANGED <<now, tried, since, failing, notices, recoveries>>

-----------------------------------------------------------------------------
(* Delivery *)

Send(i) ==
  /\ guild.active
  /\ notices[i].status = "queued" /\ notices[i].due <= now
  /\ Put(i, [notices[i] EXCEPT !.status = "running"])
  /\ UNCHANGED <<now, tried, since, failing, guild, recoveries>>

\* The message ID and the result; without a notifications channel only the result.
Delivered(i) ==
  /\ notices[i].status = "running"
  /\ \E posted \in BOOLEAN : Put(i, [Finished(notices[i]) EXCEPT !.posted = posted])
  /\ UNCHANGED <<now, tried, since, failing, guild, recoveries>>

\* A failed send or a dead worker: another attempt, a missing permission, paused
\* effects, or the end of its attempts.
Undelivered(i) ==
  /\ notices[i].status = "running"
  /\ \E status \in {"queued", "blocked", "disabled", "failed"} :
       Put(i, [notices[i] EXCEPT !.status = status, !.due = now,
                                 !.done = IF status = "failed" THEN now ELSE Never])
  /\ UNCHANGED <<now, tried, since, failing, guild, recoveries>>

\* requeueParked() and the sweep of blocked rows.
Resume(i) ==
  /\ notices[i].status \in {"blocked", "disabled"}
  /\ Put(i, [notices[i] EXCEPT !.status = "queued"])
  /\ UNCHANGED <<now, tried, since, failing, guild, recoveries>>

\* A recovery line is posted, or given up, or was asked for again meanwhile.
DeliverRecovery ==
  LET last == Len(recoveries)
      row == recoveries[last]
  IN /\ last > 0 /\ guild.active
     /\ \/ /\ row.status = "queued"
           /\ recoveries' = [recoveries EXCEPT ![last].status = "running"]
        \/ /\ row.status = "running"
           /\ \E status \in {"succeeded", "failed", "queued"} :
                recoveries' = [recoveries EXCEPT ![last].again = FALSE,
                  ![last].status = IF row.again THEN "queued" ELSE status]
     /\ UNCHANGED <<now, tried, since, failing, guild, notices>>

Tick ==
  /\ now < Horizon
  /\ now' = now + 1
  /\ UNCHANGED <<tried, since, failing, guild, notices, recoveries>>

-----------------------------------------------------------------------------
Init ==
  /\ now = 0 /\ tried = Never /\ since = Never /\ failing = FALSE
  /\ guild = [linked |-> TRUE, active |-> TRUE]
  /\ notices = <<>> /\ recoveries = <<>>

Next ==
  \/ Fails \/ WaitsOrDies \/ Accepted
  \/ Unlink \/ LinkAgain \/ LeaveOrReturn
  \/ \E i \in Rows : Send(i) \/ Delivered(i) \/ Undelivered(i) \/ Resume(i)
  \/ DeliverRecovery \/ Tick

Spec == Init /\ [][Next]_vars

-----------------------------------------------------------------------------
(* Properties *)

\* Types; only the newest recovery row is still active.
TypeOK ==
  /\ now \in 0..Horizon /\ {tried, since} \subseteq -1..Horizon /\ failing \in BOOLEAN
  /\ guild \in [linked : BOOLEAN, active : BOOLEAN]
  /\ \A i \in Rows : notices[i] \in Notice
  /\ \A i \in 1..Len(recoveries) : recoveries[i] \in Recovery
  /\ \A i \in 1..(Len(recoveries) - 1) : recoveries[i].status \in {"succeeded", "failed"}

\* One outage, however often its reads fail, gets a second notice no sooner than
\* a day after the first one was finished, and never two that are pending.
OneNoticeADay ==
  \A i, j \in Rows : i < j /\ notices[i].outage = notices[j].outage =>
    notices[i].done # Never /\ notices[j].created >= notices[i].done + Day

\* A notice is not posted once its outage is over, however long it was parked,
\* unless it was being sent when the outage ended.
NoStaleNotice ==
  [][\A i \in Rows : notices'[i].posted /\ ~notices[i].posted
       => notices[i].outage = since \/ notices[i].late]_vars

\* A recovery line is about an outage that officers heard of, or would have if
\* the send in flight when it ended had succeeded: a notice that was being sent
\* when its outage ended does not make the next, unannounced one end aloud.
RecoveryWasAnnounced ==
  \A i \in 1..Len(recoveries) : \E n \in Rows :
    /\ notices[n].outage = recoveries[i].outage
    /\ notices[n].posted \/ notices[n].late

=============================================================================
