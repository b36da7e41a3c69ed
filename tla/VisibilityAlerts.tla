---------------------------- MODULE VisibilityAlerts ----------------------------
(***************************************************************************)
(* The officer alert about missing channel overrides                         *)
(* (src/application/visibility-alerts.ts), for one server: the scheduler's    *)
(* passes, the step under the server's lock, the alert and recovery jobs and  *)
(* the 24-hour window.                                                       *)
(*                                                                         *)
(* Episodes are numbered; a job row created since the newest episode began    *)
(* carries its number.  missing stands for a count above 0                    *)
(* (Visibility.MissingCount) and changes as the server does.  The records     *)
(* cached for ten minutes are left out: the step reads them again.            *)
(***************************************************************************)
EXTENDS Naturals, FiniteSets

CONSTANTS
  MaxChanges,  \* bound: changes of the server, restarts and failed sends
  Blips        \* the channel may be unset and set again between two passes

VARIABLES
  missing,   \* the count is above 0
  channel,   \* an officer notifications channel is set
  active,    \* the server is active
  episode,   \* number of the newest episode
  open,      \* the newest episode audit row opened it
  alert,     \* the active row of the alert's key
  ended,     \* the rows of the alert's key that ended
  recovery,  \* the active row of the recovery line's key
  recent,    \* an alert posted within 24 hours
  known,     \* the process's episode cache
  streak,    \* the process's streak
  looked,    \* a pass ran since the settings changed
  pass,      \* the step a pass has decided on
  spent,
  told       \* history: the officers' newest line

vars == <<missing, channel, active, episode, open, alert, ended, recovery, recent, known, streak, looked, pass, spent, told>>
server == <<missing, channel, active>>
jobs == <<alert, ended, recovery, recent>>
process == <<known, streak, looked, pass>>

\* late: sending when a newer episode opened.
NoRow == [status |-> "none", ep |-> 0, wait |-> FALSE, again |-> FALSE, late |-> FALSE]
Row(wait) == [status |-> "queued", ep |-> episode', wait |-> wait, again |-> FALSE, late |-> FALSE]
Unknown == [loaded |-> FALSE, opened |-> 0, queued |-> FALSE]
Cached(opened, queued) == [loaded |-> TRUE, opened |-> opened, queued |-> queued]
NoStreak == [side |-> FALSE, passes |-> 0]
Idle == [step |-> "idle", seen |-> FALSE]
Confirm == 2   \* VISIBILITY_CONFIRM_PASSES

\* openedEpisode(): the open episode's number, or 0.
Opened == IF open THEN episode ELSE 0
Unstarted(row) == row.status \in {"queued", "blocked"}
\* closeUnstarted()
Withdrawn == IF Unstarted(alert) THEN {[ep |-> alert.ep, how |-> "withdrawn"]} ELSE {}
RecoveryWithdrawn == IF Unstarted(recovery) THEN NoRow
                     ELSE [recovery EXCEPT !.late = recovery.status = "running"]

-----------------------------------------------------------------------------
(* ensureAlert(), for episode e *)

\* A mutant: a skipped row counts too.
CurrentSkipped(e) == (alert.status # "none" /\ alert.ep >= e) \/ \E row \in ended : row.ep >= e
\* This episode's alert, unless it was skipped because no channel was set.
Current(e) ==
  \/ alert.status # "none" /\ alert.ep >= e
  \/ \E row \in ended : row.ep >= e /\ row.how # "skipped"
Queues(e) == ~Current(e) /\ alert.status # "running"
EnsureAlert(e) ==
  /\ alert' = IF Queues(e) THEN Row(recent) ELSE alert
  /\ ended' = IF Queues(e) THEN ended \cup Withdrawn ELSE ended
AlertInPlace(e) == Current(e) \/ alert.status # "running"

-----------------------------------------------------------------------------
(* guild(): a pass reads the count and moves the streak *)

PassReads ==
  LET before == IF known.loaded THEN known ELSE Cached(Opened, FALSE)
      now == Cached(before.opened, before.queued /\ channel)
      passes == IF streak.side = missing /\ streak.passes > 0 THEN streak.passes + 1 ELSE 1
      confirmed == passes >= Confirm
      step == IF now.opened = 0 THEN IF missing /\ confirmed THEN "open" ELSE "idle"
              ELSE IF ~missing THEN IF confirmed THEN "restore" ELSE "idle"
              ELSE IF now.queued \/ ~channel THEN "idle" ELSE "ensure"
  IN  /\ pass = Idle /\ looked' = TRUE
      /\ IF active
         THEN /\ known' = now
              /\ streak' = [side |-> missing, passes |-> IF confirmed THEN Confirm ELSE passes]
              /\ pass' = IF step = "idle" THEN Idle ELSE [step |-> step, seen |-> missing]
         ELSE known' = Unknown /\ streak' = NoStreak /\ UNCHANGED pass
      /\ UNCHANGED <<server, episode, open, jobs, spent, told>>

-----------------------------------------------------------------------------
(* step(): one transaction under the server's lock *)

AlertQueued == known.opened = Opened /\ open /\ known.queued
Other ==      \* the side changed since the pass read it
  /\ missing # pass.seen
  /\ known' = Cached(Opened, AlertQueued) /\ streak' = [side |-> missing, passes |-> 1]
  /\ UNCHANGED <<episode, open, jobs>>
Open ==
  /\ missing = pass.seen /\ ~open /\ missing /\ pass.step = "open"
  /\ episode' = episode + 1 /\ open' = TRUE
  /\ recovery' = RecoveryWithdrawn
  /\ IF channel THEN EnsureAlert(episode + 1) ELSE UNCHANGED <<alert, ended>>
  /\ known' = Cached(episode + 1, channel /\ AlertInPlace(episode + 1))
  /\ UNCHANGED <<recent, streak>>
\* An alert posted, or posting, in this episode earns the recovery line.
Earned == \/ alert.status = "running" /\ alert.ep >= episode
          \/ \E row \in ended : row.ep >= episode /\ row.how = "posted"
\* enqueue(): a running row runs again.
RecoveryAsked ==
  IF recovery.status = "running" THEN [recovery EXCEPT !.again = TRUE, !.late = FALSE]
  ELSE IF Unstarted(recovery) THEN [recovery EXCEPT !.status = "queued", !.late = FALSE] ELSE Row(FALSE)
Restore ==
  /\ missing = pass.seen /\ open /\ ~missing /\ pass.step = "restore"
  /\ open' = FALSE /\ UNCHANGED episode
  /\ alert' = IF Unstarted(alert) THEN NoRow ELSE alert
  /\ ended' = ended \cup Withdrawn
  /\ recovery' = IF Earned THEN RecoveryAsked ELSE recovery
  /\ known' = Cached(0, FALSE)
  /\ UNCHANGED <<recent, streak>>
Owed == open /\ missing /\ ~AlertQueued /\ channel
Ensure ==
  /\ missing = pass.seen /\ Owed
  /\ recovery' = RecoveryWithdrawn
  /\ UNCHANGED <<episode, open, recent, streak>>
  /\ EnsureAlert(episode)
  /\ known' = Cached(episode, AlertInPlace(episode))
Nothing ==
  /\ missing = pass.seen /\ ~Owed
  /\ ~(~open /\ missing /\ pass.step = "open") /\ ~(open /\ ~missing /\ pass.step = "restore")
  /\ known' = Cached(Opened, AlertQueued) /\ UNCHANGED <<episode, open, jobs, streak>>
Step ==
  /\ pass # Idle /\ active
  /\ Other \/ Open \/ Restore \/ Ensure \/ Nothing
  /\ pass' = Idle /\ UNCHANGED <<server, looked, spent, told>>
\* Another session holds the lock, or the server left.
StepSkipped ==
  /\ pass # Idle /\ pass' = Idle /\ (active => spent < MaxChanges)
  /\ spent' = IF active THEN spent + 1 ELSE spent
  /\ UNCHANGED <<server, episode, open, jobs, known, streak, looked, told>>

-----------------------------------------------------------------------------
(* The queue and the officer.notify handler *)

ClaimAlert ==
  /\ active /\ alert.status = "queued" /\ (alert.wait => ~recent)
  /\ alert' = [alert EXCEPT !.status = "running"]
  /\ UNCHANGED <<server, episode, open, ended, recovery, recent, process, spent, told>>
\* Posted, or skipped when no channel is set.
AlertEnds ==
  /\ alert.status = "running"
  /\ alert' = NoRow
  /\ ended' = ended \cup {[ep |-> alert.ep, how |-> IF channel THEN "posted" ELSE "skipped"]}
  /\ recent' = (recent \/ channel)
  /\ told' = IF channel THEN "alert" ELSE told
  /\ UNCHANGED <<server, episode, open, recovery, process, spent>>
ClaimRecovery ==
  /\ active /\ recovery.status = "queued"
  /\ recovery' = [recovery EXCEPT !.status = "running"]
  /\ UNCHANGED <<server, episode, open, alert, ended, recent, process, spent, told>>
RecoveryEnds ==
  /\ recovery.status = "running"
  /\ recovery' = IF recovery.again THEN [recovery EXCEPT !.status = "queued", !.again = FALSE] ELSE NoRow
  /\ told' = IF channel THEN "restored" ELSE told
  /\ UNCHANGED <<server, episode, open, alert, ended, recent, process, spent>>
\* A failed send is retried and a missing permission parks the row; either way a line
\* asked for meanwhile is this row's next attempt.
SendFails ==
  /\ spent < MaxChanges /\ spent' = spent + 1
  /\ \E status \in {"queued", "blocked"} :
       \/ /\ alert.status = "running" /\ UNCHANGED recovery
          /\ alert' = [alert EXCEPT !.status = status]
       \/ /\ recovery.status = "running" /\ UNCHANGED alert
          /\ recovery' = [recovery EXCEPT !.status = status, !.again = FALSE]
  /\ UNCHANGED <<server, episode, open, ended, recent, process, told>>
\* The eighth failed attempt ends the row, and so does a channel that is gone: nothing is
\* posted, and a line asked for meanwhile goes with it.
SendGivesUp ==
  /\ spent < MaxChanges /\ spent' = spent + 1
  /\ \/ /\ alert.status = "running" /\ alert' = NoRow /\ UNCHANGED recovery
        /\ ended' = ended \cup {[ep |-> alert.ep, how |-> "lost"]}
     \/ recovery.status = "running" /\ recovery' = NoRow /\ UNCHANGED <<alert, ended>>
  /\ UNCHANGED <<server, episode, open, recent, process, told>>
\* requeueParked() by a settings command or a run of /setup overrides.
Requeue ==
  /\ "blocked" \in {alert.status, recovery.status}
  /\ alert' = IF alert.status = "blocked" THEN [alert EXCEPT !.status = "queued"] ELSE alert
  /\ recovery' = IF recovery.status = "blocked" THEN [recovery EXCEPT !.status = "queued"] ELSE recovery
  /\ UNCHANGED <<server, episode, open, ended, recent, process, spent, told>>
WindowEnds ==
  /\ recent /\ recent' = FALSE
  /\ UNCHANGED <<server, episode, open, alert, ended, recovery, process, spent, told>>

-----------------------------------------------------------------------------
(* The server and the process *)

Changes ==
  /\ spent < MaxChanges /\ spent' = spent + 1
  /\ UNCHANGED <<episode, open, told>>
ChannelsChange == Changes /\ missing' = ~missing /\ UNCHANGED <<channel, active, jobs, process>>
SettingsChange ==
  /\ Blips \/ looked
  /\ Changes /\ channel' = ~channel /\ looked' = FALSE
  /\ UNCHANGED <<missing, active, jobs, known, streak, pass>>
LeaveOrReturn == Changes /\ active' = ~active /\ UNCHANGED <<missing, channel, jobs, process>>
Restart ==
  /\ Changes /\ known' = Unknown /\ streak' = NoStreak /\ pass' = Idle
  /\ UNCHANGED <<server, jobs, looked>>

-----------------------------------------------------------------------------
Init ==
  /\ missing = FALSE /\ channel \in BOOLEAN /\ active = TRUE /\ episode = 0 /\ open = FALSE
  /\ alert = NoRow /\ ended = {} /\ recovery = NoRow /\ recent = FALSE
  /\ known = Unknown /\ streak = NoStreak /\ looked = TRUE /\ pass = Idle /\ spent = 0 /\ told = "none"

Next ==
  \/ PassReads \/ Step \/ StepSkipped
  \/ ClaimAlert \/ AlertEnds \/ ClaimRecovery \/ RecoveryEnds
  \/ SendFails \/ SendGivesUp \/ Requeue \/ WindowEnds
  \/ ChannelsChange \/ SettingsChange \/ LeaveOrReturn \/ Restart

\* The scheduler runs a pass every 30 s, workers claim and end what they claimed,
\* and the day ends.
Fairness ==
  /\ WF_vars(PassReads) /\ WF_vars(Step) /\ WF_vars(ClaimAlert) /\ WF_vars(AlertEnds)
  /\ WF_vars(ClaimRecovery) /\ WF_vars(RecoveryEnds) /\ WF_vars(WindowEnds)
Spec == Init /\ [][Next]_vars /\ Fairness

-----------------------------------------------------------------------------
\* "Complete again" never waits to be posted while an episode is open: opening one
\* withdraws the line, a parked one too, so that no retry and no requeue brings it
\* back. One being sent at that moment is left alone, and may be retried.
NoFalseAllClear == open /\ Unstarted(recovery) => recovery.late

\* While channels stay missing with a notifications channel set, the officers get
\* this episode's alert, also when the alert came due while no channel was set, and after
\* restarts; or it waits, blocked, for a permission, or its row failed for good, which
\* ensureAlert() counts as the episode's alert like any other that was not skipped.
\* With Blips the process keeps believing in an alert that was skipped between two passes.
EpisodeIsTold ==
  <>[](missing /\ channel /\ active) =>
    <>(open /\ (\/ alert.status = "blocked"
                \/ \E row \in ended : row.ep = episode /\ row.how \in {"posted", "lost"}))
=============================================================================
