----------------------------- MODULE ParkedWork -----------------------------
(***************************************************************************)
(* Returning parked work to the queue: requeueParked of src/jobs/queue.ts,  *)
(* run by activation, /config changes and a restart, beside the queue and   *)
(* its workers.  The pass is four READ COMMITTED statements in one          *)
(* transaction: each sees what others committed before it, its own writes   *)
(* become visible at the commit, and the rows it wrote stay locked until    *)
(* then.  A sync run tracks rows by links (sync_run_jobs), which the pass   *)
(* moves from a closed row to the row that now holds its key.               *)
(***************************************************************************)
EXTENDS JobQueue

CONSTANTS
  Resumes,          \* the sets of parked statuses callers requeue
  RequeueAttempts   \* REQUEUE_ATTEMPTS

ParkedConstantsOK ==
  Resumes \subseteq SUBSET {"disabled", "blocked"} /\ RequeueAttempts \in Nat \ {0}

VARIABLES
  pass,     \* the running pass: its last statement, its filter and its rows
  links,    \* the rows that the one sync run of the instance tracks
  retried   \* history: the keys of rows an operator retried

parkedVars == <<vars, pass, links, retried>>

NoPass == [stage |-> "none", statuses |-> {}, losers |-> {}, survivors |-> {},
           gained |-> {}, tries |-> 0]

Pass == [stage : {"none", "begun", "superseded", "requeued", "linked"},
         statuses : SUBSET {"disabled", "blocked"}, losers : SUBSET Ids,
         survivors : SUBSET Ids, gained : SUBSET Ids, tries : 0..(RequeueAttempts - 1)]

-----------------------------------------------------------------------------
(* What one statement of the pass sees *)

Parked(r) == jobs[r].status \in pass.statuses /\ jobs[r].key \in GuildKeys
SameKey(r, s) == jobs[r].key = jobs[s].key

\* Mutant: the oldest parked row of a key survives.
LosesToOlder(r) ==
  Parked(r) /\ \E s \in Ids \ {r} :
    SameKey(r, s) /\ \/ jobs[s].status \in Active \ pass.statuses
                     \/ Parked(s) /\ s < r

\* An active row the pass does not requeue, or a newer parked row, wins the key.
Loses(r) ==
  Parked(r) /\ \E s \in Ids \ {r} :
    SameKey(r, s) /\ \/ jobs[s].status \in Active \ pass.statuses
                     \/ Parked(s) /\ s > r

\* The pass's own view of which rows are active.
ActiveInPass(r) ==
  r \in pass.survivors \/ (r \notin pass.losers /\ jobs[r].status \in Active)

Tracked == pass.losers \cap links
HoldersOf(l) == {h \in Ids : SameKey(h, l) /\ ActiveInPass(h)}

\* Rows and index entries that others must wait for until the pass ends.
Locked == pass.losers \cup pass.survivors
Waits ==
  \A r \in Ids :
    /\ r \in Locked => jobs'[r] = jobs[r]
    /\ jobs[r].status \notin Active /\ jobs'[r].status \in Active
         => \A s \in pass.survivors : jobs'[r].key # jobs[s].key

-----------------------------------------------------------------------------
(* requeueParked *)

BeginPass(statuses) ==
  /\ pass.stage = "none"
  /\ \E r \in Ids : jobs[r].status \in statuses
  /\ pass' = [NoPass EXCEPT !.stage = "begun", !.statuses = statuses]
  /\ UNCHANGED <<vars, links, retried>>

\* First statement: the losers close.
Supersede ==
  /\ pass.stage = "begun"
  /\ pass' = [pass EXCEPT !.stage = "superseded", !.losers = {r \in Ids : Loses(r)}]
  /\ UNCHANGED <<vars, links, retried>>

\* Second statement: what is parked now is queued, unless the index refuses.
Remaining == {r \in Ids : Parked(r)} \ pass.losers
IndexRefuses ==
  \E r \in Remaining, s \in Ids :
    r # s /\ SameKey(r, s) /\ (s \in Remaining \/ (jobs[s].status \in Active /\ s \notin pass.losers))

Requeue ==
  /\ pass.stage = "superseded"
  /\ ~IndexRefuses
  /\ pass' = [pass EXCEPT !.stage = "requeued", !.survivors = Remaining]
  /\ UNCHANGED <<vars, links, retried>>

\* Mutant: one attempt too many.
RequeueConflictLate ==
  /\ pass.stage = "superseded"
  /\ IndexRefuses
  /\ pass' = IF pass.tries >= RequeueAttempts THEN NoPass
             ELSE [NoPass EXCEPT !.stage = "begun", !.statuses = pass.statuses,
                                 !.tries = pass.tries + 1]
  /\ UNCHANGED <<vars, links, retried>>

\* The conflict rolls the savepoint back; the last attempt fails the caller.
RequeueConflict ==
  /\ pass.stage = "superseded"
  /\ IndexRefuses
  /\ pass' = IF pass.tries + 1 >= RequeueAttempts THEN NoPass
             ELSE [NoPass EXCEPT !.stage = "begun", !.statuses = pass.statuses,
                                 !.tries = pass.tries + 1]
  /\ UNCHANGED <<vars, links, retried>>

\* Third statement: the run tracks the row that now carries the key.
InsertLinks ==
  /\ pass.stage = "requeued"
  /\ pass' = [pass EXCEPT !.stage = "linked", !.gained = UNION {HoldersOf(l) : l \in Tracked}]
  /\ UNCHANGED <<vars, links, retried>>

\* Fourth statement, and the commit that makes the pass visible.
ClosedRow(r) ==
  [jobs[r] EXCEPT !.status = "succeeded", !.lease = "none", !.ending = "superseded"]
ResumedRow(r) == [jobs[r] EXCEPT !.status = "queued", !.due = TRUE, !.attempts = 0]

DeleteLinks ==
  /\ pass.stage = "linked"
  /\ jobs' = [r \in Ids |-> IF r \in pass.losers THEN ClosedRow(r)
                            ELSE IF r \in pass.survivors THEN ResumedRow(r)
                            ELSE jobs[r]]
  /\ links' = (links \cup pass.gained) \ {l \in Tracked : HoldersOf(l) # {}}
  /\ pass' = NoPass
  /\ UNCHANGED <<worker, asked, guildActive, faults, retried>>

\* Any later failure of the caller's transaction rolls the pass back.
Abort ==
  /\ pass.stage # "none"
  /\ pass' = NoPass
  /\ UNCHANGED <<vars, links, retried>>

-----------------------------------------------------------------------------
(* The queue beside a pass *)

\* Synchronization links a row to its run in the transaction that enqueues it.
TrackedEnqueue(k) ==
  /\ Enqueue(k)
  /\ links' = links \cup {r \in Ids : jobs'[r].payload # jobs[r].payload}

QueueStep ==
  \/ \E k \in Keys : Produce(k)
  \/ \E w \in Workers : Progress(w) \/ Fault(w)
  \/ \E w \in Workers, r \in Ids : Claim(w, r) \/ ClaimLost(w, r)
  \/ \E r \in Ids : Clock(r) \/ SweepBlocked(r)
  \/ GuildLeavesOrReturns

BesidePass ==
  /\ \/ QueueStep /\ UNCHANGED <<links, retried>>
     \/ \E k \in Keys : TrackedEnqueue(k) /\ retried' = retried
     \/ \E r \in Ids : RetryJob(r) /\ retried' = retried \cup {jobs[r].key} /\ links' = links
  /\ Waits
  /\ UNCHANGED pass

\* The process that runs the pass and the pool dies: the pass is rolled back.
CrashAll == Crash /\ pass' = NoPass /\ UNCHANGED <<links, retried>>

PassStep ==
  \/ \E statuses \in Resumes : BeginPass(statuses)
  \/ Supersede \/ Requeue \/ RequeueConflict \/ InsertLinks \/ DeleteLinks \/ Abort

ParkedInit == Init /\ pass = NoPass /\ links = {} /\ retried = {}
ParkedNext == BesidePass \/ PassStep \/ CrashAll
ParkedSpec == ParkedInit /\ [][ParkedNext]_parkedVars

-----------------------------------------------------------------------------
(* Properties *)

\* The tables, the pass and the links have their types.
ParkedTypeOK ==
  /\ TypeOK
  /\ pass \in Pass
  /\ links \subseteq Ids /\ retried \subseteq Keys

\* A row closed as superseded leaves its key to a row at least as new, so the
\* newest payload is run: enqueues between the statements of a pass never close
\* the newest row.  This is promised until an operator retries a row of the key:
\* retryJob() revives a row older than one that is parked, and a pass goes by
\* the rows' ages.  It is promised while no answer is lost: a completion whose answer is
\* lost is followed by the failure update, which revives a row that has ended.
SupersededByNewer ==
  \A r \in Ids : jobs[r].ending = "superseded" /\ jobs[r].key \notin retried =>
    \E s \in Ids \ {r} : SameKey(r, s) /\ jobs[s].status # "absent"
                       /\ jobs[s].payload >= jobs[r].payload

\* A run never loses track of work without gaining the row that holds its key.
MovedLinkGainsHolder ==
  [][\A l \in links \ links' : \E h \in links' : SameKey(h, l)]_parkedVars

=============================================================================
