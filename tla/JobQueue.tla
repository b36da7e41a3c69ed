------------------------------ MODULE JobQueue ------------------------------
(***************************************************************************)
(* The durable job queue: the rows of the jobs table, the statements that  *)
(* insert, coalesce, claim, publish, fail, close and retry them, and the   *)
(* pool of workers of src/jobs/queue.ts that runs them.                    *)
(*                                                                         *)
(* An action is one SQL statement (or one transaction whose statements     *)
(* cannot be told apart from outside); what a worker does between two      *)
(* statements is a worker's program counter.  Time is abstract: a row is   *)
(* due or not yet, a lease is live or expired.  A payload is the number of *)
(* the input that wrote it, so "the newest input" is a comparison.  The    *)
(* token of a row is the worker that claimed it: the code draws a fresh    *)
(* UUID per claim, and a worker never holds two claims at once.            *)
(***************************************************************************)
EXTENDS Naturals

CONSTANTS
  Keys,         \* deduplication keys
  GuildKeys,    \* keys whose rows carry a guild_id
  Fenced,       \* keys of a "reconcile." kind, whose guard compares generations
  Notices,      \* keys of notices, which can be withdrawn or asked for again
  Workers,      \* the pool started by Queue.start
  NoWorker,     \* lease_token IS NULL
  Errors,       \* error codes a dispatch may end with, other than the guard's two
  MaxJobs,      \* bound: rows ever inserted
  MaxInputs,    \* bound: inputs per key
  MaxAttempts,  \* MAX_ATTEMPTS
  MaxFaults     \* bound: crashes, stalls and lost database calls

ASSUME KeyAssumption ==
  /\ Keys # {} /\ GuildKeys \subseteq Keys
  /\ Fenced \subseteq GuildKeys /\ Notices \subseteq GuildKeys
ASSUME WorkerAssumption == NoWorker \notin Workers
ASSUME BoundAssumption ==
  /\ MaxJobs \in Nat /\ MaxInputs \in Nat /\ MaxFaults \in Nat
  /\ MaxAttempts \in Nat \ {0}
ASSUME ErrorAssumption ==
  Errors \subseteq {"waiting", "transient", "blocked", "disabled", "gone", "invalid"}

VARIABLES
  jobs,         \* the table: one record per row
  worker,       \* what each worker of the pool is doing
  asked,        \* how many inputs each key has been given
  guildActive,  \* guilds.active of the guild that owns GuildKeys
  faults        \* faults injected so far

vars == <<jobs, worker, asked, guildActive, faults>>

-----------------------------------------------------------------------------
(* The table *)

Ids == 1..MaxJobs
Active == {"queued", "running", "blocked"}
Unstarted == {"queued", "blocked", "disabled"}
Statuses == Active \cup {"absent", "disabled", "failed", "succeeded"}

Leases == {"none", "live", "expired"}
Endings == {"none", "ran", "gone", "skipped", "superseded"}
Tokens == Workers \cup {NoWorker}

Row == [status : Statuses, key : Keys, payload : Nat, generation : Nat,
        attempts : Nat, due : BOOLEAN, lease : Leases, token : Tokens,
        ending : Endings, ran : Nat]

NewRow(k, n, now) ==
  [status |-> "queued", key |-> k, payload |-> n, generation |-> 1,
   attempts |-> 0, due |-> now, lease |-> "none", token |-> NoWorker,
   ending |-> "none", ran |-> 0]

Holders(k) == {r \in Ids : jobs[r].key = k /\ jobs[r].status \in Active}
Others(r) == Holders(jobs[r].key) \ {r}

\* The next unused row: rows are numbered in the order of created_at.
NextRow(r) ==
  jobs[r].status = "absent" /\ \A s \in Ids : s < r => jobs[s].status # "absent"

Write(r, row) == jobs' = [jobs EXCEPT ![r] = row]

\* An UPDATE that the active_job unique index rejects changes nothing.
WriteIndexed(r, row) ==
  Write(r, IF row.status \in Active /\ Others(r) # {} THEN jobs[r] ELSE row)

-----------------------------------------------------------------------------
(* The workers *)

Stages == {"idle", "work", "publish", "threw"}
Codes == Errors \cup {"none", "lease_lost", "superseded", "transient"}

Attempt == [pc : Stages, job : Nat, generation : Nat, payload : Nat,
            attempts : Nat, error : Codes]

Idle == [pc |-> "idle", job |-> 0, generation |-> 0, payload |-> 0,
         attempts |-> 0, error |-> "none"]

Set(w, attempt) == worker' = [worker EXCEPT ![w] = attempt]
Job(w) == jobs[worker[w].job]
Busy(w) == worker[w].pc # "idle"

\* Mutant: a guard that forgets to compare the lease token.
OwnsAnyToken(w) == Job(w).lease = "live" /\ Job(w).status = "running"

\* The two reasons for which guard() refuses.
Owns(w) ==
  Job(w).token = w /\ Job(w).lease = "live" /\ Job(w).status = "running"
Superseded(w) ==
  Job(w).key \in Fenced /\ Job(w).generation # worker[w].generation

\* The worker whose heartbeat keeps the lease of r alive.
Attended(r) == \E w \in Workers : Busy(w) /\ worker[w].job = r /\ jobs[r].token = w

-----------------------------------------------------------------------------
(* Producers *)

\* enqueue(): INSERT ... ON CONFLICT DO UPDATE on the active row of the key.
Enqueue(k) ==
  /\ asked[k] < MaxInputs
  /\ asked' = [asked EXCEPT ![k] = @ + 1]
  /\ \E now \in BOOLEAN :
       \/ \E r \in Holders(k) :
            Write(r, [jobs[r] EXCEPT !.payload = asked[k] + 1,
                                     !.generation = @ + 1,
                                     !.due = @ \/ now,
                                     !.status = IF @ = "blocked" THEN "queued" ELSE @])
       \/ /\ Holders(k) = {}
          /\ \E r \in Ids : NextRow(r) /\ Write(r, NewRow(k, asked[k] + 1, now))
  /\ UNCHANGED <<worker, guildActive, faults>>

\* scheduleJob(): INSERT ... ON CONFLICT DO NOTHING.
ScheduleJob(k) ==
  /\ asked[k] < MaxInputs
  /\ Holders(k) = {}
  /\ asked' = [asked EXCEPT ![k] = @ + 1]
  /\ \E now \in BOOLEAN, r \in Ids :
       NextRow(r) /\ Write(r, NewRow(k, asked[k] + 1, now))
  /\ UNCHANGED <<worker, guildActive, faults>>

\* mod mail's notify(): scheduleJob, or a new generation for a running row.
NotifyRunning(k) ==
  /\ asked[k] < MaxInputs
  /\ \E r \in Holders(k) :
       /\ jobs[r].status = "running"
       /\ Write(r, [jobs[r] EXCEPT !.payload = asked[k] + 1,
                                   !.generation = @ + 1, !.due = FALSE])
  /\ asked' = [asked EXCEPT ![k] = @ + 1]
  /\ UNCHANGED <<worker, guildActive, faults>>

\* closeUnstarted(): the work became pointless before it ran.
CloseUnstarted(k) ==
  /\ \E r \in Ids : jobs[r].key = k /\ jobs[r].status \in Unstarted
  /\ jobs' = [r \in Ids |->
       IF jobs[r].key = k /\ jobs[r].status \in Unstarted
       THEN [jobs[r] EXCEPT !.status = "succeeded", !.lease = "none", !.ending = "skipped"]
       ELSE jobs[r]]
  /\ UNCHANGED <<worker, asked, guildActive, faults>>

\* Mutant: a retry that does not look for another active row.
RetryUnchecked(r) ==
  /\ jobs[r].status \in {"blocked", "failed", "disabled"}
  /\ jobs[r].key \in GuildKeys
  /\ Write(r, [jobs[r] EXCEPT !.status = "queued", !.attempts = 0, !.due = TRUE,
                              !.ending = "none"])
  /\ UNCHANGED <<worker, asked, guildActive, faults>>

\* retryJob(): the operator puts an ended or parked row of a guild back.
RetryJob(r) ==
  /\ jobs[r].status \in {"blocked", "failed", "disabled"}
  /\ jobs[r].key \in GuildKeys
  /\ Others(r) = {}
  /\ Write(r, [jobs[r] EXCEPT !.status = "queued", !.attempts = 0, !.due = TRUE,
                              !.ending = "none"])
  /\ UNCHANGED <<worker, asked, guildActive, faults>>

\* Synchronization.schedule(): blocked rows overdue by five minutes run again.
SweepBlocked(r) ==
  /\ jobs[r].status = "blocked" /\ jobs[r].due
  /\ Write(r, [jobs[r] EXCEPT !.status = "queued", !.attempts = 0, !.due = FALSE])
  /\ UNCHANGED <<worker, asked, guildActive, faults>>

-----------------------------------------------------------------------------
(* Queue.claim and Queue.perform *)

\* Mutant: a claim that never looks for expired leases.
ClaimableQueued(r) ==
  /\ jobs[r].status = "queued" /\ jobs[r].due
  /\ jobs[r].key \in GuildKeys => guildActive

Claimable(r) ==
  /\ \/ jobs[r].status = "queued" /\ jobs[r].due
     \/ jobs[r].status = "running" /\ jobs[r].lease = "expired"
  /\ jobs[r].key \in GuildKeys => guildActive

Claimed(w, r) == [jobs[r] EXCEPT !.status = "running", !.token = w,
                                 !.lease = "live", !.attempts = @ + 1]

Claim(w, r) ==
  /\ ~Busy(w)
  /\ Claimable(r)
  /\ Write(r, Claimed(w, r))
  /\ Set(w, [pc |-> "work", job |-> r, generation |-> jobs[r].generation,
             payload |-> jobs[r].payload, attempts |-> jobs[r].attempts + 1,
             error |-> "none"])
  /\ UNCHANGED <<asked, guildActive, faults>>

\* The claim committed but its answer was lost: the row runs with no worker.
ClaimLost(w, r) ==
  /\ ~Busy(w)
  /\ Claimable(r)
  /\ faults < MaxFaults
  /\ Write(r, Claimed(w, r))
  /\ faults' = faults + 1
  /\ UNCHANGED <<worker, asked, guildActive>>

Threw(w, e) == [worker[w] EXCEPT !.pc = "threw", !.error = e]

\* guard() refuses, whether dispatch or perform called it.
GuardRefuses(w) ==
  /\ worker[w].pc = "work"
  /\ \/ ~Owns(w) /\ Set(w, Threw(w, "lease_lost"))
     \/ Owns(w) /\ Superseded(w) /\ Set(w, Threw(w, "superseded"))
  /\ UNCHANGED <<jobs, asked, guildActive, faults>>

\* Dispatch returned and the last guard() passed.
Return(w) ==
  /\ worker[w].pc = "work"
  /\ Owns(w) /\ ~Superseded(w)
  /\ Set(w, [worker[w] EXCEPT !.pc = "publish"])
  /\ UNCHANGED <<jobs, asked, guildActive, faults>>

\* Dispatch threw an error of its own.
Throw(w) ==
  /\ worker[w].pc = "work"
  /\ \E e \in Errors : Set(w, Threw(w, e))
  /\ UNCHANGED <<jobs, asked, guildActive, faults>>

\* Mutants: a completion that ignores the generation, the token or the lease.
PublishedAlways(w) ==
  IF Job(w).token = w
  THEN [Job(w) EXCEPT !.status = "succeeded", !.lease = "none", !.ending = "ran",
                      !.ran = worker[w].payload]
  ELSE Job(w)
PublishedByAnyone(w) ==
  [Job(w) EXCEPT
     !.status = IF @ = "succeeded" \/ Job(w).generation = worker[w].generation
                THEN "succeeded" ELSE "queued",
     !.lease = "none", !.ending = "ran", !.ran = worker[w].payload]
PublishedWithLease(w) ==
  IF Job(w).token = w
  THEN [Job(w) EXCEPT !.status = "succeeded", !.ending = "ran", !.ran = worker[w].payload]
  ELSE Job(w)

\* The completion UPDATE: succeeded, or queued again for newer input.
Published(w) ==
  LET row == Job(w)
      current == row.generation = worker[w].generation
  IN IF row.token = w
     THEN [row EXCEPT !.status = IF current THEN "succeeded" ELSE "queued",
                      !.attempts = IF current THEN @ ELSE 0,
                      !.lease = "none", !.ending = "ran", !.ran = worker[w].payload]
     ELSE row

Publish(w) ==
  /\ worker[w].pc = "publish"
  /\ Write(worker[w].job, Published(w))
  /\ Set(w, Idle)
  /\ UNCHANGED <<asked, guildActive, faults>>

\* The completion UPDATE failed, before or after it was applied: the catch runs.
PublishLost(w) ==
  /\ worker[w].pc = "publish"
  /\ faults < MaxFaults
  /\ \E row \in {Job(w), Published(w)} : Write(worker[w].job, row)
  /\ Set(w, Threw(w, "transient"))
  /\ faults' = faults + 1
  /\ UNCHANGED <<asked, guildActive>>

\* jobOutcome(): the status a failed attempt is stored with.
Waiting == {"waiting", "superseded"}
Outcome(e, attempts) ==
  CASE e \in Waiting -> "queued"
    [] e \in {"blocked", "disabled"} -> e
    [] e = "gone" -> "succeeded"
    [] e = "invalid" \/ (e = "transient" /\ attempts >= MaxAttempts) -> "failed"
    [] OTHER -> "queued"

Pred(n) == IF n = 0 THEN 0 ELSE n - 1

Recorded(w) ==
  LET row == Job(w)
      e == worker[w].error
  IN IF row.token = w /\ e # "lease_lost"
     THEN [row EXCEPT !.status = Outcome(e, worker[w].attempts), !.due = FALSE,
                      !.lease = "none",
                      !.ending = IF e = "gone" THEN "gone" ELSE "none",
                      !.attempts = IF e \in Waiting THEN Pred(@) ELSE @]
     ELSE row

\* The failure UPDATE of the catch block; a lost lease writes nothing.
RecordFailure(w) ==
  /\ worker[w].pc = "threw"
  /\ WriteIndexed(worker[w].job, Recorded(w))
  /\ Set(w, Idle)
  /\ UNCHANGED <<asked, guildActive, faults>>

\* The failure UPDATE itself failed; perform reports the error and goes on.
RecordLost(w) ==
  /\ worker[w].pc = "threw"
  /\ faults < MaxFaults
  /\ Set(w, Idle)
  /\ faults' = faults + 1
  /\ UNCHANGED <<jobs, asked, guildActive>>

-----------------------------------------------------------------------------
(* The clock, the process and the guild *)

DueArrives(r) ==
  /\ jobs[r].status \in {"queued", "blocked"} /\ ~jobs[r].due
  /\ Write(r, [jobs[r] EXCEPT !.due = TRUE])
  /\ UNCHANGED <<worker, asked, guildActive, faults>>

\* Nobody renews the lease of a row whose worker is gone.
LeaseExpires(r) ==
  /\ jobs[r].status = "running" /\ jobs[r].lease = "live"
  /\ ~Attended(r)
  /\ Write(r, [jobs[r] EXCEPT !.lease = "expired"])
  /\ UNCHANGED <<worker, asked, guildActive, faults>>

\* A stalled process misses its heartbeats while its attempt still runs.
LeaseStalls(r) ==
  /\ jobs[r].status = "running" /\ jobs[r].lease = "live"
  /\ Attended(r)
  /\ faults < MaxFaults
  /\ Write(r, [jobs[r] EXCEPT !.lease = "expired"])
  /\ faults' = faults + 1
  /\ UNCHANGED <<worker, asked, guildActive>>

\* The process dies and a new one starts with an idle pool.
Crash ==
  /\ \E w \in Workers : Busy(w)
  /\ faults < MaxFaults
  /\ worker' = [w \in Workers |-> Idle]
  /\ faults' = faults + 1
  /\ UNCHANGED <<jobs, asked, guildActive>>

GuildLeavesOrReturns ==
  /\ guildActive' = ~guildActive
  /\ UNCHANGED <<jobs, worker, asked, faults>>

-----------------------------------------------------------------------------
Init ==
  /\ jobs = [r \in Ids |->
       [NewRow(CHOOSE k \in Keys : TRUE, 0, FALSE) EXCEPT !.status = "absent"]]
  /\ worker = [w \in Workers |-> Idle]
  /\ asked = [k \in Keys |-> 0]
  /\ guildActive = TRUE
  /\ faults = 0

Produce(k) ==
  Enqueue(k) \/ ScheduleJob(k) \/ (k \in Notices /\ (NotifyRunning(k) \/ CloseUnstarted(k)))
Progress(w) == GuardRefuses(w) \/ Return(w) \/ Throw(w) \/ Publish(w) \/ RecordFailure(w)
Fault(w) == PublishLost(w) \/ RecordLost(w)
Clock(r) == DueArrives(r) \/ LeaseExpires(r) \/ LeaseStalls(r)

Next ==
  \/ \E k \in Keys : Produce(k)
  \/ \E w \in Workers : Progress(w) \/ Fault(w)
  \/ \E w \in Workers, r \in Ids : Claim(w, r) \/ ClaimLost(w, r)
  \/ \E r \in Ids : RetryJob(r) \/ SweepBlocked(r) \/ Clock(r)
  \/ Crash
  \/ GuildLeavesOrReturns

Spec == Init /\ [][Next]_vars

(* What the code's scheduling justifies: a worker never stops taking steps   *)
(* (every remote call has a deadline), clocks advance, and because claim()   *)
(* orders by due_at a row that keeps being claimable is eventually chosen.   *)
Fairness ==
  /\ \A w \in Workers : WF_vars(Progress(w))
  /\ \A r \in Ids : /\ WF_vars(LeaseExpires(r))
                    /\ WF_vars(DueArrives(r))
                    /\ SF_vars(\E w \in Workers : Claim(w, r))

FairSpec == Spec /\ Fairness

-----------------------------------------------------------------------------
(* Properties *)

\* The state of the table, of the pool and of the counters has its type, and
\* a row has a lease exactly while it runs.
TypeOK ==
  /\ jobs \in [Ids -> Row]
  /\ \A r \in Ids : jobs[r].status = "running" <=> jobs[r].lease # "none"
  /\ worker \in [Workers -> Attempt]
  /\ \A w \in Workers : Busy(w) => worker[w].job \in Ids
  /\ asked \in [Keys -> Nat]
  /\ guildActive \in BOOLEAN
  /\ faults \in Nat

\* At most one queued, running or blocked row carries a deduplication key,
\* whichever of the insert, coalesce, retry, requeue and failure statements
\* interleave: the work of a key is decided in one place.
OneActiveRowPerKey ==
  \A r, s \in Ids :
    jobs[r].status \in Active /\ jobs[s].status \in Active /\ jobs[r].key = jobs[s].key
      => r = s

\* Two workers whose guard would pass never work for the same key, although a
\* worker may go on with a row that was reclaimed, closed or replaced.
KeyHasOneOwner ==
  \A v, w \in Workers :
    Busy(v) /\ Busy(w) /\ Owns(v) /\ Owns(w) /\ Job(v).key = Job(w).key => v = w

\* A row published as succeeded ran the newest payload it was given: an input
\* that arrives while an attempt runs makes the completion queue it again.
PublishedNewestInput ==
  \A r \in Ids : jobs[r].status = "succeeded" /\ jobs[r].ending = "ran"
    => jobs[r].ran = jobs[r].payload

\* The stored result never goes back to an older input, although an attempt
\* that lost its lease may reach its completion after a newer one.
ResultNeverRegresses == [][\A r \in Ids : jobs'[r].ran >= jobs[r].ran]_vars

\* While its guild stays active and what attempts wait for becomes free in the
\* end, every input is eventually settled: some row of its key that is at least
\* as new is published, parked, failed or closed.  A crashed, stalled or
\* superseded attempt never leaves it waiting for ever.
Settled(k, n) ==
  \E r \in Ids : jobs[r].key = k /\ jobs[r].payload >= n
               /\ jobs[r].status \in {"succeeded", "failed", "blocked", "disabled"}
EveryInputSettles ==
  <>[](guildActive /\ \A w \in Workers : worker[w].error # "waiting") =>
    \A k \in Keys : \A n \in 1..MaxInputs : asked[k] >= n ~> Settled(k, n)

\* An event that reaches a running row is not lost when the attempt ends: a row
\* that its worker ends, as gone or as failed, ends on its newest payload, as
\* one that completes does.
EndsOnNewestInput ==
  [][\A w \in Workers :
       RecordFailure(w) /\ Job(w).status = "running" /\ Job(w).token = w
         /\ jobs'[worker[w].job].status \in {"succeeded", "failed"}
       => Job(w).payload = worker[w].payload]_vars

-----------------------------------------------------------------------------
(* What the table promises: a row is an item of KeyedWork, open while its key *)
(* is taken, and owned by the worker whose attempt still has its token.       *)

Standing(r) ==
  IF jobs[r].status = "absent" THEN "unused"
  ELSE IF jobs[r].status \in Active THEN "open" ELSE "ended"
Held(r) == jobs[r].status = "running" /\ Attended(r)
ItemOf(r) ==
  [state |-> Standing(r), key |-> jobs[r].key, input |-> jobs[r].payload,
   owner |-> IF Held(r) THEN jobs[r].token ELSE NoWorker,
   seen |-> IF Held(r) THEN worker[jobs[r].token].payload ELSE 0,
   result |-> jobs[r].ran]

items == [r \in Ids |-> ItemOf(r)]

Promise == INSTANCE KeyedWork WITH Items <- Ids, Nobody <- NoWorker, item <- items

\* Tokens, leases, generations and the unique index together keep that promise,
\* whatever stalls, crashes or loses an answer: a result is published only by the
\* worker that owns the row, it is the result of the input that worker started
\* from, and a row completes only if that input is still the newest.
KeepsPromise == Promise!Spec

=============================================================================
