----------------------------- MODULE WriterLease -----------------------------
(***************************************************************************)
(* One writer per database: the session advisory lock a bot takes before it *)
(* logs in, checks while it runs and hands over when it stops               *)
(* (src/application/lifecycle.ts), and the migration that takes the same    *)
(* lock (migrate in src/infrastructure/postgres/database.ts).               *)
(*                                                                         *)
(* PostgreSQL's view (who holds the lock, which schema is committed) and a  *)
(* bot's own view (leaseHeld) are separate: a connection can be dead long   *)
(* before either side notices.  A bot has two threads, start-up and         *)
(* shutdown; deadlines are steps that may come at any moment.               *)
(***************************************************************************)
EXTENDS Naturals

CONSTANTS
  Bots,       \* bot processes of overlapping deployments
  Migrators,  \* migrate.js runs
  Build,      \* the schema version each bot or migration was built for
  Nobody,     \* the lock is free
  Ghost,      \* the lock is held by a session whose client is gone
  MaxFaults   \* bound: lost sessions, lost answers and crashes

Processes == Bots \cup Migrators
ConstantsOK ==
  /\ Bots \cap Migrators = {}
  /\ Nobody # Ghost /\ {Nobody, Ghost} \cap Processes = {}
  /\ Build \in [Processes -> Nat]
  /\ MaxFaults \in Nat
ASSUME LeaseAssumption == ConstantsOK

VARIABLES
  head,      \* the newest committed schema version
  lock,      \* WRITER_LEASE_LOCK, as PostgreSQL sees it
  bot,       \* the state of each bot process
  migrator,  \* the state of each migration
  faults

vars == <<head, lock, bot, migrator, faults>>

Starting == {"off", "check", "wait", "granted", "recheck", "login", "startup",
             "running", "failed"}
Closing == {"no", "draining", "released"}
Sessions == {"none", "up", "cut"}   \* cut: dead, and the client has not noticed
Work == {"none", "on", "overran"}   \* overran: still busy at the 20 s limit of close()

Bot == [pc : Starting, stage : Closing, session : Sessions, held : BOOLEAN,
        broken : BOOLEAN, workers : Work]
Off == [pc |-> "off", stage |-> "no", session |-> "none", held |-> FALSE,
        broken |-> FALSE, workers |-> "none"]

Stopping(b) == bot[b].stage # "no"
Working(b) == bot[b].workers # "none" \/ bot[b].pc = "startup"
Fail(b) == bot' = [bot EXCEPT ![b].pc = "failed"]

-----------------------------------------------------------------------------
(* Start-up: prepare(), acquireWriterLease() and start() *)

Launch(b) ==
  /\ bot[b].pc = "off"
  /\ bot' = [bot EXCEPT ![b] = [Off EXCEPT !.pc = "check"]]
  /\ UNCHANGED <<head, lock, migrator, faults>>

\* The first db.schema(), then a client for the lease.
FirstCheck(b) ==
  /\ bot[b].pc = "check"
  /\ IF head = Build[b]
     THEN bot' = [bot EXCEPT ![b].pc = "wait", ![b].session = "up"]
     ELSE Fail(b)
  /\ UNCHANGED <<head, lock, migrator, faults>>

\* pg_try_advisory_lock; a refused attempt only asks who holds the lock.
Attempt(b) ==
  /\ bot[b].pc = "wait" /\ ~Stopping(b)
  /\ bot[b].session = "up" /\ ~bot[b].broken
  /\ lock = Nobody
  /\ lock' = b
  /\ bot' = [bot EXCEPT ![b].pc = "granted"]
  /\ UNCHANGED <<head, migrator, faults>>

\* waitStatement(): no answer within query_timeout, or a stop before the lock.
WaitFails(b) ==
  /\ bot[b].pc = "wait"
  /\ \/ Stopping(b) /\ Fail(b)
     \/ /\ bot[b].session = "cut" \/ bot[b].broken
        /\ bot' = [bot EXCEPT ![b].pc = "failed", ![b].broken = TRUE]
  /\ UNCHANGED <<head, lock, migrator, faults>>

\* The answer arrives; a stop that began meanwhile still unlocks in close().
Granted(b) ==
  /\ bot[b].pc = "granted" /\ bot[b].session = "up"
  /\ bot' = [bot EXCEPT ![b].held = TRUE,
                        ![b].pc = IF Stopping(b) THEN "failed" ELSE "recheck"]
  /\ UNCHANGED <<head, lock, migrator, faults>>

\* The lock was granted but the answer never arrives.
GrantLost(b) ==
  /\ bot[b].pc = "granted" /\ bot[b].session = "cut"
  /\ bot' = [bot EXCEPT ![b].pc = "failed", ![b].broken = TRUE]
  /\ UNCHANGED <<head, lock, migrator, faults>>

\* Mutant: no second look at the schema.
RecheckNothing(b) ==
  /\ bot[b].pc = "recheck"
  /\ bot' = [bot EXCEPT ![b].pc = "login"]
  /\ UNCHANGED <<head, lock, migrator, faults>>

\* The second db.schema(), under the lease.
Recheck(b) ==
  /\ bot[b].pc = "recheck"
  /\ bot' = [bot EXCEPT ![b].pc = IF head = Build[b] THEN "login" ELSE "failed"]
  /\ UNCHANGED <<head, lock, migrator, faults>>

\* client-ready: start() opens the startup transaction, under the lease only.
Ready(b) ==
  /\ bot[b].pc = "login" /\ ~Stopping(b)
  /\ bot' = [bot EXCEPT ![b].pc = IF bot[b].held THEN "startup" ELSE "failed"]
  /\ UNCHANGED <<head, lock, migrator, faults>>

\* The transaction commits and the workers start, unless the queue has stopped.
Started(b) ==
  /\ bot[b].pc = "startup"
  /\ bot' = [bot EXCEPT ![b].pc = "running",
                        ![b].workers = IF Stopping(b) THEN "none" ELSE "on"]
  /\ UNCHANGED <<head, lock, migrator, faults>>

\* Start-up fails on its own: the database, Discord or a wrong application ID.
StartFails(b) ==
  /\ bot[b].pc \in {"check", "recheck", "login", "startup"}
  /\ Fail(b)
  /\ UNCHANGED <<head, lock, migrator, faults>>

-----------------------------------------------------------------------------
(* Losing the session *)

\* leaseLost(): stop, unless shutdown already runs or the lock was not held.
Lost(row) ==
  [row EXCEPT !.broken = TRUE,
              !.held = @ /\ row.stage # "no",
              !.stage = IF row.held /\ @ = "no" THEN "draining" ELSE @]

\* The backend ends and the client is told: the session emits 'error'.
SessionError(b) ==
  /\ faults < MaxFaults
  /\ bot[b].session = "up"
  /\ bot' = [bot EXCEPT ![b] = [Lost(bot[b]) EXCEPT !.session = "cut"]]
  /\ lock' = IF lock = b THEN Nobody ELSE lock
  /\ faults' = faults + 1
  /\ UNCHANGED <<head, migrator>>

\* The connection goes half-open: neither side is told.
SessionGoesSilent(b) ==
  /\ faults < MaxFaults
  /\ bot[b].session = "up"
  /\ bot' = [bot EXCEPT ![b].session = "cut"]
  /\ faults' = faults + 1
  /\ UNCHANGED <<head, lock, migrator>>

\* PostgreSQL's keepalive gives a silent or abandoned session up.
ServerEndsSession ==
  /\ \/ lock = Ghost
     \/ lock \in Bots /\ bot[lock].session = "cut"
  /\ lock' = Nobody
  /\ UNCHANGED <<head, bot, migrator, faults>>

\* Mutant: a check that gets no answer is not a lost lease.
CheckTrusts(b) ==
  /\ bot[b].held /\ ~Stopping(b)
  /\ bot[b].session = "none"
  /\ bot' = [bot EXCEPT ![b] = Lost(bot[b])]
  /\ UNCHANGED <<head, lock, migrator, faults>>

\* checkWriterLease(): no answer, or no lock, is a lost lease.
CheckFails(b) ==
  /\ bot[b].held /\ ~Stopping(b)
  /\ bot[b].session = "cut"
  /\ bot' = [bot EXCEPT ![b] = Lost(bot[b])]
  /\ UNCHANGED <<head, lock, migrator, faults>>

-----------------------------------------------------------------------------
(* Shutdown: stop() and close() *)

\* SIGTERM, or the catch of main.ts after prepare() or start() failed.
Stop(b) ==
  /\ bot[b].pc # "off" /\ ~Stopping(b)
  /\ bot' = [bot EXCEPT ![b].stage = "draining"]
  /\ UNCHANGED <<head, lock, migrator, faults>>

\* queue.stop(): the attempts in flight have ended.
Drained(b) ==
  /\ Stopping(b) /\ bot[b].workers # "none"
  /\ bot' = [bot EXCEPT ![b].workers = "none"]
  /\ UNCHANGED <<head, lock, migrator, faults>>

\* What the end of b's session leaves behind in PostgreSQL.
LockAfter(b) ==
  CASE lock # b -> lock
    [] lock = b /\ bot[b].session = "cut" -> Ghost
    [] OTHER -> Nobody

\* Mutant: the lease is released before the queue has stopped.
ReleaseFirst(b) ==
  /\ bot[b].stage = "draining"
  /\ bot[b].pc \notin {"wait", "granted"}
  /\ lock' = LockAfter(b)
  /\ bot' = [bot EXCEPT ![b].stage = "released", ![b].session = "none", ![b].held = FALSE]
  /\ UNCHANGED <<head, migrator, faults>>

\* releaseWriterLease(), once the queue has stopped or 20 s have passed.  It
\* waits for an acquisition to settle, and destroys a session it cannot trust.
Release(b) ==
  /\ bot[b].stage = "draining"
  /\ bot[b].pc \notin {"wait", "granted"}
  /\ lock' = LockAfter(b)
  /\ bot' = [bot EXCEPT ![b].stage = "released", ![b].session = "none", ![b].held = FALSE,
                        ![b].workers = IF @ = "none" THEN "none" ELSE "overran"]
  /\ UNCHANGED <<head, migrator, faults>>

\* db.close() waits for clients that are checked out, then the process exits.
Exit(b) ==
  /\ bot[b].stage = "released" /\ bot[b].pc # "startup"
  /\ bot' = [bot EXCEPT ![b] = Off]
  /\ UNCHANGED <<head, lock, migrator, faults>>

\* The 27 s deadline: whatever still runs ends with the process.
HardStop(b) ==
  /\ Stopping(b)
  /\ lock' = LockAfter(b)
  /\ bot' = [bot EXCEPT ![b] = Off]
  /\ UNCHANGED <<head, migrator, faults>>

\* The process or its host dies.
Die(b) ==
  /\ faults < MaxFaults
  /\ bot[b].pc # "off"
  /\ lock' = LockAfter(b)
  /\ bot' = [bot EXCEPT ![b] = Off]
  /\ faults' = faults + 1
  /\ UNCHANGED <<head, migrator>>

-----------------------------------------------------------------------------
(* migrate() *)

\* The migration lock is taken and the pending files are collected.
Collect(m) ==
  /\ migrator[m] = "idle"
  /\ \A n \in Migrators : migrator[n] \notin {"wanting", "applying"}
  /\ migrator' = [migrator EXCEPT ![m] = IF head < Build[m] THEN "wanting" ELSE "done"]
  /\ UNCHANGED <<head, lock, bot, faults>>

\* Mutant: pending files are applied without the writer lease.
ApplyUnlocked(m) ==
  /\ migrator[m] = "wanting"
  /\ migrator' = [migrator EXCEPT ![m] = "applying"]
  /\ UNCHANGED <<head, lock, bot, faults>>

\* pg_try_advisory_xact_lock on the writer lease, within writerWaitMs.
Apply(m) ==
  /\ migrator[m] = "wanting"
  /\ lock = Nobody
  /\ lock' = m
  /\ migrator' = [migrator EXCEPT ![m] = "applying"]
  /\ UNCHANGED <<head, bot, faults>>

\* COMMIT: every pending file at once, and both locks end.
CommitFiles(m) ==
  /\ migrator[m] = "applying"
  /\ head' = Build[m]
  /\ lock' = IF lock = m THEN Nobody ELSE lock
  /\ migrator' = [migrator EXCEPT ![m] = "done"]
  /\ UNCHANGED <<bot, faults>>

\* The wait times out, a file fails or the tool dies: ROLLBACK.
GiveUp(m) ==
  /\ migrator[m] \in {"wanting", "applying"}
  /\ lock' = IF lock = m THEN Nobody ELSE lock
  /\ migrator' = [migrator EXCEPT ![m] = "idle"]
  /\ UNCHANGED <<head, bot, faults>>

-----------------------------------------------------------------------------
Init ==
  /\ \E b \in Bots : head = Build[b]
  /\ lock = Nobody
  /\ bot = [b \in Bots |-> Off]
  /\ migrator = [m \in Migrators |-> "idle"]
  /\ faults = 0

StartUp(b) ==
  \/ FirstCheck(b) \/ Attempt(b) \/ WaitFails(b) \/ Granted(b) \/ GrantLost(b)
  \/ Recheck(b) \/ Ready(b) \/ Started(b) \/ StartFails(b)
ShutDown(b) == Drained(b) \/ Release(b) \/ Exit(b) \/ HardStop(b)
Loss(b) == SessionError(b) \/ SessionGoesSilent(b) \/ Die(b)
Migrate(m) == Collect(m) \/ Apply(m) \/ CommitFiles(m) \/ GiveUp(m)

Next ==
  \/ \E b \in Bots :
       Launch(b) \/ StartUp(b) \/ CheckFails(b) \/ Stop(b) \/ ShutDown(b) \/ Loss(b)
  \/ ServerEndsSession
  \/ \E m \in Migrators : Migrate(m)

Spec == Init /\ [][Next]_vars

\* Mutant: only a failure before the lease is followed by stop().
FailedStopsUnheld(b) == bot[b].pc = "failed" /\ ~bot[b].held /\ Stop(b)

\* A failed start-up always stops (the catch of main.ts); the check interval,
\* the statement deadlines, the stop deadline and keepalive always come.
Waits(b) == WaitFails(b) \/ Granted(b) \/ GrantLost(b)
Finishes(m) == CommitFiles(m) \/ GiveUp(m)
FailedStops(b) == bot[b].pc = "failed" /\ Stop(b)
Fairness ==
  /\ \A b \in Bots : /\ WF_vars(Waits(b))
                     /\ WF_vars(CheckFails(b))
                     /\ WF_vars(FailedStops(b))
                     /\ WF_vars(ShutDown(b))
  /\ WF_vars(ServerEndsSession)
  /\ \A m \in Migrators : WF_vars(Finishes(m))
FairSpec == Spec /\ Fairness

-----------------------------------------------------------------------------
(* Properties *)

\* Types, and what a bot believes: it holds the lease only past the grant.
TypeOK ==
  /\ head \in Nat
  /\ lock \in Processes \cup {Nobody, Ghost}
  /\ bot \in [Bots -> Bot]
  /\ \A b \in Bots : bot[b].held => bot[b].session # "none"
  /\ migrator \in [Migrators -> {"idle", "wanting", "applying", "done"}]
  /\ faults \in Nat

\* A bot's workers run only while PostgreSQL gives it the lock, except after
\* its session died (until the check notices) or past close()'s 20 s limit:
\* no overlap of deployments, lost answer or stop during start-up makes two.
WorkersUnderLease ==
  \A b \in Bots : bot[b].workers = "on" => lock = b \/ bot[b].session = "cut"

\* Code that writes under the lease was built for the committed schema: a bot
\* that waited while a migration committed never starts on the new schema, and
\* no migration commits under a writer.
WritesMatchSchema ==
  \A b \in Bots : Working(b) /\ lock = b => head = Build[b]

\* While migration files are applied no worker of a bot whose session lives runs.
MigratesAlone ==
  \A m \in Migrators, b \in Bots :
    migrator[m] = "applying" /\ bot[b].workers = "on" => bot[b].session = "cut"

\* One writer: workers and migrations run under the lock, with code built for the
\* committed schema.
LeaseIsRespected == TypeOK /\ WorkersUnderLease /\ WritesMatchSchema /\ MigratesAlone

\* A writer whose session died does not write for ever, although nothing but
\* its own check can tell it.
LostWriterStops == \A b \in Bots : bot[b].session = "cut" /\ Working(b) ~> ~Working(b)

\* The lock of a bot that stops, fails or lost its session is free again, so a
\* waiting deployment or a migration is not shut out for ever.
AbandonedLockIsFreed ==
  \A b \in Bots : lock = b /\ (Stopping(b) \/ bot[b].session = "cut" \/ bot[b].pc = "failed")
    ~> lock = Nobody

\* The lease is handed over only once this process has stopped writing.
HandsOverAfterWriting ==
  \A b \in Bots : bot[b].stage = "released" => ~Working(b)

=============================================================================
