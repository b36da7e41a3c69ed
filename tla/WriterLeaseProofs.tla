-------------------------- MODULE WriterLeaseProofs --------------------------
(***************************************************************************)
(* Proofs about the writer lease, for any number of bots and migrations and  *)
(* any schema each was built for: workers and migrations run under the lock, *)
(* with code built for the committed schema.                                 *)
(***************************************************************************)
EXTENDS WriterLease, TLAPS

\* Past the grant and until the release PostgreSQL gives a bot the lock, unless its
\* session died.
Holds(b) ==
  bot[b].pc \in {"granted", "recheck", "login", "startup", "running"} /\ bot[b].stage # "released"
    => lock = b \/ bot[b].session = "cut"
\* Workers run only between the start and the end of the drain; after the release a
\* bot has neither the lock nor a session.
Drains(b) ==
  /\ bot[b].workers # "none" => bot[b].pc = "running"
  /\ bot[b].workers = "on" => bot[b].stage # "released"
  /\ bot[b].stage = "released" => lock # b /\ bot[b].pc # "granted"
\* Whoever was let past the second look at the schema, and still has the lock, was
\* built for the schema of now.
Fits(b) == bot[b].pc \in {"login", "startup", "running"} /\ lock = b => head = Build[b]
\* Files are applied under the lock.
Applies(m) == migrator[m] = "applying" => lock = m

LeaseOK ==
  /\ \A b \in Bots : Holds(b) /\ Drains(b) /\ Fits(b)
  /\ \A m \in Migrators : Applies(m)

IInv == TypeOK /\ LeaseOK

LEMMA InvImplies == IInv => LeaseIsRespected
  BY LeaseAssumption DEF IInv, LeaseOK, LeaseIsRespected, WorkersUnderLease, WritesMatchSchema,
     MigratesAlone, Holds, Drains, Fits, Applies, Working, ConstantsOK, Processes, TypeOK

LEMMA InitInv == Init => IInv
  BY LeaseAssumption DEF Init, IInv, TypeOK, LeaseOK, Holds, Drains, Fits, Applies, Off, Bot,
     Starting, Closing, Sessions, Work, ConstantsOK, Processes

\* A step of one bot that leaves the schema and the migrations alone: what it writes into
\* its own row, and what becomes of the lock, keep the invariant.
LEMMA BotStep ==
  ASSUME IInv, NEW b \in Bots, NEW row \in Bot, bot' = [bot EXCEPT ![b] = row],
         UNCHANGED <<head, migrator>>, faults' \in Nat,
         row.held => row.session # "none",
         lock' \in {lock, b} \/ (lock = b /\ lock' \in {Nobody, Ghost}),
         lock' # lock => lock \in {b, Nobody},
         Holds(b)', Drains(b)', Fits(b)'
  PROVE  IInv'
  <1>1. bot \in [Bots -> Bot] /\ bot' \in [Bots -> Bot] /\ bot'[b] = row
        /\ \A c \in Bots \ {b} : bot'[c] = bot[c]
    BY DEF IInv, TypeOK
  <1>2. b \in Processes /\ b \notin Migrators /\ Nobody \notin Processes /\ Ghost \notin Processes
    BY LeaseAssumption DEF ConstantsOK, Processes
  <1>3. TypeOK'
    <2>1. lock' \in Processes \cup {Nobody, Ghost}
      BY <1>2 DEF IInv, TypeOK
    <2>2. \A c \in Bots : bot'[c].held => bot'[c].session # "none"
      BY <1>1 DEF IInv, TypeOK
    <2> QED
      BY <1>1, <2>1, <2>2 DEF IInv, TypeOK
  <1>4. ASSUME NEW c \in Bots \ {b} PROVE Holds(c)' /\ Drains(c)' /\ Fits(c)'
    <2>1. lock' = c <=> lock = c
      BY <1>2, <1>4 DEF Processes
    <2> QED
      BY <1>1, <2>1 DEF IInv, LeaseOK, Holds, Drains, Fits
  <1>5. ASSUME NEW m \in Migrators PROVE Applies(m)'
    BY <1>2, <1>5 DEF IInv, LeaseOK, Applies, Processes
  <1> QED
    BY <1>3, <1>4, <1>5 DEF IInv, LeaseOK

\* Start-up: the lock is taken only while it is free, and a bot goes on past the second
\* look only with the schema it was built for.
LEMMA StartUpKeeps == ASSUME IInv, NEW b \in Bots, Launch(b) \/ StartUp(b) PROVE IInv'
  <1> USE DEF Bot, Starting, Closing, Sessions, Work, Holds, Drains, Fits, Stopping, Fail
  <1>0. bot[b] \in Bot /\ bot \in [Bots -> Bot] /\ faults \in Nat /\ b # Nobody
        /\ (bot[b].held => bot[b].session # "none") /\ Holds(b) /\ Drains(b) /\ Fits(b)
    BY LeaseAssumption DEF IInv, TypeOK, LeaseOK, ConstantsOK, Processes
  <1> DEFINE Kept == bot'[b] \in Bot /\ bot' = [bot EXCEPT ![b] = bot'[b]]
                     /\ (bot'[b].held => bot'[b].session # "none")
                     /\ faults' \in Nat /\ UNCHANGED <<head, migrator>>
                     /\ (lock' = lock \/ (lock = Nobody /\ lock' = b))
                     /\ Holds(b)' /\ Drains(b)' /\ Fits(b)'
  <1>1. SUFFICES Kept
    <2>1. lock' \in {lock, b} /\ (lock' # lock => lock \in {b, Nobody})
      BY <1>1
    <2> HIDE DEF Bot, Holds, Drains, Fits
    <2> QED
      BY <1>1, <2>1, BotStep
  <1>2. CASE Launch(b)
    BY <1>0, <1>2 DEF Launch, Off
  <1>3. CASE FirstCheck(b)
    BY <1>0, <1>3 DEF FirstCheck
  <1>4. CASE Attempt(b)
    BY <1>0, <1>4 DEF Attempt
  <1>5. CASE WaitFails(b) \/ GrantLost(b)
    BY <1>0, <1>5 DEF WaitFails, GrantLost
  <1>6. CASE Granted(b)
    BY <1>0, <1>6 DEF Granted
  <1>7. CASE Recheck(b)
    BY <1>0, <1>7 DEF Recheck
  <1>8. CASE Ready(b) \/ Started(b)
    BY <1>0, <1>8 DEF Ready, Started
  <1>9. CASE StartFails(b)
    BY <1>0, <1>9 DEF StartFails
  <1> QED
    BY <1>2, <1>3, <1>4, <1>5, <1>6, <1>7, <1>8, <1>9 DEF StartUp

\* Losing the session and shutting down: the lock goes only from the bot that held it, with
\* its session, or after its last writer.
LEMMA ShutDownKeeps ==
  ASSUME IInv, NEW b \in Bots, CheckFails(b) \/ Stop(b) \/ ShutDown(b) \/ Loss(b)
  PROVE  IInv'
  <1> USE DEF Bot, Starting, Closing, Sessions, Work, Holds, Drains, Fits, Stopping
  <1>0. bot[b] \in Bot /\ bot \in [Bots -> Bot] /\ faults \in Nat /\ b # Nobody /\ b # Ghost
        /\ (bot[b].held => bot[b].session # "none") /\ Holds(b) /\ Drains(b) /\ Fits(b)
    BY LeaseAssumption DEF IInv, TypeOK, LeaseOK, ConstantsOK, Processes
  <1> DEFINE Kept == bot'[b] \in Bot /\ bot' = [bot EXCEPT ![b] = bot'[b]]
                     /\ (bot'[b].held => bot'[b].session # "none")
                     /\ faults' \in Nat /\ UNCHANGED <<head, migrator>>
                     /\ (lock' = lock \/ (lock = b /\ lock' \in {Nobody, Ghost}))
                     /\ Holds(b)' /\ Drains(b)' /\ Fits(b)'
  <1>1. SUFFICES Kept
    <2>1. (lock' \in {lock, b} \/ (lock = b /\ lock' \in {Nobody, Ghost}))
          /\ (lock' # lock => lock \in {b, Nobody})
      BY <1>1
    <2> HIDE DEF Bot, Holds, Drains, Fits
    <2> QED
      BY <1>1, <2>1, BotStep
  <1>2. CASE CheckFails(b)
    BY <1>0, <1>2 DEF CheckFails, Lost
  <1>3. CASE Stop(b) \/ Drained(b)
    BY <1>0, <1>3 DEF Stop, Drained
  <1>4. CASE Release(b)
    BY <1>0, <1>4 DEF Release, LockAfter
  <1>5. CASE Exit(b)
    BY <1>0, <1>5 DEF Exit, Off
  <1>6. CASE HardStop(b) \/ Die(b)
    <2>1. lock' = lock \/ (lock = b /\ lock' \in {Nobody, Ghost})
      BY <1>6 DEF HardStop, Die, LockAfter
    <2>2. bot' = [bot EXCEPT ![b] = Off] /\ UNCHANGED <<head, migrator>> /\ faults' \in Nat
      BY <1>0, <1>6 DEF HardStop, Die
    <2> QED
      BY <1>0, <2>1, <2>2 DEF Off
  <1>7. CASE SessionError(b)
    <2>1. bot' = [bot EXCEPT ![b] = [Lost(bot[b]) EXCEPT !.session = "cut"]]
          /\ UNCHANGED <<head, migrator>> /\ faults' \in Nat
          /\ (lock' = lock \/ (lock = b /\ lock' = Nobody)) /\ lock' # b
      BY <1>0, <1>7 DEF SessionError
    <2>2. bot'[b] = [Lost(bot[b]) EXCEPT !.session = "cut"]
      BY <1>0, <2>1
    <2>3. bot'[b] \in Bot /\ bot'[b].session = "cut" /\ bot'[b].pc = bot[b].pc
          /\ bot'[b].workers = bot[b].workers
          /\ (bot'[b].stage = "released" <=> bot[b].stage = "released")
      BY <1>0, <2>2 DEF Lost
    <2> QED
      BY <1>0, <2>1, <2>3
  <1>8. CASE SessionGoesSilent(b)
    BY <1>0, <1>8 DEF SessionGoesSilent
  <1> QED
    BY <1>2, <1>3, <1>4, <1>5, <1>6, <1>7, <1>8 DEF ShutDown, Loss

\* PostgreSQL takes the lock only from a session that is dead, and a migration holds it
\* from its first file to the end of its transaction.
LEMMA OthersKeep == ASSUME IInv, ServerEndsSession \/ \E m \in Migrators : Migrate(m)
                    PROVE  IInv'
  <1>0. /\ Nobody \notin Bots \cup Migrators /\ Ghost \notin Bots \cup Migrators
        /\ Bots \cap Migrators = {} /\ \A m \in Migrators : Build[m] \in Nat
    BY LeaseAssumption DEF ConstantsOK, Processes
  <1> USE DEF IInv, TypeOK, LeaseOK, Holds, Drains, Fits, Applies, Processes
  <1>1. CASE ServerEndsSession
    BY <1>0, <1>1 DEF ServerEndsSession
  <1>2. ASSUME NEW m \in Migrators, Collect(m) PROVE IInv'
    BY <1>0, <1>2 DEF Collect
  <1>3. ASSUME NEW m \in Migrators, Apply(m) PROVE IInv'
    BY <1>0, <1>3 DEF Apply
  <1>4. ASSUME NEW m \in Migrators, CommitFiles(m) PROVE IInv'
    BY <1>0, <1>4 DEF CommitFiles
  <1>5. ASSUME NEW m \in Migrators, GiveUp(m) PROVE IInv'
    BY <1>0, <1>5 DEF GiveUp
  <1> QED
    BY <1>1, <1>2, <1>3, <1>4, <1>5 DEF Migrate

LEMMA NextInv == IInv /\ [Next]_vars => IInv'
  <1> SUFFICES ASSUME IInv, [Next]_vars PROVE IInv'
    OBVIOUS
  <1>1. CASE Next
    BY <1>1, StartUpKeeps, ShutDownKeeps, OthersKeep DEF Next
  <1>2. CASE UNCHANGED vars
    BY <1>2 DEF vars, IInv, TypeOK, LeaseOK, Holds, Drains, Fits, Applies
  <1> QED
    BY <1>1, <1>2

\* One writer per database: workers run only under the lock (or until they learn that the
\* session is gone), what writes under it was built for the committed schema, and a
\* migration applies its files with no live writer beside it, whatever is lost, stopped or
\* killed on the way (lifecycle.ts, migrate).
THEOREM Respected == Spec => []LeaseIsRespected
  <1>1. IInv /\ [Next]_vars => IInv'
    BY NextInv
  <1> QED
    BY InitInv, <1>1, InvImplies, PTL DEF Spec
=============================================================================
