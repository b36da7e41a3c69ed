--------------------------- MODULE JobQueueProofs ---------------------------
(***************************************************************************)
(* Proofs about the job queue, for every pool, every set of keys and every  *)
(* bound: the type invariant, one active row per key and one owner per key, *)
(* that a published row ran its newest payload, and that the queue          *)
(* implements KeyedWork.  Then the same queue beside passes that requeue     *)
(* parked rows: one active row per key, and who yields to newer work.       *)
(***************************************************************************)
EXTENDS ParkedWork, TLAPS

\* The values a step writes into a row or an attempt are of their columns.
LEMMA Values ==
  /\ {"absent", "queued", "running", "blocked", "disabled", "failed", "succeeded"} \subseteq Statuses
  /\ {"none", "live", "expired"} \subseteq Leases
  /\ {"none", "ran", "gone", "skipped"} \subseteq Endings
  /\ NoWorker \in Tokens /\ Workers \subseteq Tokens
  /\ {"idle", "work", "publish", "threw"} \subseteq Stages
  /\ {"none", "lease_lost", "superseded", "transient"} \subseteq Codes /\ Errors \subseteq Codes
  BY DEF Statuses, Active, Leases, Endings, Tokens, Stages, Codes

LEMMA NewRowType ==
  ASSUME NEW k \in Keys, NEW n \in Nat, NEW now \in BOOLEAN
  PROVE  /\ NewRow(k, n, now) \in Row
         /\ NewRow(k, n, now).status = "queued"
         /\ NewRow(k, n, now).lease = "none"
         /\ NewRow(k, n, now).key = k
  BY Values DEF NewRow, Row

LEMMA IdleType == Idle \in Attempt /\ Idle.pc = "idle"
  BY Values DEF Idle, Attempt

\* A stored outcome is a status that a row may rest in, with no lease.
LEMMA OutcomeType ==
  ASSUME NEW e \in Codes, NEW n \in Nat
  PROVE  Outcome(e, n) \in Statuses \ {"absent", "running"}
  BY DEF Outcome, Waiting, Statuses, Active

LEMMA JobType ==
  ASSUME TypeOK, NEW w \in Workers, Busy(w)
  PROVE  /\ worker[w].job \in Ids /\ Job(w) \in Row /\ worker[w] \in Attempt
         /\ Job(w).status = "running" <=> Job(w).lease # "none"
  BY DEF TypeOK, Job

\* What a worker writes when it publishes or fails has the row's key, and is
\* active only if the row's attempt still held it or the index let it be.
LEMMA PublishedType ==
  ASSUME TypeOK, NEW w \in Workers, Busy(w)
  PROVE  /\ Published(w) \in Row
         /\ Published(w).status = "running" <=> Published(w).lease # "none"
         /\ Published(w).key = Job(w).key
  <1> DEFINE current == Job(w).generation = worker[w].generation
             o == IF current THEN "succeeded" ELSE "queued"
             n == IF current THEN Job(w).attempts ELSE 0
             p == worker[w].payload
  <1>1. /\ o \in Statuses /\ o # "running" /\ n \in Nat /\ p \in Nat
        /\ "none" \in Leases /\ "ran" \in Endings
    <2>1. Job(w).attempts \in Nat /\ p \in Nat
      BY JobType DEF Row, Attempt
    <2> QED
      BY <2>1, Values
  <1>2. Published(w) = [Job(w) EXCEPT !.status = o, !.attempts = n, !.lease = "none",
                                      !.ending = "ran", !.ran = p]
        \/ Published(w) = Job(w)
    BY DEF Published
  <1> HIDE DEF o, n, p
  <1>3. CASE Published(w) = Job(w)
    BY <1>3, JobType
  <1>4. CASE Published(w) = [Job(w) EXCEPT !.status = o, !.attempts = n, !.lease = "none",
                                           !.ending = "ran", !.ran = p]
    <2>1. Job(w) \in Row
      BY JobType
    <2>2. Published(w) \in Row
      BY <1>1, <1>4, <2>1 DEF Row
    <2>3. /\ Published(w).status = o /\ Published(w).lease = "none"
          /\ Published(w).key = Job(w).key
      BY <1>4, <2>1 DEF Row
    <2> QED
      BY <1>1, <2>2, <2>3
  <1> QED
    BY <1>2, <1>3, <1>4

LEMMA RecordedType ==
  ASSUME TypeOK, NEW w \in Workers, Busy(w)
  PROVE  /\ Recorded(w) \in Row
         /\ Recorded(w).status = "running" <=> Recorded(w).lease # "none"
         /\ Recorded(w).key = Job(w).key
  <1>1. Outcome(worker[w].error, worker[w].attempts) \in Statuses \ {"absent", "running"}
    BY JobType, OutcomeType DEF Attempt
  <1>2. Pred(Job(w).attempts) \in Nat
    BY JobType DEF Pred, Row
  <1>3. IF worker[w].error = "gone" THEN "gone" \in Endings ELSE "none" \in Endings
    BY Values
  <1>4. Recorded(w) \in Row
    <2> DEFINE o == Outcome(worker[w].error, worker[w].attempts)
               n == IF worker[w].error \in Waiting THEN Pred(Job(w).attempts) ELSE Job(w).attempts
               d == IF worker[w].error = "gone" THEN "gone" ELSE "none"
    <2>1. o \in Statuses /\ n \in Nat /\ d \in Endings /\ "none" \in Leases /\ Job(w) \in Row
      BY <1>1, <1>2, <1>3, JobType, Values DEF Row
    <2>2. Recorded(w) = [Job(w) EXCEPT !.status = o, !.due = FALSE, !.lease = "none",
                                       !.ending = d, !.attempts = n]
          \/ Recorded(w) = Job(w)
      BY DEF Recorded
    <2> HIDE DEF o, n, d
    <2> QED
      BY <2>1, <2>2 DEF Row
  <1>5. Recorded(w) = Job(w) \/ (Recorded(w).status # "running" /\ Recorded(w).lease = "none")
    BY <1>1, JobType DEF Recorded, Row
  <1>6. Recorded(w).key = Job(w).key
    BY JobType DEF Recorded, Row
  <1> QED
    BY <1>4, <1>5, <1>6, JobType

LEMMA ClaimedType ==
  ASSUME TypeOK, NEW w \in Workers, NEW r \in Ids
  PROVE  /\ Claimed(w, r) \in Row
         /\ Claimed(w, r).status = "running" /\ Claimed(w, r).lease = "live"
         /\ Claimed(w, r).key = jobs[r].key
  <1>1. jobs[r] \in Row
    BY DEF TypeOK
  <1>2. jobs[r].attempts + 1 \in Nat /\ "running" \in Statuses /\ w \in Tokens /\ "live" \in Leases
    BY <1>1, Values DEF Row
  <1> QED
    BY <1>1, <1>2 DEF Claimed, Row

\* One row written with the row's shape keeps the type of the table.
LEMMA WriteType ==
  ASSUME TypeOK, NEW r \in Ids, NEW row \in Row,
         row.status = "running" <=> row.lease # "none",
         Write(r, row)
  PROVE  /\ jobs' \in [Ids -> Row]
         /\ \A s \in Ids : jobs'[s].status = "running" <=> jobs'[s].lease # "none"
  BY DEF TypeOK, Write

\* A statement that writes one row and leaves the pool alone keeps every type.
LEMMA TableStep ==
  ASSUME TypeOK, NEW r \in Ids, NEW row \in Row,
         row.status = "running" <=> row.lease # "none",
         Write(r, row), UNCHANGED <<worker, asked, guildActive>>, faults' \in Nat
  PROVE  TypeOK'
  <1>1. /\ jobs' \in [Ids -> Row]
        /\ \A s \in Ids : jobs'[s].status = "running" <=> jobs'[s].lease # "none"
    BY WriteType
  <1> QED
    BY <1>1 DEF TypeOK, Busy

LEMMA TypeInit == Init => TypeOK
  <1> SUFFICES ASSUME Init PROVE TypeOK
    OBVIOUS
  <1> DEFINE new == NewRow(CHOOSE k \in Keys : TRUE, 0, FALSE)
             row == [new EXCEPT !.status = "absent"]
  <1>1. row \in Row /\ row.status = "absent" /\ row.lease = "none"
    <2>1. new \in Row /\ new.lease = "none"
      BY KeyAssumption, NewRowType
    <2> HIDE DEF new
    <2> QED
      BY <2>1, Values DEF Row
  <1>2. jobs = [r \in Ids |-> row]
    BY DEF Init
  <1> HIDE DEF row
  <1> QED
    BY <1>1, <1>2, IdleType DEF Init, TypeOK, Busy

\* Every statement of the table and every step of a worker keeps the types.
LEMMA TypeStep == TypeOK /\ [Next]_vars => TypeOK'
  <1> SUFFICES ASSUME TypeOK, [Next]_vars PROVE TypeOK'
    OBVIOUS
  <1> USE DEF Set
  <1>0. ASSUME NEW k \in Keys PROVE asked[k] + 1 \in Nat /\ [asked EXCEPT ![k] = asked[k] + 1] \in [Keys -> Nat]
    BY DEF TypeOK
  <1>1. ASSUME NEW k \in Keys, Enqueue(k) PROVE TypeOK'
    <2>1. asked[k] + 1 \in Nat /\ asked' \in [Keys -> Nat]
      BY <1>0, <1>1 DEF Enqueue
    <2>2. PICK now \in BOOLEAN :
            \/ \E r \in Holders(k) :
                 Write(r, [jobs[r] EXCEPT !.payload = asked[k] + 1,
                                          !.generation = @ + 1,
                                          !.due = @ \/ now,
                                          !.status = IF @ = "blocked" THEN "queued" ELSE @])
            \/ \E r \in Ids : NextRow(r) /\ Write(r, NewRow(k, asked[k] + 1, now))
      BY <1>1 DEF Enqueue
    <2>3. ASSUME NEW r \in Holders(k),
                 Write(r, [jobs[r] EXCEPT !.payload = asked[k] + 1,
                                          !.generation = @ + 1,
                                          !.due = @ \/ now,
                                          !.status = IF @ = "blocked" THEN "queued" ELSE @])
          PROVE  TypeOK'
      <3> DEFINE row == [jobs[r] EXCEPT !.payload = asked[k] + 1,
                                        !.generation = @ + 1,
                                        !.due = @ \/ now,
                                        !.status = IF @ = "blocked" THEN "queued" ELSE @]
      <3>1. r \in Ids /\ jobs[r] \in Row
        BY DEF Holders, TypeOK
      <3>2. (jobs[r].due \/ now) \in BOOLEAN
        BY <3>1 DEF Row
      <3>3. row \in Row
        <4>1. (IF jobs[r].status = "blocked" THEN "queued" ELSE jobs[r].status) \in Statuses
          BY <3>1, Values DEF Row
        <4>2. jobs[r].generation + 1 \in Nat
          BY <3>1 DEF Row
        <4> QED
          BY <2>1, <3>1, <3>2, <4>1, <4>2 DEF Row
      <3>4. row.status = "running" <=> row.lease # "none"
        BY <3>1 DEF TypeOK, Row
      <3> QED
        BY <2>1, <2>3, <3>1, <3>3, <3>4, WriteType, <1>1 DEF Enqueue, TypeOK, Busy
    <2>4. ASSUME NEW r \in Ids, Write(r, NewRow(k, asked[k] + 1, now))
          PROVE  TypeOK'
      <3>1. /\ NewRow(k, asked[k] + 1, now) \in Row
            /\ NewRow(k, asked[k] + 1, now).status = "running"
                 <=> NewRow(k, asked[k] + 1, now).lease # "none"
        BY <2>1, NewRowType
      <3> QED
        BY <2>1, <2>4, <3>1, WriteType, <1>1 DEF Enqueue, TypeOK, Busy
    <2> QED
      BY <2>2, <2>3, <2>4
  <1>2. ASSUME NEW k \in Keys, ScheduleJob(k) PROVE TypeOK'
    <2>1. asked[k] + 1 \in Nat /\ asked' \in [Keys -> Nat]
      BY <1>0, <1>2 DEF ScheduleJob
    <2>2. PICK now \in BOOLEAN, r \in Ids : Write(r, NewRow(k, asked[k] + 1, now))
      BY <1>2 DEF ScheduleJob
    <2> QED
      BY <2>1, <2>2, NewRowType, WriteType, <1>2 DEF ScheduleJob, TypeOK, Busy
  <1>3. ASSUME NEW k \in Keys, NotifyRunning(k) PROVE TypeOK'
    <2>1. asked[k] + 1 \in Nat /\ asked' \in [Keys -> Nat]
      BY <1>0, <1>3 DEF NotifyRunning
    <2>2. PICK r \in Ids : Write(r, [jobs[r] EXCEPT !.payload = asked[k] + 1,
                                       !.generation = @ + 1, !.due = FALSE])
      BY <1>3 DEF NotifyRunning, Holders
    <2> DEFINE row == [jobs[r] EXCEPT !.payload = asked[k] + 1,
                                      !.generation = @ + 1, !.due = FALSE]
    <2>3. row \in Row /\ row.status = jobs[r].status /\ row.lease = jobs[r].lease
      <3>1. jobs[r] \in Row
        BY DEF TypeOK
      <3>2. jobs[r].generation + 1 \in Nat /\ FALSE \in BOOLEAN
        BY <3>1 DEF Row
      <3> QED
        BY <2>1, <3>1, <3>2 DEF Row
    <2> QED
      BY <2>1, <2>2, <2>3, WriteType, <1>3 DEF NotifyRunning, TypeOK, Busy
  <1>4. ASSUME NEW k \in Keys, CloseUnstarted(k) PROVE TypeOK'
    <2> DEFINE closed(r) == [jobs[r] EXCEPT !.status = "succeeded", !.lease = "none",
                                            !.ending = "skipped"]
               row(r) == IF jobs[r].key = k /\ jobs[r].status \in Unstarted
                         THEN closed(r) ELSE jobs[r]
    <2>1. jobs' = [r \in Ids |-> row(r)]
      BY <1>4 DEF CloseUnstarted
    <2>2. ASSUME NEW r \in Ids
          PROVE  row(r) \in Row /\ (row(r).status = "running" <=> row(r).lease # "none")
      <3>1. jobs[r] \in Row /\ (jobs[r].status = "running" <=> jobs[r].lease # "none")
        BY DEF TypeOK
      <3>2. closed(r) \in Row
        BY <3>1, Values DEF Row
      <3>3. closed(r).status = "succeeded" /\ closed(r).lease = "none"
        BY <3>1 DEF Row
      <3> HIDE DEF closed
      <3> QED
        BY <3>1, <3>2, <3>3
    <2> HIDE DEF row
    <2>3. jobs' \in [Ids -> Row] /\ \A r \in Ids : jobs'[r] = row(r)
      BY <2>1, <2>2
    <2> QED
      BY <1>4, <2>2, <2>3 DEF CloseUnstarted, TypeOK, Busy
  <1>5. ASSUME NEW w \in Workers, Progress(w) PROVE TypeOK'
    <2>1. ASSUME worker[w].pc = "work", worker' \in [Workers -> Attempt],
                 worker'[w].job = worker[w].job,
                 \A v \in Workers \ {w} : worker'[v] = worker[v],
                 UNCHANGED <<jobs, asked, guildActive, faults>>
          PROVE  TypeOK'
      BY <2>1 DEF TypeOK, Busy
    <2>0. ASSUME worker[w].pc = "work", NEW next \in Attempt, next.job = worker[w].job,
                 Set(w, next), UNCHANGED <<jobs, asked, guildActive, faults>>
          PROVE  TypeOK'
      <3>1. /\ worker' \in [Workers -> Attempt] /\ worker'[w] = next
            /\ \A v \in Workers \ {w} : worker'[v] = worker[v]
        BY <2>0 DEF TypeOK
      <3> QED
        BY <2>0, <2>1, <3>1
    <2> worker[w] \in Attempt
      BY DEF TypeOK
    <2>2. CASE GuardRefuses(w)
      <3>1. PICK e \in {"lease_lost", "superseded"} : Set(w, Threw(w, e))
        BY <2>2 DEF GuardRefuses
      <3>2. Threw(w, e) \in Attempt /\ Threw(w, e).job = worker[w].job
        BY <3>1, Values DEF Threw, Attempt
      <3> QED
        BY <2>0, <2>2, <3>1, <3>2 DEF GuardRefuses
    <2>3. CASE Return(w)
      <3> DEFINE next == [worker[w] EXCEPT !.pc = "publish"]
      <3>1. next \in Attempt /\ next.job = worker[w].job
        BY Values DEF Attempt
      <3>2. Set(w, next)
        BY <2>3 DEF Return
      <3> HIDE DEF next
      <3> QED
        BY <2>0, <2>3, <3>1, <3>2 DEF Return
    <2>4. CASE Throw(w)
      <3>1. PICK e \in Errors : Set(w, Threw(w, e))
        BY <2>4 DEF Throw
      <3>2. Threw(w, e) \in Attempt /\ Threw(w, e).job = worker[w].job
        BY <3>1, Values DEF Threw, Attempt
      <3> QED
        BY <2>0, <2>4, <3>1, <3>2 DEF Throw
    <2>5. CASE Publish(w)
      <3>1. Busy(w) /\ Write(worker[w].job, Published(w)) /\ Set(w, Idle)
            /\ UNCHANGED <<asked, guildActive, faults>>
        BY <2>5 DEF Publish, Busy
      <3>2. /\ worker[w].job \in Ids /\ Published(w) \in Row
            /\ Published(w).status = "running" <=> Published(w).lease # "none"
        BY <3>1, PublishedType, JobType
      <3>3. /\ jobs' \in [Ids -> Row]
            /\ \A s \in Ids : jobs'[s].status = "running" <=> jobs'[s].lease # "none"
        BY <3>1, <3>2, WriteType
      <3> QED
        BY <3>1, <3>3, IdleType DEF TypeOK, Busy
    <2>6. CASE RecordFailure(w)
      <3>1. Busy(w) /\ WriteIndexed(worker[w].job, Recorded(w)) /\ Set(w, Idle)
            /\ UNCHANGED <<asked, guildActive, faults>>
        BY <2>6 DEF RecordFailure, Busy
      <3>2. PICK row \in {Job(w), Recorded(w)} : Write(worker[w].job, row)
        BY <3>1 DEF WriteIndexed, Job
      <3>3. /\ worker[w].job \in Ids /\ row \in Row
            /\ row.status = "running" <=> row.lease # "none"
        BY <3>1, <3>2, RecordedType, JobType
      <3>4. /\ jobs' \in [Ids -> Row]
            /\ \A s \in Ids : jobs'[s].status = "running" <=> jobs'[s].lease # "none"
        BY <3>2, <3>3, WriteType
      <3> QED
        BY <3>1, <3>4, IdleType DEF TypeOK, Busy
    <2> QED
      BY <1>5, <2>2, <2>3, <2>4, <2>5, <2>6 DEF Progress
  <1>6. ASSUME NEW w \in Workers, Fault(w) PROVE TypeOK'
    <2>1. CASE PublishLost(w)
      <3>1. Busy(w) /\ Threw(w, "transient") \in Attempt
            /\ Threw(w, "transient").job = worker[w].job
        <4>1. Busy(w) /\ worker[w] \in Attempt
          BY <2>1 DEF PublishLost, TypeOK, Busy
        <4> QED
          BY <4>1, Values DEF Threw, Attempt
      <3>2. PICK row \in {Job(w), Published(w)} : Write(worker[w].job, row)
        BY <2>1 DEF PublishLost
      <3>3. row \in Row /\ (row.status = "running" <=> row.lease # "none")
        BY <3>1, <3>2, PublishedType, JobType
      <3> QED
        BY <2>1, <3>1, <3>2, <3>3, JobType, WriteType DEF PublishLost, TypeOK, Busy
    <2>2. CASE RecordLost(w)
      BY <2>2, IdleType DEF RecordLost, TypeOK, Busy
    <2> QED
      BY <1>6, <2>1, <2>2 DEF Fault
  <1>7. ASSUME NEW w \in Workers, NEW r \in Ids, Claim(w, r) PROVE TypeOK'
    <2>1. worker'[w] \in Attempt /\ worker'[w].job = r
      <3>1. jobs[r] \in Row /\ r \in Nat
        BY DEF TypeOK, Ids
      <3>2. worker' = [worker EXCEPT ![w] =
              [pc |-> "work", job |-> r, generation |-> jobs[r].generation,
               payload |-> jobs[r].payload, attempts |-> jobs[r].attempts + 1,
               error |-> "none"]]
        BY <1>7 DEF Claim
      <3>3. /\ jobs[r].generation \in Nat /\ jobs[r].payload \in Nat
            /\ jobs[r].attempts + 1 \in Nat
        BY <3>1 DEF Row
      <3>4. worker'[w] = [pc |-> "work", job |-> r, generation |-> jobs[r].generation,
                          payload |-> jobs[r].payload, attempts |-> jobs[r].attempts + 1,
                          error |-> "none"]
        BY <3>2 DEF TypeOK
      <3> QED
        BY <3>1, <3>3, <3>4, Values DEF Attempt
    <2> QED
      BY <1>7, <2>1, ClaimedType, WriteType DEF Claim, TypeOK, Busy
  <1>8. ASSUME NEW w \in Workers, NEW r \in Ids, ClaimLost(w, r) PROVE TypeOK'
    BY <1>8, ClaimedType, WriteType DEF ClaimLost, TypeOK, Busy
  <1>9. ASSUME NEW r \in Ids, RetryJob(r) \/ SweepBlocked(r) \/ Clock(r) PROVE TypeOK'
    <2>0. jobs[r] \in Row /\ (jobs[r].status = "running" <=> jobs[r].lease # "none")
      BY DEF TypeOK
    <2>1. CASE RetryJob(r)
      <3> DEFINE row == [jobs[r] EXCEPT !.status = "queued", !.attempts = 0, !.due = TRUE,
                                        !.ending = "none"]
      <3>1. row \in Row
        BY <2>0, Values DEF Row
      <3>2. row.status = "queued" /\ row.lease = jobs[r].lease /\ jobs[r].status # "running"
        BY <2>0, <2>1 DEF Row, RetryJob
      <3>3. Write(r, row) /\ UNCHANGED <<worker, asked, guildActive>> /\ faults' \in Nat
        BY <2>1 DEF RetryJob, TypeOK
      <3> HIDE DEF row
      <3> QED
        BY <2>0, <3>1, <3>2, <3>3, TableStep
    <2>2. CASE SweepBlocked(r)
      <3> DEFINE row == [jobs[r] EXCEPT !.status = "queued", !.attempts = 0, !.due = FALSE]
      <3>1. row \in Row
        BY <2>0, Values DEF Row
      <3>2. row.status = "queued" /\ row.lease = jobs[r].lease /\ jobs[r].status # "running"
        BY <2>0, <2>2 DEF Row, SweepBlocked
      <3>3. Write(r, row) /\ UNCHANGED <<worker, asked, guildActive>> /\ faults' \in Nat
        BY <2>2 DEF SweepBlocked, TypeOK
      <3> HIDE DEF row
      <3> QED
        BY <2>0, <3>1, <3>2, <3>3, TableStep
    <2>3. CASE DueArrives(r)
      <3> DEFINE row == [jobs[r] EXCEPT !.due = TRUE]
      <3>1. row \in Row /\ row.status = jobs[r].status /\ row.lease = jobs[r].lease
        BY <2>0 DEF Row
      <3>2. Write(r, row) /\ UNCHANGED <<worker, asked, guildActive>> /\ faults' \in Nat
        BY <2>3 DEF DueArrives, TypeOK
      <3> HIDE DEF row
      <3> QED
        BY <2>0, <3>1, <3>2, TableStep
    <2> DEFINE lapsed == [jobs[r] EXCEPT !.lease = "expired"]
    <2>4. ASSUME jobs[r].status = "running"
          PROVE  lapsed \in Row /\ lapsed.status = "running" /\ lapsed.lease = "expired"
      BY <2>0, <2>4, Values DEF Row
    <2>5. CASE LeaseExpires(r)
      <3>1. /\ Write(r, lapsed) /\ jobs[r].status = "running"
            /\ UNCHANGED <<worker, asked, guildActive>> /\ faults' \in Nat
        BY <2>5 DEF LeaseExpires, TypeOK
      <3> HIDE DEF lapsed
      <3> QED
        BY <2>4, <3>1, TableStep
    <2>6. CASE LeaseStalls(r)
      <3>1. /\ Write(r, lapsed) /\ jobs[r].status = "running"
            /\ UNCHANGED <<worker, asked, guildActive>>
        BY <2>6 DEF LeaseStalls
      <3>2. faults' \in Nat
        BY <2>6 DEF LeaseStalls, TypeOK
      <3> HIDE DEF lapsed
      <3> QED
        BY <2>4, <3>1, <3>2, TableStep
    <2> QED
      BY <1>9, <2>1, <2>2, <2>3, <2>5, <2>6 DEF Clock
  <1>10. CASE Crash
    BY <1>10, IdleType DEF Crash, TypeOK, Busy
  <1>11. CASE GuildLeavesOrReturns
    BY <1>11 DEF GuildLeavesOrReturns, TypeOK, Busy
  <1>12. CASE UNCHANGED vars
    BY <1>12 DEF vars, TypeOK, Busy
  <1> QED
    BY <1>1, <1>2, <1>3, <1>4, <1>5, <1>6, <1>7, <1>8, <1>9, <1>10, <1>11, <1>12
       DEF Next, Produce

\* The table, the pool and the counters keep their types in every behaviour.
THEOREM TypeCorrect == Spec => []TypeOK
  BY TypeInit, TypeStep, PTL DEF Spec
-----------------------------------------------------------------------------
(* The inductive invariant.  A row's result is at most its payload, and its  *)
(* payload at most the inputs of its key; an attempt that still has the      *)
(* row's token read a generation no newer than the row's, and exactly its    *)
(* payload if the generations agree; until it throws, its row runs.  The     *)
(* last part is why a completion can never meet another active row.          *)

RowOK(row, inputs) ==
  /\ row.ran <= row.payload /\ row.payload <= inputs[row.key]
  /\ row.status = "absent" => row.ran = 0 /\ row.token = NoWorker
  /\ row.status = "succeeded" /\ row.ending = "ran" => row.ran = row.payload

AttemptOK(attempt, w, row) ==
  attempt.pc # "idle" /\ row.token = w =>
    /\ row.ran <= attempt.payload /\ attempt.payload <= row.payload
    /\ attempt.generation <= row.generation
    /\ attempt.generation = row.generation => attempt.payload = row.payload
    /\ attempt.pc \in {"work", "publish"} => row.status = "running"

RowsOK == \A r \in Ids : RowOK(jobs[r], asked)
AttemptsOK == \A w \in Workers : Busy(w) => AttemptOK(worker[w], w, Job(w))

IInv == TypeOK /\ OneActiveRowPerKey /\ RowsOK /\ AttemptsOK

LEMMA InvInit == Init => IInv
  <1> SUFFICES ASSUME Init PROVE IInv
    OBVIOUS
  <1>1. TypeOK
    BY TypeInit
  <1>2. \A r \in Ids : /\ jobs[r].status = "absent" /\ jobs[r].token = NoWorker
                       /\ jobs[r].ran = 0 /\ jobs[r].payload = 0
    BY DEF Init, NewRow
  <1>3. \A w \in Workers : ~Busy(w)
    BY IdleType DEF Init, Busy
  <1>4. \A r \in Ids : 0 <= asked[jobs[r].key]
    BY <1>1 DEF TypeOK, Row
  <1> QED
    BY <1>1, <1>2, <1>3, <1>4 DEF IInv, OneActiveRowPerKey, Active, RowsOK, RowOK, AttemptsOK

\* Writing one row keeps one active row per key, if no other active row has it.
LEMMA WriteOneActive ==
  ASSUME OneActiveRowPerKey, TypeOK, NEW r \in Ids, NEW row, Write(r, row),
         \A s \in Ids \ {r} :
           row.status \in Active /\ jobs[s].status \in Active => jobs[s].key # row.key
  PROVE  OneActiveRowPerKey'
  BY DEF OneActiveRowPerKey, Write, TypeOK

\* In particular if the row was active with the same key before.
LEMMA WriteStaysActive ==
  ASSUME OneActiveRowPerKey, TypeOK, NEW r \in Ids, NEW row, Write(r, row),
         row.key = jobs[r].key, row.status \in Active => jobs[r].status \in Active
  PROVE  OneActiveRowPerKey'
  <1>1. \A s \in Ids \ {r} :
          row.status \in Active /\ jobs[s].status \in Active => jobs[s].key # row.key
    BY DEF OneActiveRowPerKey
  <1> QED
    BY <1>1, WriteOneActive

\* Writing one row keeps the rows and the attempts in step.
LEMMA WriteKeeps ==
  ASSUME TypeOK, TypeOK', RowsOK, NEW r \in Ids, NEW row, Write(r, row),
         RowOK(row, asked'),
         \A k \in Keys : asked[k] <= asked'[k],
         \A v \in Workers : Busy(v)' =>
           AttemptOK(worker'[v], v, IF worker'[v].job = r THEN row ELSE jobs[worker'[v].job])
  PROVE  RowsOK' /\ AttemptsOK'
  <1>1. jobs'[r] = row /\ \A s \in Ids \ {r} : jobs'[s] = jobs[s]
    BY DEF Write, TypeOK
  <1>2. ASSUME NEW s \in Ids \ {r} PROVE RowOK(jobs'[s], asked')
    <2>1. /\ jobs[s].payload \in Nat /\ asked[jobs[s].key] \in Nat
          /\ asked'[jobs[s].key] \in Nat /\ asked[jobs[s].key] <= asked'[jobs[s].key]
      BY DEF TypeOK, Row
    <2> QED
      BY <1>1, <2>1 DEF RowsOK, RowOK
  <1>3. \A v \in Workers : Busy(v)' => Job(v)' = jobs'[worker'[v].job] /\ worker'[v].job \in Ids
    BY DEF TypeOK, Job
  <1> QED
    BY <1>1, <1>2, <1>3 DEF RowsOK, AttemptsOK

\* An attempt that stays as it is, or ends, stays in step with a row whose
\* token, payload, generation and result do not change and that keeps running.
LEMMA SameAttempt ==
  ASSUME NEW w, NEW row, NEW new, NEW attempt, AttemptOK(attempt, w, row),
         new.token = row.token, new.payload = row.payload,
         new.generation = row.generation, new.ran = row.ran,
         row.status = "running" => new.status = "running"
  PROVE  AttemptOK(attempt, w, new)
  BY DEF AttemptOK

\* Statements that only move a row between its resting states.
LEMMA RestingStep ==
  ASSUME IInv, TypeOK', NEW r \in Ids, NEW row, Write(r, row),
         row.key = jobs[r].key, row.token = jobs[r].token,
         row.payload = jobs[r].payload, row.generation = jobs[r].generation,
         row.ran = jobs[r].ran,
         jobs[r].status = "running" => row.status = "running",
         row.status = "absent" => jobs[r].status = "absent",
         row.status = "succeeded" /\ row.ending = "ran" =>
           jobs[r].status = "succeeded" /\ jobs[r].ending = "ran",
         UNCHANGED <<worker, asked>>
  PROVE  RowsOK' /\ AttemptsOK'
  <1>1. RowOK(row, asked')
    BY DEF IInv, RowsOK, RowOK
  <1>2. ASSUME NEW v \in Workers, Busy(v)'
        PROVE  AttemptOK(worker'[v], v,
                         IF worker'[v].job = r THEN row ELSE jobs[worker'[v].job])
    <2>1. AttemptOK(worker[v], v, jobs[worker[v].job])
      BY <1>2 DEF IInv, AttemptsOK, Busy, Job
    <2>2. CASE worker[v].job = r
      BY <2>1, <2>2, SameAttempt
    <2> QED
      BY <2>1, <2>2
  <1>3. \A k \in Keys : asked[k] <= asked'[k]
    BY DEF IInv, TypeOK
  <1> QED
    BY <1>1, <1>2, <1>3, WriteKeeps DEF IInv

LEMMA EnqueueInv ==
  ASSUME IInv, TypeOK', NEW k \in Keys, Enqueue(k)
  PROVE  IInv'
  <1>1. /\ asked[k] \in Nat /\ asked'[k] = asked[k] + 1
        /\ \A l \in Keys : asked[l] \in Nat /\ asked[l] <= asked'[l]
    <2>1. asked' = [asked EXCEPT ![k] = asked[k] + 1]
      BY DEF Enqueue
    <2>2. asked \in [Keys -> Nat]
      BY DEF IInv, TypeOK
    <2> QED
      BY <2>1, <2>2
  <1>2. PICK now \in BOOLEAN :
          \/ \E r \in Holders(k) :
               Write(r, [jobs[r] EXCEPT !.payload = asked[k] + 1,
                                        !.generation = @ + 1,
                                        !.due = @ \/ now,
                                        !.status = IF @ = "blocked" THEN "queued" ELSE @])
          \/ /\ Holders(k) = {}
             /\ \E r \in Ids : NextRow(r) /\ Write(r, NewRow(k, asked[k] + 1, now))
    BY DEF Enqueue
  <1>3. worker' = worker
    BY DEF Enqueue
  <1>4. ASSUME NEW r \in Holders(k),
               Write(r, [jobs[r] EXCEPT !.payload = asked[k] + 1,
                                        !.generation = @ + 1,
                                        !.due = @ \/ now,
                                        !.status = IF @ = "blocked" THEN "queued" ELSE @])
        PROVE  IInv'
    <2> DEFINE row == [jobs[r] EXCEPT !.payload = asked[k] + 1,
                                      !.generation = @ + 1,
                                      !.due = @ \/ now,
                                      !.status = IF @ = "blocked" THEN "queued" ELSE @]
    <2>1. r \in Ids /\ jobs[r] \in Row /\ jobs[r].key = k /\ jobs[r].status \in Active
      BY DEF Holders, IInv, TypeOK
    <2>2. /\ row.key = k /\ row.payload = asked[k] + 1 /\ row.ran = jobs[r].ran
          /\ row.generation = jobs[r].generation + 1 /\ row.token = jobs[r].token
          /\ row.status \in Active /\ (jobs[r].status = "running" => row.status = "running")
      BY <2>1 DEF Row, Active
    <2>3. jobs[r].ran <= asked[k] /\ jobs[r].ran \in Nat /\ jobs[r].payload <= asked[k]
          /\ jobs[r].payload \in Nat /\ jobs[r].generation \in Nat
      BY <1>1, <2>1 DEF IInv, RowsOK, RowOK, Row
    <2> HIDE DEF row
    <2>4. RowOK(row, asked')
      BY <1>1, <2>2, <2>3 DEF RowOK, Active
    <2>5. ASSUME NEW v \in Workers, Busy(v)'
          PROVE  AttemptOK(worker'[v], v,
                           IF worker'[v].job = r THEN row ELSE jobs[worker'[v].job])
      <3>1. AttemptOK(worker[v], v, jobs[worker[v].job]) /\ worker[v] \in Attempt
        BY <1>3, <2>5 DEF IInv, AttemptsOK, Busy, Job, TypeOK
      <3>2. CASE worker[v].job = r
        <4>1. worker[v].payload \in Nat /\ worker[v].generation \in Nat
          BY <3>1 DEF Attempt
        <4> QED
          BY <1>1, <1>3, <2>2, <2>3, <3>1, <3>2, <4>1 DEF AttemptOK
      <3> QED
        BY <1>3, <3>1, <3>2
    <2>6. OneActiveRowPerKey'
      BY <1>4, <2>1, <2>2, WriteStaysActive DEF IInv, row
    <2>7. Write(r, row)
      BY <1>4 DEF row
    <2> QED
      BY <1>1, <2>1, <2>4, <2>5, <2>6, <2>7, WriteKeeps DEF IInv
  <1>5. ASSUME NEW r \in Ids, Holders(k) = {}, Write(r, NewRow(k, asked[k] + 1, now))
        PROVE  IInv'
    <2> DEFINE row == NewRow(k, asked[k] + 1, now)
    <2>1. /\ row.key = k /\ row.payload = asked[k] + 1 /\ row.ran = 0
          /\ row.status = "queued" /\ row.token = NoWorker
      BY DEF NewRow
    <2> HIDE DEF row
    <2>2. RowOK(row, asked')
      BY <1>1, <2>1 DEF RowOK
    <2>3. ASSUME NEW v \in Workers, Busy(v)'
          PROVE  AttemptOK(worker'[v], v,
                           IF worker'[v].job = r THEN row ELSE jobs[worker'[v].job])
      <3>1. AttemptOK(worker[v], v, jobs[worker[v].job])
        BY <1>3, <2>3 DEF IInv, AttemptsOK, Busy, Job
      <3> QED
        BY <1>3, <2>1, <3>1, WorkerAssumption DEF AttemptOK
    <2>4. Write(r, row)
      BY <1>5 DEF row
    <2>5. OneActiveRowPerKey'
      BY <1>5, <2>1, <2>4, WriteOneActive DEF IInv, Holders
    <2> QED
      BY <1>1, <2>2, <2>3, <2>4, <2>5, WriteKeeps DEF IInv
  <1> QED
    BY <1>2, <1>4, <1>5

LEMMA ScheduleInv ==
  ASSUME IInv, TypeOK', NEW k \in Keys, ScheduleJob(k)
  PROVE  IInv'
  <1>1. /\ asked[k] \in Nat /\ asked'[k] = asked[k] + 1
        /\ \A l \in Keys : asked[l] \in Nat /\ asked[l] <= asked'[l]
        /\ worker' = worker /\ Holders(k) = {}
    BY DEF IInv, TypeOK, ScheduleJob
  <1>2. PICK now \in BOOLEAN, r \in Ids : Write(r, NewRow(k, asked[k] + 1, now))
    BY DEF ScheduleJob
  <1> DEFINE row == NewRow(k, asked[k] + 1, now)
  <1>3. /\ row.key = k /\ row.payload = asked[k] + 1 /\ row.ran = 0
        /\ row.status = "queued" /\ row.token = NoWorker
    BY DEF NewRow
  <1> HIDE DEF row
  <1>4. RowOK(row, asked')
    BY <1>1, <1>3 DEF RowOK
  <1>5. ASSUME NEW v \in Workers, Busy(v)'
        PROVE  AttemptOK(worker'[v], v,
                         IF worker'[v].job = r THEN row ELSE jobs[worker'[v].job])
    <2>1. AttemptOK(worker[v], v, jobs[worker[v].job])
      BY <1>1, <1>5 DEF IInv, AttemptsOK, Busy, Job
    <2> QED
      BY <1>1, <1>3, <2>1, WorkerAssumption DEF AttemptOK
  <1>6. Write(r, row)
    BY <1>2 DEF row
  <1>7. OneActiveRowPerKey'
    BY <1>1, <1>3, <1>6, WriteOneActive DEF IInv, Holders
  <1> QED
    BY <1>1, <1>4, <1>5, <1>6, <1>7, WriteKeeps DEF IInv

LEMMA NotifyInv ==
  ASSUME IInv, TypeOK', NEW k \in Keys, NotifyRunning(k)
  PROVE  IInv'
  <1>1. /\ asked[k] \in Nat /\ asked'[k] = asked[k] + 1
        /\ \A l \in Keys : asked[l] \in Nat /\ asked[l] <= asked'[l]
        /\ worker' = worker
    BY DEF IInv, TypeOK, NotifyRunning
  <1>2. PICK r \in Holders(k) :
          /\ jobs[r].status = "running"
          /\ Write(r, [jobs[r] EXCEPT !.payload = asked[k] + 1,
                                      !.generation = @ + 1, !.due = FALSE])
    BY DEF NotifyRunning
  <1> DEFINE row == [jobs[r] EXCEPT !.payload = asked[k] + 1,
                                    !.generation = @ + 1, !.due = FALSE]
  <1>3. r \in Ids /\ jobs[r] \in Row /\ jobs[r].key = k
    BY DEF Holders, IInv, TypeOK
  <1>4. /\ row.key = k /\ row.payload = asked[k] + 1 /\ row.ran = jobs[r].ran
        /\ row.generation = jobs[r].generation + 1 /\ row.token = jobs[r].token
        /\ row.status = "running"
    BY <1>2, <1>3 DEF Row
  <1>5. jobs[r].ran <= asked[k] /\ jobs[r].ran \in Nat /\ jobs[r].payload <= asked[k]
        /\ jobs[r].payload \in Nat /\ jobs[r].generation \in Nat
    BY <1>1, <1>3 DEF IInv, RowsOK, RowOK, Row
  <1> HIDE DEF row
  <1>6. RowOK(row, asked')
    BY <1>1, <1>4, <1>5 DEF RowOK
  <1>7. ASSUME NEW v \in Workers, Busy(v)'
        PROVE  AttemptOK(worker'[v], v,
                         IF worker'[v].job = r THEN row ELSE jobs[worker'[v].job])
    <2>1. AttemptOK(worker[v], v, jobs[worker[v].job]) /\ worker[v] \in Attempt
      BY <1>1, <1>7 DEF IInv, AttemptsOK, Busy, Job, TypeOK
    <2>2. CASE worker[v].job = r
      <3>1. worker[v].payload \in Nat /\ worker[v].generation \in Nat
        BY <2>1 DEF Attempt
      <3> QED
        BY <1>1, <1>4, <1>5, <2>1, <2>2, <3>1 DEF AttemptOK
    <2> QED
      BY <1>1, <2>1, <2>2
  <1>8. Write(r, row)
    BY <1>2 DEF row
  <1>9. OneActiveRowPerKey'
    BY <1>2, <1>3, <1>4, <1>8, WriteStaysActive DEF IInv, Active
  <1> QED
    BY <1>1, <1>3, <1>6, <1>7, <1>8, <1>9, WriteKeeps DEF IInv

LEMMA CloseInv ==
  ASSUME IInv, TypeOK', NEW k \in Keys, CloseUnstarted(k)
  PROVE  IInv'
  <1>1. worker' = worker /\ asked' = asked
    BY DEF CloseUnstarted
  <1>2. \A r \in Ids :
          /\ jobs'[r].key = jobs[r].key /\ jobs'[r].token = jobs[r].token
          /\ jobs'[r].payload = jobs[r].payload /\ jobs'[r].generation = jobs[r].generation
          /\ jobs'[r].ran = jobs[r].ran
          /\ jobs'[r] = jobs[r] \/ (/\ jobs'[r].status = "succeeded" /\ jobs'[r].ending = "skipped"
                                    /\ jobs[r].status # "running")
    <2> TAKE r \in Ids
    <2>1. jobs[r] \in Row /\ \A s \in Ids : jobs[s] \in Row
      BY DEF IInv, TypeOK
    <2> DEFINE closed == [jobs[r] EXCEPT !.status = "succeeded", !.lease = "none",
                                         !.ending = "skipped"]
    <2>2. jobs'[r] = IF jobs[r].key = k /\ jobs[r].status \in Unstarted THEN closed ELSE jobs[r]
      BY DEF CloseUnstarted
    <2>3. /\ closed.key = jobs[r].key /\ closed.token = jobs[r].token
          /\ closed.payload = jobs[r].payload /\ closed.generation = jobs[r].generation
          /\ closed.ran = jobs[r].ran
          /\ closed.status = "succeeded" /\ closed.ending = "skipped"
      BY <2>1 DEF Row
    <2>4. "running" \notin Unstarted
      BY DEF Unstarted
    <2> HIDE DEF closed
    <2> QED
      BY <2>2, <2>3, <2>4
  <1>3. OneActiveRowPerKey'
    BY <1>2 DEF IInv, OneActiveRowPerKey, Active
  <1>4. RowsOK'
    BY <1>1, <1>2 DEF IInv, RowsOK, RowOK
  <1>5. AttemptsOK'
    <2> SUFFICES ASSUME NEW v \in Workers, Busy(v)'
                 PROVE  AttemptOK(worker[v], v, jobs'[worker[v].job])
      BY <1>1 DEF AttemptsOK, Job
    <2>1. AttemptOK(worker[v], v, jobs[worker[v].job]) /\ worker[v].job \in Ids
      BY <1>1 DEF IInv, AttemptsOK, Busy, Job, TypeOK
    <2> QED
      BY <1>2, <2>1, SameAttempt
  <1> QED
    BY <1>3, <1>4, <1>5 DEF IInv

\* A worker that only moves on within its attempt writes no row.
LEMMA WorkInv ==
  ASSUME IInv, TypeOK', NEW w \in Workers, GuardRefuses(w) \/ Return(w) \/ Throw(w)
  PROVE  IInv'
  <1>1. worker[w] \in Attempt /\ worker \in [Workers -> Attempt]
    BY DEF IInv, TypeOK
  <1>2. /\ jobs' = jobs /\ asked' = asked /\ worker[w].pc = "work"
        /\ \A v \in Workers \ {w} : worker'[v] = worker[v]
        /\ worker'[w].job = worker[w].job /\ worker'[w].payload = worker[w].payload
        /\ worker'[w].generation = worker[w].generation
    <2>1. PICK attempt \in {Threw(w, e) : e \in Codes} \cup {[worker[w] EXCEPT !.pc = "publish"]} :
            Set(w, attempt)
      BY Values DEF GuardRefuses, Return, Throw
    <2>2. /\ attempt.job = worker[w].job /\ attempt.payload = worker[w].payload
          /\ attempt.generation = worker[w].generation
      BY <1>1 DEF Threw, Attempt
    <2>3. worker' = [worker EXCEPT ![w] = attempt]
      BY <2>1 DEF Set
    <2>4. jobs' = jobs /\ asked' = asked /\ worker[w].pc = "work"
      BY DEF GuardRefuses, Return, Throw
    <2> QED
      BY <1>1, <2>2, <2>3, <2>4
  <1>3. AttemptsOK'
    <2> SUFFICES ASSUME NEW v \in Workers, Busy(v)'
                 PROVE  AttemptOK(worker'[v], v, jobs[worker'[v].job])
      BY <1>2 DEF AttemptsOK, Job
    <2>1. CASE v = w
      BY <1>2, <2>1 DEF IInv, AttemptsOK, AttemptOK, Busy, Job
    <2>2. CASE v # w
      BY <1>2, <2>2 DEF IInv, AttemptsOK, Busy, Job
    <2> QED
      BY <2>1, <2>2
  <1> QED
    BY <1>2, <1>3 DEF IInv, OneActiveRowPerKey, RowsOK

\* What an attempt publishes keeps its row in step with the other attempts.
LEMMA PublishedOK ==
  ASSUME IInv, NEW w \in Workers, worker[w].pc = "publish"
  PROVE  /\ RowOK(Published(w), asked)
         /\ Published(w).status \in Active => Job(w).status \in Active
         /\ Published(w).ran >= Job(w).ran
         /\ \A v \in Workers \ {w} :
              Busy(v) /\ worker[v].job = worker[w].job => AttemptOK(worker[v], v, Published(w))
         /\ \A attempt : attempt = Threw(w, "transient") => AttemptOK(attempt, w, Published(w))
  <1>1. Busy(w) /\ worker[w] \in Attempt /\ Job(w) \in Row /\ worker[w].job \in Ids
    BY JobType DEF IInv, Busy
  <1>2. /\ worker[w].payload \in Nat /\ worker[w].generation \in Nat
        /\ Job(w).payload \in Nat /\ Job(w).ran \in Nat /\ Job(w).generation \in Nat
        /\ asked[Job(w).key] \in Nat
    BY <1>1 DEF Attempt, Row, IInv, TypeOK
  <1>3. RowOK(Job(w), asked) /\ AttemptOK(worker[w], w, Job(w))
    BY <1>1 DEF IInv, RowsOK, AttemptsOK, Job
  <1>4. CASE Job(w).token # w
    <2>1. Published(w) = Job(w)
      BY <1>4 DEF Published
    <2>2. \A v \in Workers : Busy(v) /\ worker[v].job = worker[w].job => AttemptOK(worker[v], v, Job(w))
      BY DEF IInv, AttemptsOK, Job
    <2> QED
      BY <1>2, <1>3, <1>4, <2>1, <2>2 DEF AttemptOK
  <1>5. CASE Job(w).token = w
    <2>1. /\ Published(w).key = Job(w).key /\ Published(w).token = w
          /\ Published(w).payload = Job(w).payload /\ Published(w).ran = worker[w].payload
          /\ Published(w).generation = Job(w).generation
          /\ Published(w).status = IF Job(w).generation = worker[w].generation
                                   THEN "succeeded" ELSE "queued"
      BY <1>1, <1>5 DEF Published, Row
    <2>2. /\ Job(w).status = "running" /\ Job(w).ran <= worker[w].payload
          /\ worker[w].payload <= Job(w).payload
          /\ worker[w].generation <= Job(w).generation
          /\ worker[w].generation = Job(w).generation => worker[w].payload = Job(w).payload
      BY <1>1, <1>3, <1>5 DEF AttemptOK, Busy
    <2>3. RowOK(Published(w), asked)
      BY <1>2, <1>3, <2>1, <2>2 DEF RowOK
    <2>4. \A v \in Workers \ {w} : AttemptOK(worker[v], v, Published(w))
      BY <2>1 DEF AttemptOK
    <2>5. AttemptOK(Threw(w, "transient"), w, Published(w))
      <3>1. /\ Threw(w, "transient").pc = "threw"
            /\ Threw(w, "transient").payload = worker[w].payload
            /\ Threw(w, "transient").generation = worker[w].generation
        BY <1>1 DEF Threw, Attempt
      <3> QED
        BY <1>2, <2>1, <2>2, <3>1 DEF AttemptOK
    <2> QED
      BY <1>2, <2>1, <2>2, <2>3, <2>4, <2>5 DEF Active
  <1> QED
    BY <1>4, <1>5

LEMMA PublishInv ==
  ASSUME IInv, TypeOK', NEW w \in Workers, Publish(w) \/ PublishLost(w)
  PROVE  IInv' /\ \A r \in Ids : jobs'[r].ran >= jobs[r].ran
  <1> DEFINE r == worker[w].job
  <1>1. worker[w].pc = "publish" /\ r \in Ids /\ asked' = asked /\ Busy(w)
        /\ worker \in [Workers -> Attempt] /\ Job(w) = jobs[r]
    BY DEF IInv, TypeOK, Publish, PublishLost, Busy, Job
  <1>2. PICK row \in {Job(w), Published(w)} : Write(r, row)
    BY DEF Publish, PublishLost
  <1>3. /\ worker'[w] \in {Idle, Threw(w, "transient")}
        /\ \A v \in Workers \ {w} : worker'[v] = worker[v]
    BY <1>1 DEF Publish, PublishLost, Set
  <1>4. /\ RowOK(row, asked) /\ (row.status \in Active => Job(w).status \in Active)
        /\ row.key = Job(w).key /\ row.ran >= Job(w).ran
    <2>1. Job(w).ran \in Nat
      BY <1>1 DEF IInv, TypeOK, Row
    <2> QED
      BY <1>1, <1>2, <2>1, PublishedOK, PublishedType DEF IInv, RowsOK
  <1>5. ASSUME NEW v \in Workers, Busy(v)'
        PROVE  AttemptOK(worker'[v], v, IF worker'[v].job = r THEN row ELSE jobs[worker'[v].job])
    <2>1. CASE v = w
      <3>1. worker'[w] = Threw(w, "transient")
        BY <1>3, <1>5, <2>1, IdleType DEF Busy
      <3>2. /\ worker'[w].job = r /\ worker'[w].pc = "threw"
            /\ worker'[w].payload = worker[w].payload
            /\ worker'[w].generation = worker[w].generation
        BY <1>1, <3>1 DEF Threw, Attempt
      <3>3. AttemptOK(worker[w], w, Job(w))
        BY <1>1 DEF IInv, AttemptsOK
      <3>4. AttemptOK(worker'[w], w, Job(w))
        BY <1>1, <3>2, <3>3 DEF AttemptOK
      <3> QED
        BY <1>1, <1>2, <2>1, <3>1, <3>2, <3>4, PublishedOK
    <2>2. CASE v # w
      <3>1. worker'[v] = worker[v] /\ Busy(v)
        BY <1>3, <1>5, <2>2 DEF Busy
      <3>2. AttemptOK(worker[v], v, jobs[worker[v].job])
        BY <3>1 DEF IInv, AttemptsOK, Job
      <3> QED
        BY <1>1, <1>2, <2>2, <3>1, <3>2, PublishedOK
    <2> QED
      BY <2>1, <2>2
  <1>6. RowsOK' /\ AttemptsOK'
    <2>1. \A k \in Keys : asked[k] <= asked'[k]
      BY <1>1 DEF IInv, TypeOK
    <2> HIDE DEF r
    <2> QED
      BY <1>1, <1>2, <1>4, <1>5, <2>1, WriteKeeps DEF IInv
  <1>7. OneActiveRowPerKey'
    BY <1>1, <1>2, <1>4, WriteStaysActive DEF IInv
  <1>8. \A s \in Ids : jobs'[s].ran >= jobs[s].ran
    BY <1>1, <1>2, <1>4 DEF Write, IInv, TypeOK, Row
  <1> QED
    BY <1>6, <1>7, <1>8 DEF IInv

LEMMA RecordInv ==
  ASSUME IInv, TypeOK', NEW w \in Workers, RecordFailure(w) \/ RecordLost(w)
  PROVE  IInv' /\ \A r \in Ids : jobs'[r].ran = jobs[r].ran
  <1>1. /\ worker[w].pc = "threw" /\ asked' = asked /\ Busy(w) /\ worker[w].job \in Ids
        /\ worker'[w] = Idle /\ \A v \in Workers \ {w} : worker'[v] = worker[v]
    BY DEF IInv, TypeOK, RecordFailure, RecordLost, Busy, Set
  <1>2. \A v \in Workers : Busy(v)' => v # w /\ worker'[v] = worker[v] /\ Busy(v)
    BY <1>1, IdleType DEF Busy
  <1>3. CASE RecordLost(w)
    <2>1. jobs' = jobs
      BY <1>3 DEF RecordLost
    <2> QED
      BY <1>1, <1>2, <2>1 DEF IInv, OneActiveRowPerKey, RowsOK, AttemptsOK, Job
  <1>4. CASE RecordFailure(w)
    <2> DEFINE r == worker[w].job
               row == IF Recorded(w).status \in Active /\ Others(r) # {} THEN jobs[r]
                      ELSE Recorded(w)
    <2>1. Write(r, row)
      BY <1>4 DEF RecordFailure, WriteIndexed
    <2>2. jobs[r] \in Row /\ Job(w) = jobs[r] /\ Recorded(w).key = jobs[r].key
      BY <1>1, RecordedType DEF IInv, TypeOK, Job
    <2>3. /\ row.key = jobs[r].key /\ row.token = jobs[r].token
          /\ row.payload = jobs[r].payload /\ row.generation = jobs[r].generation
          /\ row.ran = jobs[r].ran
          /\ row = jobs[r] \/ (row = Recorded(w) /\ jobs[r].token = w)
      BY <2>2 DEF Recorded, Row
    <2>4. row = jobs[r] \/
            (row.status # "absent" /\ (row.status = "succeeded" => row.ending # "ran"))
      <3>1. Outcome(worker[w].error, worker[w].attempts) # "absent"
        BY OutcomeType DEF IInv, TypeOK, Attempt
      <3>2. Recorded(w) = jobs[r] \/
              (/\ Recorded(w).status = Outcome(worker[w].error, worker[w].attempts)
               /\ Recorded(w).ending \in {"gone", "none"})
        BY <2>2 DEF Recorded, Row
      <3> QED
        BY <3>1, <3>2
    <2>5. \A s \in Ids \ {r} :
            row.status \in Active /\ jobs[s].status \in Active => jobs[s].key # row.key
      BY <1>1, <2>2 DEF IInv, OneActiveRowPerKey, Others, Holders
    <2> HIDE DEF row
    <2>6. OneActiveRowPerKey'
      BY <1>1, <2>1, <2>5, WriteOneActive DEF IInv
    <2>7. RowOK(row, asked')
      BY <1>1, <2>3, <2>4 DEF IInv, RowsOK, RowOK
    <2>8. ASSUME NEW v \in Workers, Busy(v)'
          PROVE  AttemptOK(worker'[v], v,
                           IF worker'[v].job = r THEN row ELSE jobs[worker'[v].job])
      <3>1. v # w /\ worker'[v] = worker[v] /\ AttemptOK(worker[v], v, jobs[worker[v].job])
        BY <1>2, <2>8 DEF IInv, AttemptsOK, Job
      <3>2. CASE worker[v].job = r
        BY <2>3, <3>1, <3>2 DEF AttemptOK
      <3> QED
        BY <3>1, <3>2
    <2>9. RowsOK' /\ AttemptsOK'
      <3>1. \A k \in Keys : asked[k] <= asked'[k]
        BY <1>1 DEF IInv, TypeOK
      <3> HIDE DEF r
      <3> QED
        BY <1>1, <2>1, <2>7, <2>8, <3>1, WriteKeeps DEF IInv, r
    <2>10. \A s \in Ids : jobs'[s].ran = jobs[s].ran
      BY <1>1, <2>1, <2>3 DEF Write, IInv, TypeOK
    <2> QED
      BY <2>6, <2>9, <2>10 DEF IInv
  <1> QED
    BY <1>3, <1>4

LEMMA ClaimInv ==
  ASSUME IInv, TypeOK', NEW w \in Workers, NEW r \in Ids, Claim(w, r) \/ ClaimLost(w, r)
  PROVE  IInv' /\ \A s \in Ids : jobs'[s].ran = jobs[s].ran
  <1>1. /\ ~Busy(w) /\ asked' = asked /\ Write(r, Claimed(w, r)) /\ jobs[r].status \in Active
        /\ \A v \in Workers \ {w} : worker'[v] = worker[v]
    BY DEF Claim, ClaimLost, Claimable, Active, Set, IInv, TypeOK
  <1>2. /\ worker' = worker
        \/ worker'[w] = [pc |-> "work", job |-> r, generation |-> jobs[r].generation,
                         payload |-> jobs[r].payload, attempts |-> jobs[r].attempts + 1,
                         error |-> "none"]
    BY DEF Claim, ClaimLost, Set, IInv, TypeOK
  <1> DEFINE row == Claimed(w, r)
  <1>3. jobs[r] \in Row /\ RowOK(jobs[r], asked)
    BY DEF IInv, TypeOK, RowsOK
  <1>4. /\ row.key = jobs[r].key /\ row.token = w /\ row.payload = jobs[r].payload
        /\ row.generation = jobs[r].generation /\ row.ran = jobs[r].ran
        /\ row.status = "running"
    BY <1>3 DEF Claimed, Row
  <1>5. jobs[r].ran \in Nat /\ jobs[r].payload \in Nat /\ jobs[r].generation \in Nat
    BY <1>3 DEF Row
  <1>6. OneActiveRowPerKey'
    BY <1>1, <1>4, WriteStaysActive DEF IInv
  <1> HIDE DEF row
  <1>7. RowOK(row, asked')
    BY <1>1, <1>3, <1>4 DEF RowOK
  <1>8. ASSUME NEW v \in Workers, Busy(v)'
        PROVE  AttemptOK(worker'[v], v,
                         IF worker'[v].job = r THEN row ELSE jobs[worker'[v].job])
    <2>1. CASE v = w
      <3>1. worker'[w] = [pc |-> "work", job |-> r, generation |-> jobs[r].generation,
                          payload |-> jobs[r].payload, attempts |-> jobs[r].attempts + 1,
                          error |-> "none"]
        BY <1>1, <1>2, <1>8, <2>1 DEF Busy
      <3>2. /\ worker'[w].job = r /\ worker'[w].payload = jobs[r].payload
            /\ worker'[w].generation = jobs[r].generation
        BY <3>1
      <3> QED
        BY <1>3, <1>4, <1>5, <2>1, <3>2 DEF AttemptOK, RowOK
    <2>2. CASE v # w
      <3>1. worker'[v] = worker[v] /\ AttemptOK(worker[v], v, jobs[worker[v].job])
        BY <1>1, <1>8, <2>2 DEF IInv, AttemptsOK, Busy, Job
      <3>2. CASE worker[v].job = r
        BY <1>4, <2>2, <3>1, <3>2 DEF AttemptOK
      <3> QED
        BY <3>1, <3>2
    <2> QED
      BY <2>1, <2>2
  <1>9. RowsOK' /\ AttemptsOK'
    <2>1. Write(r, row) /\ \A k \in Keys : asked[k] <= asked'[k]
      BY <1>1 DEF IInv, TypeOK, row
    <2> QED
      BY <1>7, <1>8, <2>1, WriteKeeps DEF IInv
  <1>10. \A s \in Ids : jobs'[s].ran = jobs[s].ran
    BY <1>1, <1>4 DEF Write, IInv, TypeOK, row
  <1> QED
    BY <1>6, <1>9, <1>10 DEF IInv

LEMMA RestingInv ==
  ASSUME IInv, TypeOK', NEW r \in Ids, RetryJob(r) \/ SweepBlocked(r) \/ Clock(r)
  PROVE  IInv' /\ \A s \in Ids : jobs'[s].ran = jobs[s].ran
  <1>1. jobs[r] \in Row /\ worker' = worker /\ asked' = asked
    BY DEF IInv, TypeOK, RetryJob, SweepBlocked, Clock, DueArrives, LeaseExpires, LeaseStalls
  <1>2. PICK row :
          /\ Write(r, row)
          /\ row.key = jobs[r].key /\ row.token = jobs[r].token
          /\ row.payload = jobs[r].payload /\ row.generation = jobs[r].generation
          /\ row.ran = jobs[r].ran
          /\ \/ row.status = "queued" /\ jobs[r].status # "running" /\ Others(r) = {}
             \/ row.status = "queued" /\ jobs[r].status = "blocked"
             \/ row.status = jobs[r].status /\ jobs[r].status # "succeeded"
    <2>1. CASE RetryJob(r)
      <3> WITNESS [jobs[r] EXCEPT !.status = "queued", !.attempts = 0, !.due = TRUE,
                                  !.ending = "none"]
      <3> QED
        BY <1>1, <2>1 DEF RetryJob, Row
    <2>2. CASE SweepBlocked(r)
      <3> WITNESS [jobs[r] EXCEPT !.status = "queued", !.attempts = 0, !.due = FALSE]
      <3> QED
        BY <1>1, <2>2 DEF SweepBlocked, Row
    <2>3. CASE DueArrives(r)
      <3> WITNESS [jobs[r] EXCEPT !.due = TRUE]
      <3> QED
        BY <1>1, <2>3 DEF DueArrives, Row
    <2>4. CASE LeaseExpires(r) \/ LeaseStalls(r)
      <3> WITNESS [jobs[r] EXCEPT !.lease = "expired"]
      <3> QED
        BY <1>1, <2>4 DEF LeaseExpires, LeaseStalls, Row
    <2> QED
      BY <2>1, <2>2, <2>3, <2>4 DEF Clock
  <1>3. OneActiveRowPerKey'
    <2>1. CASE Others(r) = {}
      BY <1>2, <2>1, WriteOneActive DEF IInv, Others, Holders
    <2>2. CASE Others(r) # {}
      BY <1>2, <2>2, WriteStaysActive DEF IInv, Active
    <2> QED
      BY <2>1, <2>2
  <1>4. RowsOK' /\ AttemptsOK'
    BY <1>1, <1>2, RestingStep
  <1>5. \A s \in Ids : jobs'[s].ran = jobs[s].ran
    BY <1>2 DEF Write, IInv, TypeOK
  <1> QED
    BY <1>3, <1>4, <1>5 DEF IInv

LEMMA IdleInv ==
  ASSUME IInv, TypeOK', Crash \/ GuildLeavesOrReturns \/ UNCHANGED vars
  PROVE  IInv'
  <1>1. jobs' = jobs /\ asked' = asked
    BY DEF Crash, GuildLeavesOrReturns, vars
  <1>2. \A v \in Workers : Busy(v)' => worker'[v] = worker[v]
    BY IdleType DEF Crash, GuildLeavesOrReturns, vars, Busy
  <1> QED
    BY <1>1, <1>2 DEF IInv, OneActiveRowPerKey, RowsOK, AttemptsOK, Busy, Job

\* The invariant is inductive: one lemma per group of actions.
LEMMA InvStep == IInv /\ [Next]_vars => IInv'
  <1> SUFFICES ASSUME IInv, [Next]_vars PROVE IInv'
    OBVIOUS
  <1>1. TypeOK'
    BY TypeStep DEF IInv
  <1>2. ASSUME NEW k \in Keys, Produce(k) PROVE IInv'
    BY <1>1, <1>2, EnqueueInv, ScheduleInv, NotifyInv, CloseInv DEF Produce
  <1>3. ASSUME NEW w \in Workers, Progress(w) \/ Fault(w) PROVE IInv'
    BY <1>1, <1>3, WorkInv, PublishInv, RecordInv DEF Progress, Fault
  <1>4. ASSUME NEW w \in Workers, NEW r \in Ids, Claim(w, r) \/ ClaimLost(w, r) PROVE IInv'
    BY <1>1, <1>4, ClaimInv
  <1>5. ASSUME NEW r \in Ids, RetryJob(r) \/ SweepBlocked(r) \/ Clock(r) PROVE IInv'
    BY <1>1, <1>5, RestingInv
  <1> QED
    BY <1>1, <1>2, <1>3, <1>4, <1>5, IdleInv DEF Next

LEMMA Invariant == Spec => []IInv
  BY InvInit, InvStep, PTL DEF Spec

-----------------------------------------------------------------------------
\* In every behaviour at most one active row carries a key (active_job).
THEOREM OneActive == Spec => []OneActiveRowPerKey
  <1>1. IInv => OneActiveRowPerKey
    BY DEF IInv
  <1> QED
    BY <1>1, Invariant, PTL

\* In every behaviour at most one worker's guard passes for a key.
THEOREM OneOwner == Spec => []KeyHasOneOwner
  <1>1. IInv => KeyHasOneOwner
    <2> SUFFICES ASSUME IInv, NEW v \in Workers, NEW w \in Workers,
                        Busy(v), Busy(w), Owns(v), Owns(w), Job(v).key = Job(w).key
                 PROVE  v = w
      BY DEF KeyHasOneOwner
    <2>1. worker[v].job \in Ids /\ worker[w].job \in Ids
      BY DEF IInv, TypeOK
    <2>2. worker[v].job = worker[w].job
      BY <2>1 DEF IInv, OneActiveRowPerKey, Owns, Job, Active
    <2> QED
      BY <2>2 DEF Owns, Job
  <1> QED
    BY <1>1, Invariant, PTL

\* In every behaviour a row published as succeeded ran its newest payload.
THEOREM NewestPublished == Spec => []PublishedNewestInput
  <1>1. IInv => PublishedNewestInput
    BY DEF IInv, RowsOK, RowOK, PublishedNewestInput
  <1> QED
    BY <1>1, Invariant, PTL

\* In no step does a stored result go back to an older input.
THEOREM ResultsAdvance == Spec => ResultNeverRegresses
  <1>1. ASSUME IInv, [Next]_vars, NEW r \in Ids
        PROVE  jobs'[r].ran >= jobs[r].ran
    <2>1. TypeOK' /\ jobs[r].ran \in Nat /\ jobs[r] \in Row /\ jobs \in [Ids -> Row]
      BY <1>1, TypeStep DEF IInv, TypeOK, Row
    <2>2. jobs[r].ran >= jobs[r].ran
      BY <2>1
    <2>3. ASSUME NEW k \in Keys, Produce(k) PROVE jobs'[r].ran >= jobs[r].ran
      <3>1. ASSUME NEW s \in Ids, NextRow(s), NEW n \in Nat, NEW now \in BOOLEAN,
                   Write(s, NewRow(k, n, now))
            PROVE  jobs'[r].ran >= jobs[r].ran
        <4>1. jobs[s].ran = 0 /\ NewRow(k, n, now).ran = 0
          BY <1>1, <3>1 DEF NextRow, IInv, RowsOK, RowOK, NewRow
        <4> QED
          BY <2>1, <2>2, <3>1, <4>1 DEF Write
      <3>2. ASSUME NEW s \in Ids, NEW row, row.ran = jobs[s].ran, Write(s, row)
            PROVE  jobs'[r].ran >= jobs[r].ran
        BY <2>1, <2>2, <3>2 DEF Write
      <3>3. asked[k] + 1 \in Nat
        BY <1>1 DEF IInv, TypeOK
      <3>4. CASE Enqueue(k)
        <4>1. PICK now \in BOOLEAN :
                \/ \E s \in Holders(k) :
                     Write(s, [jobs[s] EXCEPT !.payload = asked[k] + 1,
                                              !.generation = @ + 1,
                                              !.due = @ \/ now,
                                              !.status = IF @ = "blocked" THEN "queued" ELSE @])
                \/ \E s \in Ids : NextRow(s) /\ Write(s, NewRow(k, asked[k] + 1, now))
          BY <3>4 DEF Enqueue
        <4>2. ASSUME NEW s \in Holders(k)
              PROVE  s \in Ids /\ jobs[s].ran =
                       [jobs[s] EXCEPT !.payload = asked[k] + 1, !.generation = @ + 1,
                                       !.due = @ \/ now,
                                       !.status = IF @ = "blocked" THEN "queued" ELSE @].ran
          BY <2>1 DEF Holders, Row
        <4> QED
          BY <3>1, <3>2, <3>3, <4>1, <4>2
      <3>5. CASE ScheduleJob(k)
        BY <3>1, <3>3, <3>5 DEF ScheduleJob
      <3>6. CASE NotifyRunning(k)
        <4>1. ASSUME NEW s \in Ids
              PROVE  jobs[s].ran = [jobs[s] EXCEPT !.payload = asked[k] + 1,
                                      !.generation = @ + 1, !.due = FALSE].ran
          BY <2>1 DEF Row
        <4> QED
          BY <3>2, <3>6, <4>1 DEF NotifyRunning, Holders
      <3>7. CASE CloseUnstarted(k)
        BY <2>1, <2>2, <3>7 DEF CloseUnstarted, Row
      <3> QED
        BY <2>3, <3>4, <3>5, <3>6, <3>7 DEF Produce
    <2>4. ASSUME jobs' = jobs PROVE jobs'[r].ran >= jobs[r].ran
      BY <2>2, <2>4
    <2>5. ASSUME NEW w \in Workers, Progress(w) \/ Fault(w) PROVE jobs'[r].ran >= jobs[r].ran
      BY <1>1, <2>1, <2>2, <2>4, <2>5, PublishInv, RecordInv
         DEF Progress, Fault, GuardRefuses, Return, Throw
    <2>6. ASSUME NEW w \in Workers, NEW s \in Ids, Claim(w, s) \/ ClaimLost(w, s)
          PROVE  jobs'[r].ran >= jobs[r].ran
      BY <1>1, <2>1, <2>2, <2>6, ClaimInv
    <2>7. ASSUME NEW s \in Ids, RetryJob(s) \/ SweepBlocked(s) \/ Clock(s)
          PROVE  jobs'[r].ran >= jobs[r].ran
      BY <1>1, <2>1, <2>2, <2>7, RestingInv
    <2> QED
      BY <1>1, <2>3, <2>4, <2>5, <2>6, <2>7 DEF Next, Crash, GuildLeavesOrReturns, vars
  <1>2. IInv /\ [Next]_vars => [\A r \in Ids : jobs'[r].ran >= jobs[r].ran]_vars
    BY <1>1
  <1> QED
    BY <1>2, Invariant, PTL DEF Spec, ResultNeverRegresses

-----------------------------------------------------------------------------
(* The refinement: each statement of the queue is one step of KeyedWork, or changes
   nothing it speaks of. *)

\* A row is attended by the worker its token names, if that works for the row.
LEMMA AttendedBy ==
  ASSUME NEW r \in Ids
  PROVE  Attended(r) <=> jobs[r].token \in Workers /\ Busy(jobs[r].token)
                         /\ worker[jobs[r].token].job = r
  BY DEF Attended

LEMMA ItemFields ==
  ASSUME NEW r \in Ids
  PROVE  /\ items[r] = ItemOf(r)
         /\ items[r].state = Standing(r) /\ items[r].key = jobs[r].key
         /\ items[r].input = jobs[r].payload /\ items[r].result = jobs[r].ran
         /\ items[r].owner = IF Held(r) THEN jobs[r].token ELSE NoWorker
         /\ items[r].seen = IF Held(r) THEN worker[jobs[r].token].payload ELSE 0
  BY DEF items, ItemOf

\* Which rows are open items.
LEMMA OpenRows ==
  ASSUME NEW k PROVE Promise!Open(k) = Holders(k)
  <1>1. ASSUME NEW r \in Ids
        PROVE  items[r].key = k /\ items[r].state = "open"
                 <=> jobs[r].key = k /\ jobs[r].status \in Active
    BY ItemFields DEF Standing, Active
  <1> QED
    BY <1>1 DEF Promise!Open, Holders

\* A row whose columns and whose attempt stay as they are is the same item.
LEMMA SameItem ==
  ASSUME NEW r \in Ids,
         Standing(r)' = Standing(r), jobs'[r].status = "running" <=> jobs[r].status = "running",
         jobs'[r].key = jobs[r].key, jobs'[r].payload = jobs[r].payload,
         jobs'[r].ran = jobs[r].ran, jobs'[r].token = jobs[r].token,
         jobs[r].status = "running" => (Attended(r)' <=> Attended(r)),
         Held(r) => worker'[jobs[r].token].payload = worker[jobs[r].token].payload
  PROVE  ItemOf(r)' = ItemOf(r)
  BY DEF ItemOf, Held

LEMMA SameItems ==
  ASSUME \A r \in Ids : ItemOf(r)' = ItemOf(r) PROVE items' = items
  BY DEF items

LEMMA OneItem ==
  ASSUME NEW r \in Ids, \A s \in Ids \ {r} : ItemOf(s)' = ItemOf(s)
  PROVE  Promise!Change(r, ItemOf(r)')
  BY DEF items, Promise!Change

\* A statement writes one row, and at most attempts at that row change: every
\* other row stays the same item.
LEMMA OthersSame ==
  ASSUME IInv, NEW r \in Ids, NEW row, Write(r, row),
         \A v \in Workers : \/ worker'[v] = worker[v]
                            \/ /\ Busy(v) => worker[v].job = r
                               /\ Busy(v)' => worker'[v].job = r
  PROVE  /\ jobs'[r] = row
         /\ \A s \in Ids \ {r} : jobs'[s] = jobs[s] /\ ItemOf(s)' = ItemOf(s)
  <1>1. jobs'[r] = row /\ \A s \in Ids \ {r} : jobs'[s] = jobs[s]
    BY DEF Write, IInv, TypeOK
  <1>2. ASSUME NEW s \in Ids \ {r} PROVE ItemOf(s)' = ItemOf(s)
    <2>1. jobs'[s] = jobs[s]
      BY <1>1
    <2>2. CASE jobs[s].token \notin Workers
      BY <2>1, <2>2, SameItem DEF Attended, Held, Standing
    <2>3. ASSUME NEW t \in Workers, t = jobs[s].token, worker'[t] = worker[t]
          PROVE  ItemOf(s)' = ItemOf(s)
      <3>1. Attended(s)' <=> Attended(s)
        BY <2>1, <2>3 DEF Attended, Busy
      <3> QED
        BY <2>1, <2>3, <3>1, SameItem DEF Standing
    <2>4. ASSUME NEW t \in Workers, t = jobs[s].token,
                 Busy(t) => worker[t].job = r, Busy(t)' => worker'[t].job = r
          PROVE  ItemOf(s)' = ItemOf(s)
      <3>1. ~Attended(s) /\ ~Attended(s)'
        BY <2>1, <2>4 DEF Attended, Busy
      <3> QED
        BY <2>1, <3>1, SameItem DEF Standing, Held
    <2> QED
      BY <2>2, <2>3, <2>4
  <1> QED
    BY <1>1, <1>2

-----------------------------------------------------------------------------
(* Asking *)

\* Newer input for the row that is active.
LEMMA MergeAsks ==
  ASSUME IInv, TypeOK', NEW k \in Keys, NEW r \in Holders(k), NEW row, Write(r, row),
         worker' = worker, asked' = [asked EXCEPT ![k] = @ + 1],
         row.key = k, row.token = jobs[r].token, row.ran = jobs[r].ran,
         row.payload = asked[k] + 1, row.status \in Active,
         row.status = "running" <=> jobs[r].status = "running"
  PROVE  Promise!Ask(k)
  <1>1. r \in Ids /\ jobs[r].key = k /\ jobs[r].status \in Active
    BY DEF Holders
  <1>2. jobs'[r] = row /\ \A s \in Ids \ {r} : ItemOf(s)' = ItemOf(s)
    BY <1>1, OthersSame
  <1>3. Attended(r)' <=> Attended(r)
    BY <1>2 DEF Attended, Busy
  <1>4. ItemOf(r)' = [items[r] EXCEPT !.input = asked[k] + 1]
    <2>1. (Held(r)' <=> Held(r)) /\ Standing(r) = "open" /\ Standing(r)' = "open"
      BY <1>1, <1>2, <1>3 DEF Held, Standing, Active
    <2>2. items[r] = ItemOf(r)
      BY <1>1, ItemFields
    <2> QED
      BY <1>1, <1>2, <2>1, <2>2 DEF ItemOf
  <1>5. Promise!Change(r, [items[r] EXCEPT !.input = asked[k] + 1])
    BY <1>1, <1>2, <1>4, OneItem
  <1> QED
    BY <1>1, <1>5, OpenRows DEF Promise!Ask

\* A row of its own, when none is active.
LEMMA InsertAsks ==
  ASSUME IInv, TypeOK', NEW k \in Keys, NEW r \in Ids, NextRow(r), Holders(k) = {},
         NEW now \in BOOLEAN, Write(r, NewRow(k, asked[k] + 1, now)),
         worker' = worker, asked' = [asked EXCEPT ![k] = @ + 1]
  PROVE  Promise!Ask(k)
  <1>1. jobs'[r] = NewRow(k, asked[k] + 1, now) /\ \A s \in Ids \ {r} : ItemOf(s)' = ItemOf(s)
    BY OthersSame
  <1>2. ItemOf(r)' = Promise!Unowned("open", k, asked[k] + 1)
    <2>1. /\ jobs'[r].status = "queued" /\ jobs'[r].key = k /\ jobs'[r].ran = 0
          /\ jobs'[r].payload = asked[k] + 1
      BY <1>1 DEF NewRow
    <2>2. ~Held(r)' /\ Standing(r)' = "open"
      BY <2>1 DEF Held, Standing, Active
    <2> QED
      BY <2>1, <2>2 DEF ItemOf, Promise!Unowned
  <1>3. items[r].state = "unused"
    BY ItemFields DEF NextRow, Standing
  <1>4. Promise!Change(r, Promise!Unowned("open", k, asked[k] + 1))
    BY <1>1, <1>2, OneItem
  <1> QED
    BY <1>3, <1>4, OpenRows DEF Promise!Ask

LEMMA ProduceKeeps ==
  ASSUME IInv, TypeOK', NEW k \in Keys, Enqueue(k) \/ ScheduleJob(k) \/ NotifyRunning(k)
  PROVE  Promise!Ask(k)
  <1>1. CASE Enqueue(k)
    <2>1. PICK now \in BOOLEAN :
            \/ \E r \in Holders(k) :
                 Write(r, [jobs[r] EXCEPT !.payload = asked[k] + 1, !.generation = @ + 1,
                                          !.due = @ \/ now,
                                          !.status = IF @ = "blocked" THEN "queued" ELSE @])
            \/ /\ Holders(k) = {}
               /\ \E r \in Ids : NextRow(r) /\ Write(r, NewRow(k, asked[k] + 1, now))
      BY <1>1 DEF Enqueue
    <2>2. ASSUME NEW r \in Holders(k),
                 Write(r, [jobs[r] EXCEPT !.payload = asked[k] + 1, !.generation = @ + 1,
                                          !.due = @ \/ now,
                                          !.status = IF @ = "blocked" THEN "queued" ELSE @])
          PROVE  Promise!Ask(k)
      <3> DEFINE row == [jobs[r] EXCEPT !.payload = asked[k] + 1, !.generation = @ + 1,
                                        !.due = @ \/ now,
                                        !.status = IF @ = "blocked" THEN "queued" ELSE @]
      <3>1. jobs[r] \in Row /\ jobs[r].key = k /\ jobs[r].status \in Active
        BY DEF Holders, IInv, TypeOK
      <3>2. /\ row.key = k /\ row.token = jobs[r].token /\ row.ran = jobs[r].ran
            /\ row.payload = asked[k] + 1 /\ row.status \in Active
            /\ row.status = "running" <=> jobs[r].status = "running"
        BY <3>1 DEF Row, Active
      <3>3. Write(r, row)
        BY <2>2
      <3> HIDE DEF row
      <3> QED
        BY <1>1, <3>2, <3>3, MergeAsks DEF Enqueue
    <2> QED
      BY <1>1, <2>1, <2>2, InsertAsks DEF Enqueue
  <1>2. CASE ScheduleJob(k)
    BY <1>2, InsertAsks DEF ScheduleJob
  <1>3. CASE NotifyRunning(k)
    <2>1. PICK r \in Holders(k) :
            /\ jobs[r].status = "running"
            /\ Write(r, [jobs[r] EXCEPT !.payload = asked[k] + 1,
                                        !.generation = @ + 1, !.due = FALSE])
      BY <1>3 DEF NotifyRunning
    <2> DEFINE row == [jobs[r] EXCEPT !.payload = asked[k] + 1, !.generation = @ + 1, !.due = FALSE]
    <2>2. jobs[r] \in Row /\ jobs[r].key = k
      BY DEF Holders, IInv, TypeOK
    <2>3. /\ row.key = k /\ row.token = jobs[r].token /\ row.ran = jobs[r].ran
          /\ row.payload = asked[k] + 1 /\ row.status = "running"
      BY <2>1, <2>2 DEF Row
    <2>4. Write(r, row) /\ row.status \in Active
      BY <2>1, <2>3 DEF Active
    <2> HIDE DEF row
    <2> QED
      BY <1>3, <2>1, <2>3, <2>4, MergeAsks DEF NotifyRunning
  <1> QED
    BY <1>1, <1>2, <1>3

-----------------------------------------------------------------------------
(* Taking, publishing and letting go *)

\* An item that nobody holds after the step.
LEMMA UnheldItem ==
  ASSUME NEW r \in Ids, ~Held(r)', jobs'[r].key = jobs[r].key,
         jobs'[r].payload = jobs[r].payload
  PROVE  ItemOf(r)' = Promise!Becomes(r, Standing(r)', NoWorker, 0, jobs'[r].ran)
  <1>1. items[r].key = jobs[r].key /\ items[r].input = jobs[r].payload
    BY ItemFields
  <1> QED
    BY <1>1 DEF ItemOf, Promise!Becomes

\* A row that was active, and is in nobody's hands after the step, was let go.
LEMMA LettingGo ==
  ASSUME NEW r \in Ids, \A s \in Ids \ {r} : ItemOf(s)' = ItemOf(s), ~Held(r)',
         jobs[r].status \in Active, jobs'[r].status # "absent", jobs'[r].key = jobs[r].key,
         jobs'[r].payload = jobs[r].payload, jobs'[r].ran = jobs[r].ran, asked' = asked
  PROVE  Promise!LetGo(r)
  <1>1. items[r].state = "open" /\ items[r].result = jobs[r].ran
    BY ItemFields DEF Standing, Active
  <1>2. Standing(r)' \in {"open", "ended"}
    BY DEF Standing
  <1>3. Promise!Change(r, Promise!Becomes(r, Standing(r)', NoWorker, 0, items[r].result))
    BY <1>1, UnheldItem, OneItem
  <1> QED
    BY <1>1, <1>2, <1>3 DEF Promise!LetGo

LEMMA TakingKeeps ==
  ASSUME IInv, TypeOK', NEW w \in Workers, NEW r \in Ids, Claim(w, r) \/ ClaimLost(w, r)
  PROVE  Promise!Take(w, r) \/ Promise!LetGo(r)
  <1>1. /\ ~Busy(w) /\ jobs[r].status \in Active /\ Write(r, Claimed(w, r)) /\ asked' = asked
        /\ \A v \in Workers \ {w} : worker'[v] = worker[v]
    BY DEF Claim, ClaimLost, Claimable, Active, Set, IInv, TypeOK
  <1>2. jobs[r] \in Row
    BY DEF IInv, TypeOK
  <1>3. \/ /\ worker'[w].pc = "work" /\ worker'[w].job = r
           /\ worker'[w].payload = jobs[r].payload
        \/ worker' = worker
    BY DEF Claim, ClaimLost, Set, IInv, TypeOK
  <1>4. \A v \in Workers : \/ worker'[v] = worker[v]
                           \/ /\ Busy(v) => worker[v].job = r
                              /\ Busy(v)' => worker'[v].job = r
    BY <1>1, <1>3
  <1>5. jobs'[r] = Claimed(w, r) /\ \A s \in Ids \ {r} : ItemOf(s)' = ItemOf(s)
    BY <1>1, <1>4, OthersSame
  <1>6. /\ jobs'[r].status = "running" /\ jobs'[r].token = w /\ jobs'[r].key = jobs[r].key
        /\ jobs'[r].payload = jobs[r].payload /\ jobs'[r].ran = jobs[r].ran
    BY <1>2, <1>5 DEF Claimed, Row
  <1>7. CASE /\ worker'[w].pc = "work" /\ worker'[w].job = r
             /\ worker'[w].payload = jobs[r].payload
    <2>1. Held(r)'
      BY <1>6, <1>7 DEF Held, Attended, Busy
    <2>2. items[r].state = "open" /\ \A s \in Ids : items[s].owner # w
      <3>1. ASSUME NEW s \in Ids PROVE items[s].owner # w
        BY <1>1, AttendedBy, ItemFields, WorkerAssumption DEF Held
      <3> QED
        BY <1>1, <3>1, ItemFields DEF Standing, Active
    <2>3. ItemOf(r)' = Promise!Becomes(r, "open", w, items[r].input, items[r].result)
      BY <1>6, <1>7, <2>1, ItemFields DEF ItemOf, Standing, Active, Promise!Becomes
    <2>4. Promise!Change(r, Promise!Becomes(r, "open", w, items[r].input, items[r].result))
      BY <1>5, <2>3, OneItem
    <2> QED
      BY <1>1, <2>2, <2>4 DEF Promise!Take
  <1>8. CASE worker' = worker
    <2>1. ~Held(r)'
      BY <1>1, <1>6, <1>8 DEF Held, Attended, Busy
    <2> QED
      BY <1>1, <1>5, <1>6, <2>1, LettingGo
  <1> QED
    BY <1>3, <1>7, <1>8

\* The worker of an attempt: what it does next concerns its own row only.
LEMMA OwnRow ==
  ASSUME IInv, NEW w \in Workers, \A v \in Workers \ {w} : worker'[v] = worker[v],
         NEW r \in Ids, r = worker[w].job, NEW row, Write(r, row),
         worker'[w].job = r \/ ~Busy(w)'
  PROVE  jobs'[r] = row /\ \A s \in Ids \ {r} : ItemOf(s)' = ItemOf(s)
  <1>1. \A v \in Workers : \/ worker'[v] = worker[v]
                           \/ /\ Busy(v) => worker[v].job = r
                              /\ Busy(v)' => worker'[v].job = r
    OBVIOUS
  <1> QED
    BY <1>1, OthersSame

\* Writing its result: the row's token is still the worker's, or nothing is written.
LEMMA PublishedItem ==
  ASSUME IInv, TypeOK', NEW w \in Workers, worker[w].pc = "publish",
         NEW r \in Ids, r = worker[w].job, Write(r, Published(w)), asked' = asked,
         \A v \in Workers \ {w} : worker'[v] = worker[v], worker'[w].job = r \/ ~Busy(w)'
  PROVE  Promise!Publish(w, r) \/ items' = items
  <1>1. Busy(w) /\ worker[w] \in Attempt
    BY DEF Busy, IInv, TypeOK
  <1>2. jobs'[r] = Published(w) /\ \A s \in Ids \ {r} : ItemOf(s)' = ItemOf(s)
    <2>1. PICK row : row = Published(w) /\ Write(r, row)
      OBVIOUS
    <2> QED
      BY <2>1, OwnRow
  <1>3. Job(w) = jobs[r] /\ jobs[r] \in Row /\ AttemptOK(worker[w], w, jobs[r])
    <2>1. Job(w) = jobs[r]
      BY DEF Job
    <2>2. jobs[r] \in Row
      BY DEF IInv, TypeOK
    <2>3. AttemptOK(worker[w], w, Job(w))
      BY <1>1 DEF IInv, AttemptsOK
    <2> QED
      BY <2>1, <2>2, <2>3
  <1>4. CASE jobs[r].token = w
    <2>1. Held(r) /\ jobs[r].status = "running"
      BY <1>1, <1>3, <1>4 DEF AttemptOK, Held, Attended
    <2>2. /\ items[r].state = "open" /\ items[r].owner = w
          /\ items[r].seen = worker[w].payload /\ items[r].input = jobs[r].payload
      BY <1>2, <1>4, <2>1, ItemFields DEF Standing, Active
    <2>3. /\ jobs'[r].status = IF jobs[r].generation = worker[w].generation
                               THEN "succeeded" ELSE "queued"
          /\ jobs'[r].key = jobs[r].key /\ jobs'[r].payload = jobs[r].payload
          /\ jobs'[r].ran = worker[w].payload
      BY <1>2, <1>3, <1>4 DEF Published, Row
    <2>4. ItemOf(r)' = Promise!Becomes(r, Standing(r)', NoWorker, 0, items[r].seen)
      <3>1. ~Held(r)'
        BY <2>3 DEF Held
      <3> QED
        BY <1>2, <2>2, <2>3, <3>1, UnheldItem
    <2>5. Promise!Change(r, Promise!Becomes(r, Standing(r)', NoWorker, 0, items[r].seen))
      BY <1>2, <2>4, OneItem
    <2>6. Standing(r)' \in {"open", "ended"}
      BY <2>3 DEF Standing, Active
    <2>7. Standing(r)' = "ended" => items[r].seen = items[r].input
      <3>1. Standing(r)' = "ended" => jobs[r].generation = worker[w].generation
        BY <2>3 DEF Standing, Active
      <3>2. jobs[r].generation = worker[w].generation => worker[w].payload = jobs[r].payload
        BY <1>1, <1>3, <1>4 DEF AttemptOK, Busy
      <3> QED
        BY <2>2, <3>1, <3>2
    <2> QED
      BY <2>2, <2>5, <2>6, <2>7 DEF Promise!Publish
  <1>5. CASE jobs[r].token # w
    <2>1. jobs'[r] = jobs[r]
      BY <1>2, <1>3, <1>5 DEF Published
    <2>2. ItemOf(r)' = ItemOf(r)
      <3>1. Attended(r)' <=> Attended(r)
        BY <1>5, <2>1 DEF Attended, Busy
      <3>2. Held(r) => worker'[jobs[r].token].payload = worker[jobs[r].token].payload
        BY <1>2, <1>5, AttendedBy DEF Held
      <3> QED
        BY <1>2, <2>1, <3>1, <3>2, SameItem DEF Standing
    <2> QED
      BY <1>2, <2>2, SameItems
  <1> QED
    BY <1>4, <1>5

\* A worker that stops without a result lets its item go, if it still had it.
LEMMA StoppedItem ==
  ASSUME IInv, TypeOK', NEW w \in Workers, Busy(w), ~Busy(w)', jobs' = jobs, asked' = asked,
         \A v \in Workers \ {w} : worker'[v] = worker[v], NEW r \in Ids, r = worker[w].job
  PROVE  Promise!LetGo(r) \/ items' = items
  <1>1. Write(r, jobs[r])
    BY DEF IInv, TypeOK, Write
  <1>2. \A s \in Ids \ {r} : ItemOf(s)' = ItemOf(s)
    BY <1>1, OwnRow
  <1>3. CASE Held(r) /\ jobs[r].token = w
    <2>1. ~Held(r)'
      BY <1>3 DEF Held, Attended, Busy
    <2> QED
      BY <1>1, <1>2, <1>3, <2>1, LettingGo DEF Held, Active
  <1>4. CASE ~(Held(r) /\ jobs[r].token = w)
    <2>1. jobs[r].status = "running" => (Attended(r)' <=> Attended(r))
      BY <1>4 DEF Held, Attended, Busy
    <2>2. Held(r) => worker'[jobs[r].token].payload = worker[jobs[r].token].payload
      BY <1>1, <1>4, AttendedBy DEF Held
    <2>3. ItemOf(r)' = ItemOf(r)
      BY <1>1, <2>1, <2>2, SameItem DEF Standing
    <2> QED
      BY <1>2, <2>3, SameItems
  <1> QED
    BY <1>3, <1>4

\* Writing its failure: only while the row still has its token.
LEMMA FailedItem ==
  ASSUME IInv, TypeOK', NEW w \in Workers, RecordFailure(w), NEW r \in Ids, r = worker[w].job
  PROVE  Promise!LetGo(r) \/ Promise!Reopen(r) \/ items' = items
  <1>1. /\ Busy(w) /\ ~Busy(w)' /\ asked' = asked
        /\ \A v \in Workers \ {w} : worker'[v] = worker[v]
    BY IdleType DEF RecordFailure, Set, Busy, IInv, TypeOK
  <1>2. Job(w) = jobs[r] /\ jobs[r] \in Row /\ RowOK(jobs[r], asked)
    BY DEF Job, IInv, TypeOK, RowsOK
  <1>3. PICK row : Write(r, row) /\ row = IF /\ Recorded(w).status \in Active
                                             /\ Others(r) # {}
                                          THEN jobs[r] ELSE Recorded(w)
    BY DEF RecordFailure, WriteIndexed
  <1>4. jobs'[r] = row /\ \A s \in Ids \ {r} : ItemOf(s)' = ItemOf(s)
    BY <1>1, <1>3, OwnRow
  <1>5. CASE row = jobs[r]
    <2>1. jobs' = jobs
      BY <1>3, <1>5 DEF Write, IInv, TypeOK
    <2> QED
      BY <1>1, <2>1, StoppedItem
  <1>6. CASE row = Recorded(w) /\ jobs[r].token = w /\ worker[w].error # "lease_lost"
    <2>1. Outcome(worker[w].error, worker[w].attempts) \in Statuses \ {"absent", "running"}
      BY <1>1, JobType, OutcomeType DEF Attempt, IInv
    <2>2. /\ row.status \in Statuses \ {"absent", "running"} /\ row.key = jobs[r].key
          /\ row.payload = jobs[r].payload /\ row.ran = jobs[r].ran
      BY <1>2, <1>6, <2>1 DEF Recorded, Row
    <2>3. ~Held(r)'
      BY <1>4, <2>2 DEF Held
    <2>4. CASE jobs[r].status \in Active
      BY <1>1, <1>4, <2>2, <2>3, <2>4, LettingGo
    <2>5. CASE jobs[r].status \notin Active
      <3>1. jobs[r].status # "absent"
        BY <1>2, <1>6, WorkerAssumption DEF RowOK
      <3>2. items[r].state = "ended" /\ items[r].key = jobs[r].key /\ ~Held(r)
        BY <2>5, <3>1, ItemFields DEF Standing, Held, Active
      <3>3. CASE row.status \in Active
        <4>1. Others(r) = {} \/ row = jobs[r]
          BY <1>3, <1>6, <3>3
        <4>2. CASE row = jobs[r]
          BY <1>5, <4>2
        <4>3. CASE Others(r) = {}
          <5>1. Promise!Open(items[r].key) = {}
            BY <2>5, <3>2, <4>3, OpenRows DEF Others, Holders
          <5>2. ItemOf(r)' = [items[r] EXCEPT !.state = "open"]
            <6>1. Standing(r)' = "open"
              BY <1>4, <2>2, <3>3 DEF Standing
            <6>2. items[r] = ItemOf(r)
              BY ItemFields
            <6> QED
              BY <1>4, <2>2, <2>3, <3>2, <6>1, <6>2 DEF ItemOf
          <5>3. Promise!Change(r, [items[r] EXCEPT !.state = "open"])
            BY <1>4, <5>2, OneItem
          <5> QED
            BY <1>1, <3>2, <5>1, <5>3 DEF Promise!Reopen
        <4> QED
          BY <4>1, <4>2, <4>3
      <3>4. CASE row.status \notin Active
        <4>1. Standing(r)' = "ended" /\ Standing(r) = "ended"
          BY <1>4, <2>2, <2>5, <3>1, <3>4 DEF Standing
        <4>2. ItemOf(r)' = ItemOf(r)
          BY <1>4, <2>2, <2>3, <3>2, <4>1 DEF ItemOf
        <4> QED
          BY <1>4, <4>2, SameItems
      <3> QED
        BY <3>3, <3>4
    <2> QED
      BY <2>4, <2>5
  <1>7. Recorded(w) = jobs[r] \/ (jobs[r].token = w /\ worker[w].error # "lease_lost")
    BY <1>2 DEF Recorded
  <1> QED
    BY <1>3, <1>5, <1>6, <1>7

\* An attempt that goes on keeps its row and the payload it started from.
LEMMA GoesOn ==
  ASSUME TypeOK, NEW w \in Workers, NEW e
  PROVE  /\ Threw(w, e).pc = "threw" /\ Threw(w, e).job = worker[w].job
         /\ Threw(w, e).payload = worker[w].payload
         /\ [worker[w] EXCEPT !.pc = "publish"].pc = "publish"
         /\ [worker[w] EXCEPT !.pc = "publish"].job = worker[w].job
         /\ [worker[w] EXCEPT !.pc = "publish"].payload = worker[w].payload
  <1>1. worker[w] \in Attempt
    BY DEF TypeOK
  <1> QED
    BY <1>1 DEF Threw, Attempt

\* Whatever an attempt does, it publishes or lets go, or nothing shows.
LEMMA ProgressKeeps ==
  ASSUME IInv, TypeOK', NEW w \in Workers, Progress(w) \/ Fault(w)
  PROVE  Promise!Next \/ (items' = items /\ asked' = asked)
  <1>1. PICK r \in Ids : r = worker[w].job
    BY DEF Progress, Fault, GuardRefuses, Return, Throw, Publish, PublishLost, RecordFailure,
           RecordLost, Busy, IInv, TypeOK
  <1>2. asked' = asked /\ \A v \in Workers \ {w} : worker'[v] = worker[v]
    BY DEF Progress, Fault, GuardRefuses, Return, Throw, Publish, PublishLost, RecordFailure,
           RecordLost, Set, IInv, TypeOK
  <1>3. CASE GuardRefuses(w) \/ Return(w) \/ Throw(w)
    <2>1. /\ jobs' = jobs /\ Busy(w) /\ Busy(w)' /\ worker'[w].job = worker[w].job
          /\ worker'[w].payload = worker[w].payload
      <3>1. \/ \E e : worker'[w] = Threw(w, e)
            \/ worker'[w] = [worker[w] EXCEPT !.pc = "publish"]
        BY <1>3 DEF GuardRefuses, Return, Throw, Set, IInv, TypeOK
      <3>2. jobs' = jobs /\ Busy(w)
        BY <1>3 DEF GuardRefuses, Return, Throw, Busy
      <3>3. ASSUME NEW e, worker'[w] = Threw(w, e)
            PROVE  /\ worker'[w].pc = "threw" /\ worker'[w].job = worker[w].job
                   /\ worker'[w].payload = worker[w].payload
        BY <3>3, GoesOn DEF IInv
      <3>4. ASSUME worker'[w] = [worker[w] EXCEPT !.pc = "publish"]
            PROVE  /\ worker'[w].pc = "publish" /\ worker'[w].job = worker[w].job
                   /\ worker'[w].payload = worker[w].payload
        BY <3>4, GoesOn DEF IInv
      <3> QED
        BY <3>1, <3>2, <3>3, <3>4 DEF Busy
    <2>2. ASSUME NEW s \in Ids PROVE ItemOf(s)' = ItemOf(s)
      <3>1. Attended(s)' <=> Attended(s)
        BY <1>2, <2>1 DEF Attended, Busy
      <3>2. Held(s) => worker'[jobs[s].token].payload = worker[jobs[s].token].payload
        BY <1>2, <2>1, AttendedBy DEF Held
      <3> QED
        BY <2>1, <3>1, <3>2, SameItem DEF Standing
    <2> QED
      BY <1>2, <2>2, SameItems
  <1>4. CASE Publish(w)
    <2>1. worker[w].pc = "publish" /\ Write(r, Published(w)) /\ ~Busy(w)'
      BY <1>1, <1>4, IdleType DEF Publish, Set, Busy, IInv, TypeOK
    <2>2. Promise!Publish(w, r) \/ items' = items
      BY <1>1, <1>2, <2>1, PublishedItem
    <2> QED
      BY <1>2, <2>2 DEF Promise!Next
  <1>5. CASE PublishLost(w)
    <2>1. /\ worker[w].pc = "publish" /\ (Write(r, Published(w)) \/ Write(r, Job(w)))
          /\ worker'[w].job = r /\ Busy(w) /\ Busy(w)'
          /\ worker'[w].payload = worker[w].payload
      <3>1. /\ worker[w].pc = "publish" /\ worker'[w] = Threw(w, "transient")
            /\ \E row \in {Job(w), Published(w)} : Write(worker[w].job, row)
        BY <1>5 DEF PublishLost, Set, IInv, TypeOK
      <3>2. /\ worker'[w].pc = "threw" /\ worker'[w].job = worker[w].job
            /\ worker'[w].payload = worker[w].payload
        BY <3>1, GoesOn DEF IInv
      <3> QED
        BY <1>1, <3>1, <3>2 DEF Busy
    <2>2. CASE Write(r, Published(w))
      <3>1. Promise!Publish(w, r) \/ items' = items
        BY <1>1, <1>2, <2>1, <2>2, PublishedItem
      <3> QED
        BY <1>2, <3>1 DEF Promise!Next
    <2>3. CASE Write(r, Job(w))
      <3>1. jobs' = jobs
        BY <1>1, <2>3 DEF Write, Job, IInv, TypeOK
      <3>2. ASSUME NEW s \in Ids PROVE ItemOf(s)' = ItemOf(s)
        <4>1. Attended(s)' <=> Attended(s)
          BY <1>1, <1>2, <2>1, <3>1 DEF Attended, Busy
        <4>2. Held(s) => worker'[jobs[s].token].payload = worker[jobs[s].token].payload
          BY <1>2, <2>1, AttendedBy DEF Held
        <4> QED
          BY <3>1, <4>1, <4>2, SameItem DEF Standing
      <3> QED
        BY <1>2, <3>2, SameItems
    <2> QED
      BY <2>1, <2>2, <2>3
  <1>6. CASE RecordFailure(w)
    BY <1>1, <1>2, <1>6, FailedItem DEF Promise!Next
  <1>7. CASE RecordLost(w)
    <2>1. jobs' = jobs /\ Busy(w) /\ ~Busy(w)'
      BY <1>7, IdleType DEF RecordLost, Set, Busy, IInv, TypeOK
    <2> QED
      BY <1>1, <1>2, <2>1, StoppedItem DEF Promise!Next
  <1> QED
    BY <1>3, <1>4, <1>5, <1>6, <1>7 DEF Progress, Fault

-----------------------------------------------------------------------------
(* Rows nobody works on, the clock and the process *)

\* Of the rows that are closed unstarted at most one was active.
LEMMA CloseKeeps ==
  ASSUME IInv, TypeOK', NEW k \in Keys, CloseUnstarted(k)
  PROVE  Promise!Next \/ (items' = items /\ asked' = asked)
  <1>1. asked' = asked /\ worker' = worker
    BY DEF CloseUnstarted
  <1>2. ASSUME NEW s \in Ids
        PROVE  /\ jobs'[s].key = jobs[s].key /\ jobs'[s].payload = jobs[s].payload
               /\ jobs'[s].ran = jobs[s].ran /\ jobs'[s].token = jobs[s].token
               /\ jobs'[s].status = IF jobs[s].key = k /\ jobs[s].status \in Unstarted
                                    THEN "succeeded" ELSE jobs[s].status
    <2>1. jobs[s] \in Row
      BY DEF IInv, TypeOK
    <2>2. jobs'[s] = IF jobs[s].key = k /\ jobs[s].status \in Unstarted
                     THEN [jobs[s] EXCEPT !.status = "succeeded", !.lease = "none",
                                          !.ending = "skipped"]
                     ELSE jobs[s]
      BY DEF CloseUnstarted
    <2> QED
      BY <2>1, <2>2 DEF Row
  <1>3. ASSUME NEW s \in Ids, ~(jobs[s].key = k /\ jobs[s].status \in {"queued", "blocked"})
        PROVE  ItemOf(s)' = ItemOf(s)
    <2>1. Attended(s)' <=> Attended(s)
      BY <1>1, <1>2 DEF Attended, Busy
    <2>2. jobs'[s].status = "running" <=> jobs[s].status = "running"
      BY <1>2 DEF Unstarted
    <2>3. Standing(s)' = Standing(s)
      BY <1>2, <1>3 DEF Standing, Active, Unstarted
    <2>4. Held(s) => worker'[jobs[s].token].payload = worker[jobs[s].token].payload
      BY <1>1
    <2> QED
      BY <1>2, <2>1, <2>2, <2>3, <2>4, SameItem
  <1>4. CASE \E r \in Ids : jobs[r].key = k /\ jobs[r].status \in {"queued", "blocked"}
    <2>1. PICK r \in Ids : jobs[r].key = k /\ jobs[r].status \in {"queued", "blocked"}
      BY <1>4
    <2>2. \A s \in Ids \ {r} : ItemOf(s)' = ItemOf(s)
      BY <1>3, <2>1 DEF IInv, OneActiveRowPerKey, Active
    <2>3. ~Held(r)' /\ jobs'[r].status # "absent"
      BY <1>2, <2>1 DEF Held, Unstarted
    <2>4. Promise!LetGo(r)
      BY <1>1, <1>2, <2>1, <2>2, <2>3, LettingGo DEF Active
    <2> QED
      BY <2>4 DEF Promise!Next
  <1>5. CASE ~\E r \in Ids : jobs[r].key = k /\ jobs[r].status \in {"queued", "blocked"}
    BY <1>1, <1>3, <1>5, SameItems
  <1> QED
    BY <1>4, <1>5

LEMMA RestingKeeps ==
  ASSUME IInv, TypeOK', NEW r \in Ids, RetryJob(r) \/ SweepBlocked(r) \/ Clock(r)
  PROVE  Promise!Next \/ (items' = items /\ asked' = asked)
  <1>1. jobs[r] \in Row /\ worker' = worker /\ asked' = asked
    BY DEF IInv, TypeOK, RetryJob, SweepBlocked, Clock, DueArrives, LeaseExpires, LeaseStalls
  <1>2. PICK row :
          /\ Write(r, row)
          /\ row.key = jobs[r].key /\ row.token = jobs[r].token
          /\ row.payload = jobs[r].payload /\ row.ran = jobs[r].ran
          /\ \/ /\ row.status = "queued" /\ jobs[r].status \in {"blocked", "failed", "disabled"}
                /\ Others(r) = {}
             \/ row.status = "queued" /\ jobs[r].status = "blocked"
             \/ row.status = jobs[r].status
    <2>1. CASE RetryJob(r)
      <3> WITNESS [jobs[r] EXCEPT !.status = "queued", !.attempts = 0, !.due = TRUE,
                                  !.ending = "none"]
      <3> QED
        BY <1>1, <2>1 DEF RetryJob, Row
    <2>2. CASE SweepBlocked(r)
      <3> WITNESS [jobs[r] EXCEPT !.status = "queued", !.attempts = 0, !.due = FALSE]
      <3> QED
        BY <1>1, <2>2 DEF SweepBlocked, Row
    <2>3. CASE DueArrives(r)
      <3> WITNESS [jobs[r] EXCEPT !.due = TRUE]
      <3> QED
        BY <1>1, <2>3 DEF DueArrives, Row
    <2>4. CASE LeaseExpires(r) \/ LeaseStalls(r)
      <3> WITNESS [jobs[r] EXCEPT !.lease = "expired"]
      <3> QED
        BY <1>1, <2>4 DEF LeaseExpires, LeaseStalls, Row
    <2> QED
      BY <2>1, <2>2, <2>3, <2>4 DEF Clock
  <1>3. jobs'[r] = row /\ \A s \in Ids \ {r} : ItemOf(s)' = ItemOf(s)
    BY <1>1, <1>2, OthersSame
  <1>4. Attended(r)' <=> Attended(r)
    BY <1>1, <1>2, <1>3 DEF Attended, Busy
  <1>5. CASE row.status = jobs[r].status \/ jobs[r].status = "blocked"
    <2>1. Standing(r)' = Standing(r)
      BY <1>2, <1>3, <1>5 DEF Standing, Active
    <2>2. row.status = "running" <=> jobs[r].status = "running"
      BY <1>2, <1>5
    <2>3. ItemOf(r)' = ItemOf(r)
      BY <1>1, <1>2, <1>3, <1>4, <2>1, <2>2, SameItem
    <2> QED
      BY <1>1, <1>3, <2>3, SameItems
  <1>6. CASE row.status = "queued" /\ jobs[r].status \in {"failed", "disabled"} /\ Others(r) = {}
    <2>1. items[r].state = "ended" /\ items[r].key = jobs[r].key /\ items[r] = ItemOf(r) /\ ~Held(r)
      BY <1>6, ItemFields DEF Standing, Active, Held
    <2>2. Promise!Open(items[r].key) = {}
      BY <1>6, <2>1, OpenRows DEF Others, Holders, Active
    <2>3. Standing(r)' = "open" /\ ~Held(r)'
      BY <1>3, <1>6 DEF Standing, Active, Held
    <2>4. ItemOf(r)' = [items[r] EXCEPT !.state = "open"]
      BY <1>2, <1>3, <2>1, <2>3 DEF ItemOf
    <2>5. Promise!Change(r, [items[r] EXCEPT !.state = "open"])
      BY <1>3, <2>4, OneItem
    <2> QED
      BY <1>1, <2>1, <2>2, <2>5 DEF Promise!Reopen, Promise!Next
  <1> QED
    BY <1>2, <1>5, <1>6

LEMMA CrashKeeps ==
  ASSUME IInv, Crash PROVE Promise!Abandon
  <1>1. jobs' = jobs /\ asked' = asked /\ \A w \in Workers : ~Busy(w)'
    BY IdleType DEF Crash, Busy
  <1>2. ASSUME NEW r \in Ids
        PROVE  ItemOf(r)' = Promise!Becomes(r, items[r].state, NoWorker, 0, items[r].result)
    <2>1. ~Held(r)' /\ Standing(r)' = Standing(r)
      BY <1>1 DEF Held, Attended, Busy, Standing
    <2> QED
      BY <1>1, <2>1, UnheldItem, ItemFields
  <1> QED
    BY <1>1, <1>2 DEF Promise!Abandon, items

LEMMA QuietKeeps ==
  ASSUME GuildLeavesOrReturns \/ UNCHANGED vars
  PROVE  items' = items /\ asked' = asked
  <1>1. jobs' = jobs /\ worker' = worker /\ asked' = asked
    BY DEF GuildLeavesOrReturns, vars
  <1> QED
    BY <1>1 DEF items, ItemOf, Standing, Held, Attended, Busy

-----------------------------------------------------------------------------
LEMMA PromiseInit == Init => Promise!Init
  <1> SUFFICES ASSUME Init PROVE Promise!Init
    OBVIOUS
  <1> DEFINE k == CHOOSE k \in Keys : TRUE
  <1>1. k \in Keys
    BY KeyAssumption
  <1> HIDE DEF k
  <1>2. ASSUME NEW r \in Ids PROVE ItemOf(r) = Promise!Unowned("unused", k, 0)
    <2>1. /\ jobs[r].status = "absent" /\ jobs[r].key = k /\ jobs[r].payload = 0
          /\ jobs[r].ran = 0
      BY DEF Init, NewRow, k
    <2>2. ~Held(r) /\ Standing(r) = "unused"
      BY <2>1 DEF Held, Standing
    <2> QED
      BY <2>1, <2>2 DEF ItemOf, Promise!Unowned
  <1>3. items = [r \in Ids |-> Promise!Unowned("unused", k, 0)]
    BY <1>2 DEF items
  <1>4. asked = [j \in Keys |-> 0]
    BY DEF Init
  <1> QED
    BY <1>1, <1>3, <1>4 DEF Promise!Init

LEMMA PromiseStep == IInv /\ TypeOK' /\ [Next]_vars => [Promise!Next]_(Promise!vars)
  <1> SUFFICES ASSUME IInv, TypeOK', [Next]_vars
               PROVE  Promise!Next \/ (items' = items /\ asked' = asked)
    BY DEF Promise!vars
  <1>1. ASSUME NEW k \in Keys, Produce(k)
        PROVE  Promise!Next \/ (items' = items /\ asked' = asked)
    BY <1>1, ProduceKeeps, CloseKeeps DEF Produce, Promise!Next
  <1>2. ASSUME NEW w \in Workers, Progress(w) \/ Fault(w)
        PROVE  Promise!Next \/ (items' = items /\ asked' = asked)
    BY <1>2, ProgressKeeps
  <1>3. ASSUME NEW w \in Workers, NEW r \in Ids, Claim(w, r) \/ ClaimLost(w, r)
        PROVE  Promise!Next
    BY <1>3, TakingKeeps DEF Promise!Next
  <1>4. ASSUME NEW r \in Ids, RetryJob(r) \/ SweepBlocked(r) \/ Clock(r)
        PROVE  Promise!Next \/ (items' = items /\ asked' = asked)
    BY <1>4, RestingKeeps
  <1>5. ASSUME Crash PROVE Promise!Next
    BY <1>5, CrashKeeps DEF Promise!Next
  <1> QED
    BY <1>1, <1>2, <1>3, <1>4, <1>5, QuietKeeps DEF Next

\* Every behaviour of the queue is one that KeyedWork allows.
THEOREM Implements == Spec => KeepsPromise
  <1>1. Spec => [](IInv /\ TypeOK)
    <2>1. IInv => TypeOK
      BY DEF IInv
    <2> QED
      BY <2>1, Invariant, PTL
  <1> QED
    BY <1>1, PromiseInit, PromiseStep, PTL DEF Spec, KeepsPromise, Promise!Spec

-----------------------------------------------------------------------------
(* Parked work (ParkedWork): requeueParked beside the queue.  A row that is  *)
(* not yet superseded is older than every unended row of its key only if it  *)
(* has ended or is parked with an older payload, as long as nothing is lost  *)
(* and no operator retries the key; so who wins by age wins by payload.      *)

Unended == Active \cup {"disabled"}

\* The rows of a pass are parked and locked, a key has one survivor at most, and
\* another active row of a survivor's key is closed by the same pass.
PassHolds ==
  /\ pass \in Pass
  /\ pass.stage \in {"none", "begun"} => pass.losers = {}
  /\ pass.stage \in {"none", "begun", "superseded"} => pass.survivors = {}
  /\ \A r \in pass.losers : jobs[r].status \in pass.statuses /\ r \notin pass.survivors
  /\ \A r \in pass.survivors : jobs[r].status \in pass.statuses
  /\ \A r \in pass.survivors, s \in Ids :
       r # s /\ SameKey(r, s) /\ (jobs[s].status \in Active \/ s \in pass.survivors)
         => s \in pass.losers

\* Rows are numbered in the order of their insertion.
InOrder == \A r, s \in Ids : s < r /\ jobs[s].status = "absent" => jobs[r].status = "absent"

AllOwn == \A w \in Workers : Busy(w) => Owns(w)

OlderIsOlder(r, s) ==
  r < s /\ SameKey(r, s) /\ jobs[r].key \notin retried /\ jobs[s].status \in Unended =>
    /\ jobs[r].status \notin Active
    /\ jobs[r].status = "disabled" => jobs[r].payload <= jobs[s].payload

SurvivorIsNewest(r) ==
  jobs[r].key \notin retried =>
    \A s \in Ids : r < s /\ SameKey(r, s) /\ jobs[s].status = "disabled" => s \in pass.losers

\* Another row of the key has a payload at least as new.
Newer(r) ==
  \E s \in Ids \ {r} :
    SameKey(r, s) /\ jobs[s].status # "absent" /\ jobs[s].payload >= jobs[r].payload

NewerWins ==
  /\ AllOwn
  /\ \A r, s \in Ids : OlderIsOlder(r, s)
  /\ \A r \in pass.survivors : SurvivorIsNewest(r)
  /\ \A r \in pass.losers : jobs[r].key \notin retried => Newer(r)
  /\ \A r \in Ids : jobs[r].ending = "superseded" =>
       jobs[r].status = "succeeded" /\ (jobs[r].key \notin retried => Newer(r))

ParkedInv == IInv /\ PassHolds /\ InOrder /\ (faults = 0 => NewerWins)

-----------------------------------------------------------------------------
(* What a step of the queue may do to a row *)

Inserted(r) ==
  /\ NextRow(r) /\ jobs'[r].status = "queued" /\ jobs'[r].ending = "none"
  /\ jobs'[r].key \in Keys /\ jobs'[r].payload = asked'[jobs'[r].key]
  /\ \A s \in Ids : jobs[s].key = jobs'[r].key => jobs[s].status \notin Active
Stays(r) ==
  /\ jobs[r].status # "absent" /\ jobs'[r].status # "absent"
  /\ jobs'[r].key = jobs[r].key /\ jobs[r].payload <= jobs'[r].payload
\* What becomes of it while nothing is lost.
Calmly(r) ==
  /\ jobs[r].status # "succeeded"
  /\ jobs'[r].ending = "superseded" => jobs[r].ending = "superseded"
  /\ jobs[r].key \notin retried' =>
       /\ jobs[r].status \in Unended
       /\ jobs'[r].status \in Active => jobs[r].status \in Active
       /\ jobs'[r].payload # jobs[r].payload => jobs[r].status \in Active

Moves(r) ==
  jobs'[r] = jobs[r] \/ Inserted(r) \/ (Stays(r) /\ (faults' = 0 /\ AllOwn => Calmly(r)))

\* A statement that writes one row moves it, or leaves every row as it is.
LEMMA OneMoves ==
  ASSUME TypeOK, NEW r \in Ids, NEW row, Write(r, row),
         row = jobs[r] \/ Inserted(r) \/ (Stays(r) /\ (faults' = 0 /\ AllOwn => Calmly(r)))
  PROVE  \A s \in Ids : Moves(s)
<1>1. jobs'[r] = row /\ \A s \in Ids \ {r} : jobs'[s] = jobs[s]
  BY DEF Write, TypeOK
<1>. QED  BY <1>1 DEF Moves

LEMMA InsertMoves ==
  ASSUME IInv, NEW k \in Keys, NEW r \in Ids, NEW now \in BOOLEAN, NextRow(r), Holders(k) = {},
         Write(r, NewRow(k, asked[k] + 1, now)), asked'[k] = asked[k] + 1
  PROVE  \A s \in Ids : Moves(s)
<1>1. jobs'[r] = NewRow(k, asked[k] + 1, now)
  BY DEF Write, IInv, TypeOK
<1>2. /\ jobs'[r].status = "queued" /\ jobs'[r].ending = "none" /\ jobs'[r].key = k
      /\ jobs'[r].payload = asked'[k]
  BY <1>1 DEF NewRow
<1>3. Inserted(r)
  BY <1>2 DEF Inserted, Holders
<1>. QED  BY <1>3, OneMoves DEF IInv

LEMMA EnqueueMoves ==
  ASSUME IInv, NEW k \in Keys, Enqueue(k) \/ ScheduleJob(k) \/ NotifyRunning(k)
  PROVE  \A s \in Ids : Moves(s)
<1>1. asked'[k] = asked[k] + 1 /\ asked[k] \in Nat
  BY DEF IInv, TypeOK, Enqueue, ScheduleJob, NotifyRunning
<1>2. ASSUME NEW r \in Holders(k), NEW row, Write(r, row), row.status \in Active,
             row.payload = asked[k] + 1, row.key = jobs[r].key, row.ending = jobs[r].ending
      PROVE  \A s \in Ids : Moves(s)
  <2>1. r \in Ids /\ jobs[r].key = k /\ jobs[r].status \in Active /\ jobs[r] \in Row
    BY DEF Holders, IInv, TypeOK
  <2>2. jobs[r].payload <= asked[k] /\ jobs[r].payload \in Nat
    BY <2>1 DEF IInv, RowsOK, RowOK, Row
  <2>3. jobs'[r] = row
    BY <1>2, <2>1 DEF Write, IInv, TypeOK
  <2>4. Stays(r)
    BY <1>1, <1>2, <2>1, <2>2, <2>3 DEF Stays, Active
  <2>5. Calmly(r)
    BY <1>2, <2>1, <2>3 DEF Calmly, Active, Unended
  <2>. QED  BY <1>2, <2>1, <2>4, <2>5, OneMoves DEF IInv
<1>3. CASE \E now \in BOOLEAN, r \in Ids :
             NextRow(r) /\ Holders(k) = {} /\ Write(r, NewRow(k, asked[k] + 1, now))
  BY <1>1, <1>3, InsertMoves
<1>4. CASE \E now \in BOOLEAN : \E r \in Holders(k) :
             Write(r, [jobs[r] EXCEPT !.payload = asked[k] + 1,
                                      !.generation = @ + 1,
                                      !.due = @ \/ now,
                                      !.status = IF @ = "blocked" THEN "queued" ELSE @])
  <2>1. PICK now \in BOOLEAN, r \in Holders(k) :
             Write(r, [jobs[r] EXCEPT !.payload = asked[k] + 1,
                                      !.generation = @ + 1,
                                      !.due = @ \/ now,
                                      !.status = IF @ = "blocked" THEN "queued" ELSE @])
    BY <1>4
  <2>. DEFINE row == [jobs[r] EXCEPT !.payload = asked[k] + 1,
                                     !.generation = @ + 1,
                                     !.due = @ \/ now,
                                     !.status = IF @ = "blocked" THEN "queued" ELSE @]
  <2>2. jobs[r] \in Row /\ jobs[r].status \in Active
    BY DEF Holders, IInv, TypeOK
  <2>3. /\ row.status \in Active /\ row.payload = asked[k] + 1
        /\ row.key = jobs[r].key /\ row.ending = jobs[r].ending
    BY <2>2 DEF Row, Active
  <2>4. Write(r, row)
    BY <2>1
  <2>. HIDE DEF row
  <2>. QED  BY <1>2, <2>3, <2>4
<1>5. CASE \E r \in Holders(k) : /\ jobs[r].status = "running"
             /\ Write(r, [jobs[r] EXCEPT !.payload = asked[k] + 1,
                                         !.generation = @ + 1, !.due = FALSE])
  <2>1. PICK r \in Holders(k) : /\ jobs[r].status = "running"
             /\ Write(r, [jobs[r] EXCEPT !.payload = asked[k] + 1,
                                         !.generation = @ + 1, !.due = FALSE])
    BY <1>5
  <2>. DEFINE row == [jobs[r] EXCEPT !.payload = asked[k] + 1,
                                     !.generation = @ + 1, !.due = FALSE]
  <2>2. jobs[r] \in Row
    BY DEF Holders, IInv, TypeOK
  <2>3. /\ row.status \in Active /\ row.payload = asked[k] + 1
        /\ row.key = jobs[r].key /\ row.ending = jobs[r].ending
    BY <2>1, <2>2 DEF Row, Active
  <2>4. Write(r, row)
    BY <2>1
  <2>. HIDE DEF row
  <2>. QED  BY <1>2, <2>3, <2>4
<1>6. CASE Enqueue(k)
  BY <1>3, <1>4, <1>6 DEF Enqueue
<1>7. CASE ScheduleJob(k)
  BY <1>3, <1>7 DEF ScheduleJob
<1>8. CASE NotifyRunning(k)
  BY <1>5, <1>8 DEF NotifyRunning
<1>. QED  BY <1>6, <1>7, <1>8

LEMMA CloseMoves ==
  ASSUME IInv, NEW k \in Keys, CloseUnstarted(k)
  PROVE  \A r \in Ids : Moves(r)
<1>. SUFFICES ASSUME NEW r \in Ids, jobs'[r] # jobs[r] PROVE Stays(r) /\ Calmly(r)
  BY DEF Moves
<1>1. jobs[r] \in Row
  BY DEF IInv, TypeOK
<1>2. /\ jobs[r].status \in Unstarted
      /\ jobs'[r] = [jobs[r] EXCEPT !.status = "succeeded", !.lease = "none", !.ending = "skipped"]
  BY DEF CloseUnstarted
<1>3. /\ jobs'[r].status = "succeeded" /\ jobs'[r].ending = "skipped"
      /\ jobs'[r].key = jobs[r].key /\ jobs'[r].payload = jobs[r].payload
      /\ jobs[r].payload \in Nat
  BY <1>1, <1>2 DEF Row
<1>. QED  BY <1>2, <1>3 DEF Stays, Calmly, Unended, Active, Unstarted


\* What a worker writes at the end of its attempt.
LEMMA EndMoves ==
  ASSUME IInv, NEW w \in Workers, Progress(w) \/ Fault(w)
  PROVE  \A s \in Ids : Moves(s)
<1>. DEFINE r == worker[w].job
<1>1. CASE jobs' = jobs
  BY <1>1 DEF Moves
<1>2. CASE \E row \in {Job(w), Published(w)} : worker[w].pc = "publish" /\ Write(r, row)
  <2>1. PICK row \in {Job(w), Published(w)} : worker[w].pc = "publish" /\ Write(r, row)
    BY <1>2
  <2>2. /\ Busy(w) /\ r \in Ids /\ Job(w) = jobs[r] /\ jobs[r] \in Row /\ jobs[r].payload \in Nat
        /\ jobs'[r] = row
    BY <2>1, JobType DEF IInv, TypeOK, Busy, Job, Row, Write
  <2>3. CASE row # Job(w)
    <3>1. row = Published(w) /\ jobs[r].token = w
      BY <2>1, <2>2, <2>3 DEF Published
    <3>2. /\ row.key = jobs[r].key /\ row.payload = jobs[r].payload
          /\ row.status \in {"succeeded", "queued"} /\ row.ending = "ran"
      BY <2>2, <3>1 DEF Published, Row
    <3>3. jobs[r].status = "running"
      BY <2>1, <2>2, <3>1 DEF IInv, AttemptsOK, AttemptOK
    <3>. QED  BY <2>1, <2>2, <3>2, <3>3, OneMoves DEF IInv, Stays, Calmly, Active, Unended
  <2>4. CASE row = Job(w)
    BY <2>1, <2>2, <2>4, OneMoves DEF IInv
  <2>. QED  BY <2>3, <2>4
<1>3. CASE RecordFailure(w)
  <2>1. /\ Busy(w) /\ r \in Ids /\ Job(w) = jobs[r] /\ jobs[r] \in Row /\ jobs[r].payload \in Nat
        /\ worker[w].error \in Codes /\ worker[w].attempts \in Nat
    BY <1>3, JobType DEF RecordFailure, IInv, TypeOK, Busy, Job, Row, Attempt
  <2>2. PICK row \in {jobs[r], Recorded(w)} : Write(r, row)
    BY <1>3 DEF RecordFailure, WriteIndexed
  <2>3. jobs'[r] = row
    BY <2>1, <2>2 DEF Write, IInv, TypeOK
  <2>4. CASE row # jobs[r]
    <3>1. row = Recorded(w) /\ jobs[r].token = w /\ worker[w].error # "lease_lost"
      BY <2>1, <2>2, <2>4 DEF Recorded
    <3>2. Outcome(worker[w].error, worker[w].attempts) # "absent"
      BY <2>1, OutcomeType
    <3>3. /\ row.key = jobs[r].key /\ row.payload = jobs[r].payload
          /\ row.status # "absent" /\ row.ending \in {"gone", "none"}
      BY <2>1, <3>1, <3>2 DEF Recorded, Row
    <3>4. jobs[r].status # "absent"
      BY <2>1, <3>1, WorkerAssumption DEF IInv, RowsOK, RowOK
    <3>5. AllOwn => jobs[r].status = "running"
      BY <2>1 DEF AllOwn, Owns
    <3>6. Stays(r) /\ (AllOwn => Calmly(r))
      BY <2>1, <2>3, <3>3, <3>4, <3>5 DEF Stays, Calmly, Active, Unended
    <3>. QED  BY <2>1, <2>2, <3>6, OneMoves DEF IInv
  <2>5. CASE row = jobs[r]
    BY <2>1, <2>2, <2>5, OneMoves DEF IInv
  <2>. QED  BY <2>4, <2>5
<1>4. CASE Publish(w) \/ PublishLost(w)
  <2>1. \E row \in {Job(w), Published(w)} : worker[w].pc = "publish" /\ Write(r, row)
    BY <1>4 DEF Publish, PublishLost
  <2>. QED  BY <1>2, <2>1
<1>5. CASE GuardRefuses(w) \/ Return(w) \/ Throw(w) \/ RecordLost(w)
  BY <1>1, <1>5 DEF GuardRefuses, Return, Throw, RecordLost
<1>. QED  BY <1>3, <1>4, <1>5 DEF Progress, Fault

LEMMA ClaimMoves ==
  ASSUME IInv, NEW w \in Workers, NEW r \in Ids, Claim(w, r) \/ ClaimLost(w, r)
  PROVE  \A s \in Ids : Moves(s)
<1>1. jobs[r] \in Row /\ jobs[r].payload \in Nat
  BY DEF IInv, TypeOK, Row
<1>2. Write(r, Claimed(w, r)) /\ jobs[r].status \in {"queued", "running"}
  BY DEF Claim, ClaimLost, Claimable
<1>3. /\ jobs'[r].status = "running" /\ jobs'[r].key = jobs[r].key
      /\ jobs'[r].payload = jobs[r].payload /\ jobs'[r].ending = jobs[r].ending
  BY <1>1, <1>2 DEF Write, Claimed, Row, IInv, TypeOK
<1>. QED  BY <1>1, <1>2, <1>3, OneMoves DEF IInv, Stays, Calmly, Active, Unended

LEMMA RestingMoves ==
  ASSUME IInv, NEW r \in Ids,
         \/ SweepBlocked(r) \/ Clock(r)
         \/ RetryJob(r) /\ jobs[r].key \in retried'
  PROVE  \A s \in Ids : Moves(s)
<1>1. jobs[r] \in Row /\ jobs[r].payload \in Nat
  BY DEF IInv, TypeOK, Row
<1>2. CASE RetryJob(r) /\ jobs[r].key \in retried'
  <2>1. /\ jobs'[r].status = "queued" /\ jobs'[r].key = jobs[r].key
        /\ jobs'[r].payload = jobs[r].payload /\ jobs'[r].ending = "none"
        /\ jobs[r].status \in {"blocked", "failed", "disabled"}
    BY <1>1, <1>2 DEF Write, RetryJob, Row, IInv, TypeOK
  <2>2. Stays(r) /\ Calmly(r)
    BY <1>1, <1>2, <2>1 DEF Stays, Calmly
  <2>. QED  BY <1>2, <2>2, OneMoves DEF IInv, RetryJob
<1>3. CASE SweepBlocked(r)
  <2>1. /\ jobs'[r].status = "queued" /\ jobs'[r].key = jobs[r].key
        /\ jobs'[r].payload = jobs[r].payload /\ jobs'[r].ending = jobs[r].ending
        /\ jobs[r].status = "blocked"
    BY <1>1, <1>3 DEF Write, SweepBlocked, Row, IInv, TypeOK
  <2>2. Stays(r) /\ Calmly(r)
    BY <1>1, <2>1 DEF Stays, Calmly, Active, Unended
  <2>. QED  BY <1>3, <2>2, OneMoves DEF IInv, SweepBlocked
<1>4. CASE Clock(r)
  <2>1. PICK row \in {[jobs[r] EXCEPT !.due = TRUE], [jobs[r] EXCEPT !.lease = "expired"]} :
          Write(r, row) /\ jobs[r].status \in Active
    BY <1>4 DEF Clock, DueArrives, LeaseExpires, LeaseStalls, Active
  <2>2. /\ jobs'[r].status = jobs[r].status /\ jobs'[r].key = jobs[r].key
        /\ jobs'[r].payload = jobs[r].payload /\ jobs'[r].ending = jobs[r].ending
    BY <1>1, <2>1 DEF Write, Row, IInv, TypeOK
  <2>3. Stays(r) /\ Calmly(r)
    BY <1>1, <2>1, <2>2 DEF Stays, Calmly, Active, Unended
  <2>. QED  BY <2>1, <2>3, OneMoves DEF IInv
<1>. QED  BY <1>2, <1>3, <1>4

\* A step beside a pass is one of the queue's, moves rows, and leaves the pass's rows alone.
LEMMA BesideMoves ==
  ASSUME IInv, BesidePass
  PROVE  /\ Next /\ pass' = pass /\ retried \subseteq retried'
         /\ \A s \in Ids : Moves(s)
         /\ \A r \in pass.losers \cup pass.survivors : r \in Ids => jobs'[r] = jobs[r]
         /\ \A r \in Ids, s \in pass.survivors :
              jobs[r].status \notin Active /\ jobs'[r].status \in Active => jobs'[r].key # jobs[s].key
<1>1. CASE QueueStep /\ retried' = retried
  <2>1. ASSUME NEW k \in Keys, Produce(k) PROVE \A s \in Ids : Moves(s)
    BY <2>1, EnqueueMoves, CloseMoves DEF Produce
  <2>2. ASSUME GuildLeavesOrReturns PROVE \A s \in Ids : Moves(s)
    BY <2>2 DEF GuildLeavesOrReturns, Moves
  <2>3. (\A s \in Ids : Moves(s)) /\ Next
    BY <1>1, <2>1, <2>2, EndMoves, ClaimMoves, RestingMoves DEF QueueStep, Next
  <2>. QED  BY <1>1, <2>3 DEF BesidePass, Waits, Locked
<1>2. CASE \E k \in Keys : TrackedEnqueue(k) /\ retried' = retried
  <2>1. (\A s \in Ids : Moves(s)) /\ Next
    BY <1>2, EnqueueMoves DEF TrackedEnqueue, Produce, Next
  <2>. QED  BY <1>2, <2>1 DEF BesidePass, Waits, Locked
<1>3. CASE \E r \in Ids : RetryJob(r) /\ retried' = retried \cup {jobs[r].key}
  <2>1. (\A s \in Ids : Moves(s)) /\ Next
    BY <1>3, RestingMoves DEF Next
  <2>. QED  BY <1>3, <2>1 DEF BesidePass, Waits, Locked
<1>. QED  BY <1>1, <1>2, <1>3 DEF BesidePass


\* Whoever owned their row goes on to own it, if the row goes on.
LEMMA OwnersStay ==
  ASSUME IInv, AllOwn, IInv', worker' = worker,
         \A r \in Ids : jobs[r].status = "running" /\ jobs[r].lease = "live" /\ jobs[r].token \in Workers
                        /\ Attended(r)
           => /\ jobs'[r].status = "running" /\ jobs'[r].lease = "live"
              /\ jobs'[r].token = jobs[r].token
  PROVE  AllOwn'
<1>. SUFFICES ASSUME NEW v \in Workers, Busy(v) PROVE Owns(v)'
  BY DEF AllOwn, Busy
<1>1. worker[v].job \in Ids /\ Job(v) = jobs[worker[v].job] /\ Owns(v)
  BY DEF IInv, TypeOK, Job, AllOwn
<1>2. Attended(worker[v].job)
  BY <1>1 DEF Attended, Owns
<1>. QED  BY <1>1, <1>2 DEF Owns, Job

LEMMA ProducersStay ==
  ASSUME IInv, AllOwn, IInv', NEW k \in Keys, Produce(k)
  PROVE  AllOwn'
<1>1. worker' = worker
  BY DEF Produce, Enqueue, ScheduleJob, NotifyRunning, CloseUnstarted
<1>. SUFFICES ASSUME NEW s \in Ids, jobs[s].status = "running"
              PROVE  /\ jobs'[s].status = "running" /\ jobs'[s].lease = jobs[s].lease
                     /\ jobs'[s].token = jobs[s].token
  BY <1>1, OwnersStay
<1>2. jobs[s] \in Row /\ jobs \in [Ids -> Row]
  BY DEF IInv, TypeOK
<1>3. CASE CloseUnstarted(k)
  BY <1>3, <1>2 DEF CloseUnstarted, Unstarted
<1>4. CASE \E r \in Ids : NextRow(r) /\ \E row : Write(r, row)
  BY <1>2, <1>4 DEF NextRow, Write
<1>5. CASE Enqueue(k) /\ Holders(k) # {}
  <2>1. PICK r \in Holders(k), now \in BOOLEAN :
             Write(r, [jobs[r] EXCEPT !.payload = asked[k] + 1,
                                      !.generation = @ + 1,
                                      !.due = @ \/ now,
                                      !.status = IF @ = "blocked" THEN "queued" ELSE @])
    BY <1>5 DEF Enqueue
  <2>2. r \in Ids
    BY DEF Holders
  <2>3. CASE s = r
    BY <1>2, <2>1, <2>2, <2>3 DEF Write, Row
  <2>4. CASE s # r
    BY <1>2, <2>1, <2>2, <2>4 DEF Write
  <2>. QED  BY <2>3, <2>4
<1>6. CASE NotifyRunning(k)
  <2>1. PICK r \in Holders(k) : Write(r, [jobs[r] EXCEPT !.payload = asked[k] + 1,
                                                   !.generation = @ + 1, !.due = FALSE])
    BY <1>6 DEF NotifyRunning
  <2>2. r \in Ids
    BY DEF Holders
  <2>3. CASE s = r
    BY <1>2, <2>1, <2>2, <2>3 DEF Write, Row
  <2>4. CASE s # r
    BY <1>2, <2>1, <2>2, <2>4 DEF Write
  <2>. QED  BY <2>3, <2>4
<1>7. CASE Enqueue(k) /\ Holders(k) = {}
  BY <1>4, <1>7 DEF Enqueue
<1>8. CASE ScheduleJob(k)
  BY <1>4, <1>8 DEF ScheduleJob
<1>. QED  BY <1>3, <1>5, <1>6, <1>7, <1>8 DEF Produce

LEMMA RestingStays ==
  ASSUME IInv, AllOwn, IInv', faults = 0, faults' = 0,
         NEW r \in Ids, RetryJob(r) \/ SweepBlocked(r) \/ Clock(r)
  PROVE  AllOwn'
<1>1. worker' = worker /\ jobs \in [Ids -> Row]
  BY DEF IInv, TypeOK, RetryJob, SweepBlocked, Clock, DueArrives, LeaseExpires, LeaseStalls
<1>2. CASE RetryJob(r) \/ SweepBlocked(r) \/ DueArrives(r)
  <2>1. \A s \in Ids : jobs[s].status = "running" => jobs'[s] = jobs[s]
    BY <1>1, <1>2 DEF RetryJob, SweepBlocked, DueArrives, Write
  <2>. QED  BY <1>1, <2>1, OwnersStay
<1>3. CASE LeaseExpires(r)
  <2>1. \A s \in Ids \ {r} : jobs'[s] = jobs[s]
    BY <1>1, <1>3 DEF LeaseExpires, Write
  <2>2. ~Attended(r)
    BY <1>3 DEF LeaseExpires
  <2>. QED  BY <1>1, <2>1, <2>2, OwnersStay
<1>4. ~LeaseStalls(r)
  BY DEF LeaseStalls
<1>. QED  BY <1>2, <1>3, <1>4 DEF Clock

LEMMA WorkersStay ==
  ASSUME IInv, AllOwn, IInv', faults = 0, faults' = 0, NEW w \in Workers,
         Progress(w) \/ Fault(w) \/ \E r \in Ids : Claim(w, r) \/ ClaimLost(w, r)
  PROVE  AllOwn'
<1>0. /\ worker \in [Workers -> Attempt] /\ jobs \in [Ids -> Row]
      /\ \A v \in Workers : Busy(v) => worker[v].job \in Ids
      /\ \A v \in Workers : Job(v) = jobs[worker[v].job] /\ Job(v)' = jobs'[worker'[v].job]
  BY DEF IInv, TypeOK, Job
<1>1. ~Fault(w) /\ \A r \in Ids : ~ClaimLost(w, r)
  BY DEF Fault, PublishLost, RecordLost, ClaimLost
<1>2. CASE GuardRefuses(w) \/ Return(w) \/ Throw(w)
  <2>1. PICK attempt \in {Threw(w, e) : e \in Codes} \cup {[worker[w] EXCEPT !.pc = "publish"]} :
          Set(w, attempt) /\ jobs' = jobs /\ Busy(w)
    BY <1>2, Values DEF GuardRefuses, Return, Throw, Busy
  <2>2. attempt.job = worker[w].job
    BY <1>0, <2>1 DEF Threw, Attempt
  <2>3. \A v \in Workers : worker'[v].job = worker[v].job /\ (Busy(v)' => Busy(v))
    BY <1>0, <2>1, <2>2 DEF Set, Busy
  <2>. QED  BY <1>0, <2>1, <2>3 DEF AllOwn, Owns
<1>3. CASE Publish(w) \/ RecordFailure(w)
  <2>1. PICK row : Write(worker[w].job, row) /\ Set(w, Idle) /\ Busy(w)
    BY <1>3 DEF Publish, RecordFailure, WriteIndexed, Busy
  <2>2. ASSUME NEW v \in Workers, Busy(v)' PROVE Owns(v)'
    <3>1. v # w /\ worker'[v] = worker[v] /\ Busy(v)
      BY <1>0, <2>1, <2>2, IdleType DEF Set, Busy
    <3>2. Owns(v) /\ Owns(w)
      BY <2>1, <3>1 DEF AllOwn
    <3>3. worker[v].job # worker[w].job
      BY <1>0, <3>1, <3>2 DEF Owns
    <3>4. jobs'[worker[v].job] = jobs[worker[v].job]
      BY <1>0, <2>1, <3>1, <3>3 DEF Write
    <3>. QED  BY <1>0, <3>1, <3>2, <3>4 DEF Owns
  <2>. QED  BY <2>2 DEF AllOwn
<1>4. ASSUME NEW r \in Ids, Claim(w, r) PROVE AllOwn'
  <2>1. /\ ~Busy(w) /\ Write(r, Claimed(w, r)) /\ Claimable(r)
        /\ \A v \in Workers \ {w} : worker'[v] = worker[v]
        /\ worker'[w].job = r
    BY <1>0, <1>4 DEF Claim, Set
  <2>2. ASSUME NEW v \in Workers, Busy(v)' PROVE Owns(v)'
    <3>1. CASE v = w
      <4>1. jobs'[r] = Claimed(w, r) /\ jobs[r] \in Row
        BY <1>0, <2>1 DEF Write
      <4>2. /\ Claimed(w, r).token = w /\ Claimed(w, r).lease = "live"
            /\ Claimed(w, r).status = "running"
        BY <4>1 DEF Claimed, Row
      <4>. QED  BY <1>0, <2>1, <3>1, <4>1, <4>2 DEF Owns
    <3>2. CASE v # w
      <4>1. worker'[v] = worker[v] /\ Busy(v) /\ Owns(v)
        BY <2>1, <2>2, <3>2 DEF Busy, AllOwn
      <4>2. worker[v].job # r
        BY <1>0, <2>1, <4>1 DEF Owns, Claimable
      <4>3. jobs'[worker[v].job] = jobs[worker[v].job]
        BY <1>0, <2>1, <4>1, <4>2 DEF Write
      <4>. QED  BY <1>0, <4>1, <4>3 DEF Owns
    <3>. QED  BY <3>1, <3>2
  <2>. QED  BY <2>2 DEF AllOwn
<1>. QED  BY <1>1, <1>2, <1>3, <1>4 DEF Progress

\* While nothing is lost, every busy worker owns its row.
LEMMA OwnersKept ==
  ASSUME IInv, AllOwn, IInv', Next, faults = 0, faults' = 0
  PROVE  AllOwn'
<1>1. ~Crash
  BY DEF Crash
<1>2. ASSUME GuildLeavesOrReturns PROVE AllOwn'
  BY <1>2 DEF GuildLeavesOrReturns, AllOwn, Owns, Busy, Job
<1>. QED  BY <1>1, <1>2, ProducersStay, RestingStays, WorkersStay DEF Next


-----------------------------------------------------------------------------
(* The queue beside a pass *)

LEMMA BesideOrder ==
  ASSUME IInv, PassHolds, InOrder, BesidePass
  PROVE  PassHolds' /\ InOrder'
<1>1. /\ pass' = pass /\ \A s \in Ids : Moves(s)
      /\ \A r \in pass.losers \cup pass.survivors : r \in Ids => jobs'[r] = jobs[r]
      /\ \A r \in Ids, s \in pass.survivors :
           jobs[r].status \notin Active /\ jobs'[r].status \in Active => jobs'[r].key # jobs[s].key
  BY BesideMoves
<1>2. pass.losers \subseteq Ids /\ pass.survivors \subseteq Ids
  BY DEF PassHolds, Pass
<1>3. \A r \in pass.losers \cup pass.survivors : jobs'[r] = jobs[r]
  BY <1>1, <1>2
<1>4. PassHolds'
  <2>1. ASSUME NEW r \in pass.survivors, NEW s \in Ids, r # s, SameKey(r, s)',
               jobs'[s].status \in Active \/ s \in pass.survivors
        PROVE  s \in pass.losers
    <3>1. jobs'[r] = jobs[r] /\ r \in Ids
      BY <1>2, <1>3
    <3>2. CASE s \in pass.survivors
      BY <1>3, <2>1, <3>1, <3>2 DEF PassHolds, SameKey
    <3>3. CASE jobs'[s].status \in Active
      <4>1. jobs'[s].key = jobs[r].key
        BY <2>1, <3>1 DEF SameKey
      <4>2. jobs[s].status \in Active
        BY <1>1, <3>3, <4>1
      <4>3. jobs[s].key = jobs'[s].key
        BY <1>1, <4>2 DEF Moves, Inserted, NextRow, Stays, Active
      <4>. QED  BY <2>1, <4>1, <4>2, <4>3 DEF PassHolds, SameKey
    <3>. QED  BY <2>1, <3>2, <3>3
  <2>. QED  BY <1>1, <1>2, <1>3, <2>1 DEF PassHolds
<1>5. InOrder'
  <2>. SUFFICES ASSUME NEW r \in Ids, NEW s \in Ids, s < r, jobs'[s].status = "absent"
                PROVE  jobs'[r].status = "absent"
    BY DEF InOrder
  <2>1. jobs[s].status = "absent"
    BY <1>1 DEF Moves, Inserted, Stays
  <2>2. jobs[r].status = "absent"
    BY <2>1 DEF InOrder
  <2>3. ~NextRow(r)
    BY <2>1 DEF NextRow
  <2>. QED  BY <1>1, <2>2, <2>3 DEF Moves, Inserted, Stays
<1>. QED  BY <1>4, <1>5

\* A row that is newer stays so: it keeps its key, and its payload only grows.
LEMMA NewerStays ==
  ASSUME IInv, IInv', \A s \in Ids : Moves(s), NEW r \in Ids, jobs'[r] = jobs[r], Newer(r)
  PROVE  Newer(r)'
<1>1. PICK s \in Ids \ {r} : SameKey(r, s) /\ jobs[s].status # "absent"
                             /\ jobs[s].payload >= jobs[r].payload
  BY DEF Newer
<1>2. /\ jobs[s].payload \in Nat /\ jobs'[s].payload \in Nat /\ jobs[r].payload \in Nat
  BY DEF IInv, TypeOK, Row
<1>3. Moves(s)
  OBVIOUS
<1>4. /\ jobs'[s].key = jobs[s].key /\ jobs'[s].status # "absent"
      /\ jobs[s].payload <= jobs'[s].payload
  BY <1>1, <1>2, <1>3 DEF Moves, Inserted, NextRow, Stays
<1>5. SameKey(r, s)' /\ jobs'[s].payload >= jobs'[r].payload
  BY <1>1, <1>2, <1>4 DEF SameKey
<1>. QED  BY <1>4, <1>5 DEF Newer

LEMMA OlderStays ==
  ASSUME IInv, IInv', InOrder, faults' = 0, AllOwn, retried \subseteq retried',
         \A x \in Ids : Moves(x), NEW r \in Ids, NEW s \in Ids, OlderIsOlder(r, s)
  PROVE  OlderIsOlder(r, s)'
<1>. SUFFICES ASSUME r < s, SameKey(r, s)', jobs'[r].key \notin retried',
                     jobs'[s].status \in Unended
              PROVE  /\ jobs'[r].status \notin Active
                     /\ jobs'[r].status = "disabled" => jobs'[r].payload <= jobs'[s].payload
  BY DEF OlderIsOlder
<1>1. Moves(r) /\ Moves(s) /\ jobs'[r].key = jobs'[s].key
  BY DEF SameKey
<1>2. /\ jobs[r].payload \in Nat /\ jobs[s].payload \in Nat
      /\ jobs'[r].payload \in Nat /\ jobs'[s].payload \in Nat
  BY DEF IInv, TypeOK, Row
<1>3. CASE Inserted(s)
  <2>1. jobs[r].status # "absent"
    BY <1>3 DEF Inserted, NextRow
  <2>2. jobs'[r].key = jobs[r].key /\ ~Inserted(r)
    BY <1>1, <2>1 DEF Moves, Inserted, NextRow, Stays
  <2>3. jobs[r].status \notin Active
    BY <1>1, <1>3, <2>2 DEF Inserted
  <2>4. jobs'[r].status \notin Active
    BY <1>1, <2>2, <2>3 DEF Moves, Calmly
  <2>5. jobs'[r].payload <= asked'[jobs'[r].key]
    BY DEF IInv, RowsOK, RowOK
  <2>. QED  BY <1>1, <1>3, <2>4, <2>5 DEF Inserted
<1>4. CASE ~Inserted(s)
  <2>1. jobs[s].status # "absent" /\ jobs'[s].key = jobs[s].key
        /\ jobs[s].payload <= jobs'[s].payload
    BY <1>1, <1>2, <1>4 DEF Moves, Stays, Unended, Active
  <2>2. ~Inserted(r) /\ jobs[r].status # "absent"
    BY <2>1 DEF InOrder, Inserted, NextRow
  <2>3. jobs'[r].key = jobs[r].key /\ SameKey(r, s) /\ jobs[r].key \notin retried
    BY <1>1, <2>1, <2>2 DEF Moves, Stays, SameKey
  <2>4. jobs[s].status \in Unended
    BY <1>1, <1>4, <2>1, <2>3 DEF Moves, Calmly, SameKey
  <2>5. /\ jobs[r].status \notin Active
        /\ jobs[r].status = "disabled" => jobs[r].payload <= jobs[s].payload
    BY <2>3, <2>4 DEF OlderIsOlder
  <2>6. jobs'[r] = jobs[r] \/ (Calmly(r) /\ Stays(r))
    BY <1>1, <2>2 DEF Moves
  <2>7. /\ jobs'[r].status \notin Active /\ jobs'[r].payload = jobs[r].payload
        /\ jobs'[r].status = "disabled" => jobs[r].status = "disabled"
    BY <2>3, <2>5, <2>6 DEF Calmly, Unended
  <2>. QED  BY <1>2, <2>1, <2>5, <2>7
<1>. QED  BY <1>3, <1>4

LEMMA BesideNewer ==
  ASSUME ParkedInv, BesidePass, IInv', faults' = 0
  PROVE  NewerWins'
<1>1. /\ Next /\ pass' = pass /\ retried \subseteq retried' /\ \A s \in Ids : Moves(s)
      /\ \A r \in pass.losers \cup pass.survivors : r \in Ids => jobs'[r] = jobs[r]
  BY BesideMoves DEF ParkedInv
<1>2. faults = 0 /\ faults \in Nat
  <2>1. faults' = faults \/ faults' = faults + 1
    BY <1>1 DEF Next, Produce, Enqueue, ScheduleJob, NotifyRunning, CloseUnstarted, Progress, Fault,
         GuardRefuses, Return, Throw, Publish, RecordFailure, PublishLost, RecordLost, Claim,
         ClaimLost, RetryJob, SweepBlocked, Clock, DueArrives, LeaseExpires, LeaseStalls, Crash,
         GuildLeavesOrReturns
  <2>. QED  BY <2>1 DEF ParkedInv, IInv, TypeOK
<1>3. NewerWins /\ AllOwn /\ IInv /\ InOrder /\ PassHolds
  BY <1>2 DEF ParkedInv, NewerWins
<1>4. pass.losers \subseteq Ids /\ pass.survivors \subseteq Ids
  BY <1>3 DEF PassHolds, Pass
<1>5. AllOwn'
  BY <1>1, <1>2, <1>3, OwnersKept
<1>6. \A r, s \in Ids : OlderIsOlder(r, s)'
  BY <1>1, <1>3, OlderStays DEF NewerWins
<1>7. ASSUME NEW r \in pass.survivors PROVE SurvivorIsNewest(r)'
  <2>. SUFFICES ASSUME jobs'[r].key \notin retried', NEW s \in Ids, r < s, SameKey(r, s)',
                       jobs'[s].status = "disabled"
                PROVE  s \in pass.losers
    BY <1>1 DEF SurvivorIsNewest
  <2>1. jobs'[r] = jobs[r] /\ r \in Ids /\ jobs'[s].key = jobs'[r].key
    BY <1>1, <1>4 DEF SameKey
  <2>2. jobs'[s].key = jobs[s].key
    BY <1>1 DEF Moves, Inserted, Stays
  <2>3. jobs[s].status \in Unended
    BY <1>1, <1>3, <2>1, <2>2 DEF Moves, Inserted, Calmly, Unended
  <2>4. SameKey(r, s) /\ r # s
    BY <2>1, <2>2, BoundAssumption DEF SameKey, Ids
  <2>5. CASE jobs[s].status = "disabled"
    BY <1>1, <1>3, <2>1, <2>4, <2>5 DEF NewerWins, SurvivorIsNewest
  <2>6. CASE jobs[s].status \in Active
    BY <1>3, <2>1, <2>4, <2>6 DEF PassHolds
  <2>. QED  BY <2>3, <2>5, <2>6 DEF Unended
<1>8. ASSUME NEW r \in pass.losers, jobs'[r].key \notin retried' PROVE Newer(r)'
  <2>1. jobs'[r] = jobs[r] /\ r \in Ids
    BY <1>1, <1>4
  <2>2. Newer(r)
    BY <1>1, <1>3, <1>8, <2>1 DEF NewerWins
  <2>. QED  BY <1>1, <1>3, <2>1, <2>2, NewerStays
<1>9. ASSUME NEW r \in Ids, jobs'[r].ending = "superseded"
      PROVE  jobs'[r].status = "succeeded" /\ (jobs'[r].key \notin retried' => Newer(r)')
  <2>1. jobs'[r] = jobs[r]
    <3>1. CASE Inserted(r)
      BY <1>9, <3>1 DEF Inserted
    <3>2. CASE Stays(r) /\ Calmly(r)
      BY <1>3, <1>9, <3>2 DEF Calmly, NewerWins
    <3>. QED  BY <1>1, <1>3, <3>1, <3>2 DEF Moves
  <2>2. jobs[r].status = "succeeded" /\ (jobs[r].key \notin retried => Newer(r))
    BY <1>3, <1>9, <2>1 DEF NewerWins
  <2>. QED  BY <1>1, <1>3, <2>1, <2>2, NewerStays
<1>. QED  BY <1>1, <1>5, <1>6, <1>7, <1>8, <1>9 DEF NewerWins


-----------------------------------------------------------------------------
(* The statements of a pass *)

\* A step of a pass before its commit only looks at the rows.
LEMMA LooksKeep ==
  ASSUME ParkedInv, UNCHANGED <<vars, links, retried>>, PassHolds',
         faults = 0 =>
           /\ \A r \in pass'.survivors : SurvivorIsNewest(r)'
           /\ \A r \in pass'.losers : jobs[r].key \notin retried => Newer(r)
  PROVE  ParkedInv'
<1>1. IInv'
  BY IdleInv, TypeStep DEF ParkedInv, IInv
<1>2. InOrder'
  BY DEF ParkedInv, InOrder, vars
<1>3. ASSUME faults = 0 PROVE NewerWins'
  <2>1. AllOwn'
    BY <1>3 DEF ParkedInv, NewerWins, AllOwn, Owns, Busy, Job, vars
  <2>2. \A r, s \in Ids : OlderIsOlder(r, s)'
    BY <1>3 DEF ParkedInv, NewerWins, OlderIsOlder, SameKey, vars
  <2>3. \A r \in Ids : Newer(r)' <=> Newer(r)
    BY DEF Newer, SameKey, vars
  <2>4. \A r \in Ids : jobs'[r].ending = "superseded" =>
          jobs'[r].status = "succeeded" /\ (jobs'[r].key \notin retried' => Newer(r)')
    BY <1>3, <2>3 DEF ParkedInv, NewerWins, vars
  <2>5. \A r \in pass'.losers : r \in Ids
    BY DEF PassHolds, Pass
  <2>. QED  BY <1>3, <2>1, <2>2, <2>3, <2>4, <2>5 DEF NewerWins, vars
<1>. QED  BY <1>1, <1>2, <1>3 DEF ParkedInv, vars

LEMMA OrderOfIds == \A r, s \in Ids : r # s => r < s \/ s < r
BY BoundAssumption DEF Ids

\* The row a parked one loses to, by age, has a payload at least as new.
LEMMA LosersAreOlder ==
  ASSUME IInv, PassHolds, NewerWins, NEW l \in Ids, Loses(l), jobs[l].key \notin retried
  PROVE  Newer(l)
<1>1. PICK s \in Ids \ {l} :
        SameKey(l, s) /\ \/ jobs[s].status \in Active \ pass.statuses
                         \/ Parked(s) /\ s > l
  BY DEF Loses
<1>2. jobs[l].status \in pass.statuses /\ pass.statuses \subseteq {"disabled", "blocked"}
  BY DEF Loses, Parked, PassHolds, Pass
<1>3. jobs[s].status \in Unended /\ jobs[l].status \in Unended /\ jobs[s].status # "absent"
  BY <1>1, <1>2 DEF Parked, Unended, Active
<1>4. jobs[l].payload \in Nat /\ jobs[s].payload \in Nat
  BY DEF IInv, TypeOK, Row
<1>5. l < s
  <2>1. CASE s < l
    <3>1. jobs[s].status \notin Active
      BY <1>1, <1>3, <2>1 DEF NewerWins, OlderIsOlder, SameKey
    <3>. QED  BY <1>1, <2>1, <3>1, BoundAssumption DEF Ids
  <2>. QED  BY <1>1, <2>1, OrderOfIds
<1>6. jobs[l].payload <= jobs[s].payload
  BY <1>1, <1>2, <1>3, <1>5 DEF NewerWins, OlderIsOlder, Active
<1>. QED  BY <1>1, <1>3, <1>4, <1>6 DEF Newer

LEMMA SupersedeKeeps == ASSUME ParkedInv, Supersede PROVE ParkedInv'
<1>. DEFINE q == [pass EXCEPT !.stage = "superseded", !.losers = {r \in Ids : Loses(r)}]
<1>1. pass \in Pass /\ pass.survivors = {}
  BY DEF Supersede, ParkedInv, PassHolds
<1>2. /\ q \in Pass /\ q.stage = "superseded" /\ q.losers = {r \in Ids : Loses(r)}
      /\ q.survivors = {} /\ q.statuses = pass.statuses
  BY <1>1 DEF Pass
<1>. HIDE DEF q
<1>3. pass' = q /\ UNCHANGED <<vars, links, retried>>
  BY DEF Supersede, q
<1>4. PassHolds'
  BY <1>2, <1>3 DEF PassHolds, Loses, Parked, vars
<1>5. ASSUME faults = 0, NEW r \in q.losers, jobs[r].key \notin retried PROVE Newer(r)
  BY <1>2, <1>5, LosersAreOlder DEF ParkedInv
<1>. QED  BY <1>2, <1>3, <1>4, <1>5, LooksKeep

\* Whatever is still parked when it is queued is alone of its key, but for rows that
\* the pass has closed.
LEMMA RequeueKeeps == ASSUME ParkedInv, Requeue PROVE ParkedInv'
<1>. DEFINE q == [pass EXCEPT !.stage = "requeued", !.survivors = Remaining]
<1>1. pass \in Pass /\ Remaining \subseteq Ids
  BY DEF ParkedInv, PassHolds, Remaining
<1>2. /\ q \in Pass /\ q.stage = "requeued" /\ q.losers = pass.losers
      /\ q.survivors = Remaining /\ q.statuses = pass.statuses
  BY <1>1 DEF Pass
<1>. HIDE DEF q
<1>3. pass' = q /\ UNCHANGED <<vars, links, retried>> /\ ~IndexRefuses
  BY DEF Requeue, q
<1>4. \A r \in Remaining : jobs[r].status \in pass.statuses /\ r \notin pass.losers
  BY DEF Remaining, Parked
<1>5. PassHolds'
  <2>1. ASSUME NEW r \in Remaining, NEW s \in Ids, r # s, SameKey(r, s),
               jobs[s].status \in Active \/ s \in Remaining
        PROVE  s \in pass.losers
    BY <1>3, <2>1 DEF IndexRefuses
  <2>2. jobs' = jobs /\ \A r, s \in Ids : SameKey(r, s)' <=> SameKey(r, s)
    BY <1>3 DEF vars, SameKey
  <2>. QED  BY <1>1, <1>2, <1>3, <1>4, <2>1, <2>2 DEF PassHolds, ParkedInv
<1>6. ASSUME faults = 0, NEW r \in Remaining PROVE SurvivorIsNewest(r)'
  <2>. SUFFICES ASSUME jobs[r].key \notin retried, NEW s \in Ids, r < s, SameKey(r, s),
                       jobs[s].status = "disabled"
                PROVE  s \in pass.losers
    BY <1>2, <1>3 DEF SurvivorIsNewest, vars, SameKey
  <2>1. r \in Ids /\ r # s /\ jobs[r].key \in GuildKeys /\ jobs[s].key = jobs[r].key
    BY <1>1, BoundAssumption DEF Ids, Remaining, Parked, SameKey
  <2>2. CASE "disabled" \in pass.statuses
    <3>1. Parked(s)
      BY <2>1, <2>2 DEF Parked
    <3>2. s \notin Remaining
      BY <1>3, <2>1 DEF IndexRefuses
    <3>. QED  BY <3>1, <3>2 DEF Remaining
  <2>3. CASE "disabled" \notin pass.statuses
    <3>1. jobs[r].status = "blocked"
      BY <1>1, <1>4, <2>3 DEF Pass
    <3>2. jobs[r].status \notin Active
      BY <1>6, <2>1 DEF ParkedInv, NewerWins, OlderIsOlder, Unended
    <3>. QED  BY <3>1, <3>2 DEF Active
  <2>. QED  BY <2>2, <2>3
<1>7. ASSUME faults = 0, NEW r \in pass.losers, jobs[r].key \notin retried PROVE Newer(r)
  BY <1>7 DEF ParkedInv, NewerWins
<1>. QED  BY <1>2, <1>3, <1>5, <1>6, <1>7, LooksKeep

\* The other steps forget the pass or only look further.
LEMMA OtherKeeps ==
  ASSUME ParkedConstantsOK, ParkedInv,
         (\E statuses \in Resumes : BeginPass(statuses)) \/ RequeueConflict \/ InsertLinks \/ Abort
  PROVE  ParkedInv'
<1>1. pass \in Pass
  BY DEF ParkedInv, PassHolds
<1>2. NoPass \in Pass /\ NoPass.stage = "none" /\ NoPass.losers = {} /\ NoPass.survivors = {}
  <2>1. 0 \in 0 .. (RequeueAttempts - 1)
    BY DEF ParkedConstantsOK
  <2>. QED  BY <2>1 DEF NoPass, Pass
<1>3. ASSUME NEW q \in Pass, q.losers = {}, q.survivors = {}, pass' = q, UNCHANGED <<vars, links, retried>>
      PROVE  ParkedInv'
  BY <1>3, LooksKeep DEF PassHolds
<1>4. UNCHANGED <<vars, links, retried>>
  BY DEF BeginPass, RequeueConflict, InsertLinks, Abort
<1>5. ASSUME NEW statuses \in Resumes, BeginPass(statuses) PROVE ParkedInv'
  <2>. DEFINE q == [NoPass EXCEPT !.stage = "begun", !.statuses = statuses]
  <2>1. q \in Pass /\ q.losers = {} /\ q.survivors = {}
    <3>1. statuses \in SUBSET {"disabled", "blocked"}
      BY DEF ParkedConstantsOK
    <3>. QED  BY <1>2, <3>1 DEF Pass
  <2>2. pass' = q
    BY <1>5 DEF BeginPass
  <2>. HIDE DEF q
  <2>. QED  BY <1>3, <1>4, <2>1, <2>2
<1>6. CASE RequeueConflict
  <2>. DEFINE q == [NoPass EXCEPT !.stage = "begun", !.statuses = pass.statuses,
                                  !.tries = pass.tries + 1]
  <2>1. pass.tries + 1 < RequeueAttempts => q \in Pass /\ q.losers = {} /\ q.survivors = {}
    <3>1. pass.tries \in Nat /\ pass.statuses \in SUBSET {"disabled", "blocked"}
      BY <1>1 DEF Pass
    <3>2. pass.tries + 1 < RequeueAttempts => pass.tries + 1 \in 0 .. (RequeueAttempts - 1)
      BY <3>1 DEF ParkedConstantsOK
    <3>. QED  BY <1>2, <3>1, <3>2 DEF Pass
  <2>2. pass' = IF pass.tries + 1 >= RequeueAttempts THEN NoPass ELSE q
    BY <1>6 DEF RequeueConflict
  <2>3. pass.tries + 1 >= RequeueAttempts \/ pass.tries + 1 < RequeueAttempts
    BY <1>1 DEF Pass, ParkedConstantsOK
  <2>. HIDE DEF q
  <2>. QED  BY <1>2, <1>3, <1>4, <2>1, <2>2, <2>3
<1>7. CASE InsertLinks
  <2>. DEFINE g == UNION {HoldersOf(l) : l \in Tracked}
              q == [pass EXCEPT !.stage = "linked", !.gained = g]
  <2>1. g \subseteq Ids
    BY DEF HoldersOf
  <2>. HIDE DEF g
  <2>2. /\ q \in Pass /\ q.stage = "linked" /\ q.losers = pass.losers
        /\ q.survivors = pass.survivors /\ q.statuses = pass.statuses
    BY <1>1, <2>1 DEF Pass
  <2>3. pass' = q
    BY <1>7 DEF InsertLinks, g
  <2>. HIDE DEF q
  <2>4. PassHolds'
    BY <1>4, <2>2, <2>3 DEF PassHolds, ParkedInv, vars, SameKey
  <2>5. faults = 0 =>
          /\ \A r \in q.survivors : SurvivorIsNewest(r)'
          /\ \A r \in q.losers : jobs[r].key \notin retried => Newer(r)
    BY <1>4, <2>2, <2>3 DEF ParkedInv, NewerWins, SurvivorIsNewest, vars, SameKey
  <2>. QED  BY <1>4, <2>3, <2>4, <2>5, LooksKeep
<1>8. CASE Abort
  BY <1>2, <1>3, <1>4, <1>8 DEF Abort
<1>. QED  BY <1>5, <1>6, <1>7, <1>8


\* The commit changes the rows of the pass, which rested before, and no others.
LEMMA CommitRows ==
  ASSUME ParkedInv, DeleteLinks
  PROVE  /\ \A r \in Ids :
              /\ jobs'[r].key = jobs[r].key /\ jobs'[r].payload = jobs[r].payload
              /\ jobs'[r].generation = jobs[r].generation /\ jobs'[r].ran = jobs[r].ran
              /\ jobs'[r].token = jobs[r].token /\ jobs'[r] \in Row
              /\ jobs'[r].status = "running" <=> jobs'[r].lease # "none"
         /\ \A r \in pass.losers :
              jobs'[r].status = "succeeded" /\ jobs'[r].ending = "superseded"
         /\ \A r \in pass.survivors : jobs'[r].status = "queued" /\ jobs'[r].ending = jobs[r].ending
         /\ \A r \in Ids \ (pass.losers \cup pass.survivors) : jobs'[r] = jobs[r]
         /\ \A r \in pass.losers \cup pass.survivors :
              r \in Ids /\ jobs[r].status \in {"disabled", "blocked"}
<1>1. /\ jobs \in [Ids -> Row] /\ \A r \in Ids : jobs[r].status = "running" <=> jobs[r].lease # "none"
  BY DEF ParkedInv, IInv, TypeOK
<1>2. /\ pass.losers \subseteq Ids /\ pass.survivors \subseteq Ids
      /\ \A r \in pass.losers \cup pass.survivors : jobs[r].status \in {"disabled", "blocked"}
      /\ pass.losers \cap pass.survivors = {}
  BY DEF ParkedInv, PassHolds, Pass
<1>3. \A r \in Ids : jobs'[r] = IF r \in pass.losers THEN ClosedRow(r)
                                ELSE IF r \in pass.survivors THEN ResumedRow(r) ELSE jobs[r]
  BY DEF DeleteLinks
<1>4. ASSUME NEW r \in Ids, jobs[r].status \in {"disabled", "blocked"}
      PROVE  /\ ClosedRow(r).status = "succeeded" /\ ClosedRow(r).ending = "superseded"
             /\ ClosedRow(r) \in Row /\ ClosedRow(r).lease = "none"
             /\ ClosedRow(r).key = jobs[r].key /\ ClosedRow(r).payload = jobs[r].payload
             /\ ClosedRow(r).generation = jobs[r].generation /\ ClosedRow(r).ran = jobs[r].ran
             /\ ClosedRow(r).token = jobs[r].token
  <2>1. jobs[r] \in Row /\ "superseded" \in Endings
    BY <1>1 DEF Endings
  <2>. QED  BY <2>1, Values DEF ClosedRow, Row
<1>5. ASSUME NEW r \in Ids, jobs[r].status \in {"disabled", "blocked"}
      PROVE  /\ ResumedRow(r).status = "queued" /\ ResumedRow(r).ending = jobs[r].ending
             /\ ResumedRow(r) \in Row /\ ResumedRow(r).lease = "none"
             /\ ResumedRow(r).key = jobs[r].key /\ ResumedRow(r).payload = jobs[r].payload
             /\ ResumedRow(r).generation = jobs[r].generation /\ ResumedRow(r).ran = jobs[r].ran
             /\ ResumedRow(r).token = jobs[r].token
  <2>1. jobs[r] \in Row /\ jobs[r].lease = "none" /\ 0 \in Nat
    BY <1>1, <1>5
  <2>. QED  BY <2>1, Values DEF ResumedRow, Row
<1>6. \A r \in pass.losers : jobs'[r] = ClosedRow(r)
  BY <1>2, <1>3
<1>7. \A r \in pass.survivors : jobs'[r] = ResumedRow(r)
  BY <1>2, <1>3
<1>8. \A r \in Ids \ (pass.losers \cup pass.survivors) : jobs'[r] = jobs[r]
  BY <1>3
<1>. QED  BY <1>1, <1>2, <1>4, <1>5, <1>6, <1>7, <1>8

LEMMA CommitInv == ASSUME ParkedInv, DeleteLinks PROVE IInv'
<1>1. /\ \A r \in Ids :
           /\ jobs'[r].key = jobs[r].key /\ jobs'[r].payload = jobs[r].payload
           /\ jobs'[r].generation = jobs[r].generation /\ jobs'[r].ran = jobs[r].ran
           /\ jobs'[r].token = jobs[r].token /\ jobs'[r] \in Row
           /\ jobs'[r].status = "running" <=> jobs'[r].lease # "none"
      /\ \A r \in pass.losers :
           jobs'[r].status = "succeeded" /\ jobs'[r].ending = "superseded"
      /\ \A r \in pass.survivors : jobs'[r].status = "queued" /\ jobs'[r].ending = jobs[r].ending
      /\ \A r \in Ids \ (pass.losers \cup pass.survivors) : jobs'[r] = jobs[r]
      /\ \A r \in pass.losers \cup pass.survivors :
           r \in Ids /\ jobs[r].status \in {"disabled", "blocked"}
  BY CommitRows
<1>2. UNCHANGED <<worker, asked, guildActive, faults>> /\ IInv /\ TypeOK /\ PassHolds
  BY DEF DeleteLinks, ParkedInv, IInv
<1>3. TypeOK'
  <2>1. jobs' \in [Ids -> Row]
    <3>1. jobs' = [r \in Ids |-> jobs'[r]]
      BY DEF DeleteLinks
    <3>. QED  BY <1>1, <3>1
  <2>. QED  BY <1>1, <1>2, <2>1 DEF TypeOK, Busy
<1>4. OneActiveRowPerKey'
  <2>. SUFFICES ASSUME NEW r \in Ids, NEW s \in Ids, jobs'[r].status \in Active,
                       jobs'[s].status \in Active, jobs[r].key = jobs[s].key, r # s
                PROVE  FALSE
    BY <1>1 DEF OneActiveRowPerKey
  <2>1. r \notin pass.losers /\ s \notin pass.losers
    BY <1>1 DEF Active
  <2>2. \A x \in {r, s} : x \notin pass.survivors => jobs[x].status \in Active
    BY <1>1, <2>1
  <2>3. SameKey(r, s) /\ SameKey(s, r)
    BY DEF SameKey
  <2>4. r \notin pass.survivors /\ s \notin pass.survivors
    BY <1>2, <2>1, <2>2, <2>3 DEF PassHolds
  <2>. QED  BY <1>2, <2>2, <2>4 DEF IInv, OneActiveRowPerKey
<1>5. RowsOK'
  <2>. SUFFICES ASSUME NEW r \in Ids PROVE RowOK(jobs'[r], asked)
    BY <1>2 DEF RowsOK
  <2>1. RowOK(jobs[r], asked)
    BY <1>2 DEF IInv, RowsOK
  <2>2. CASE r \in pass.losers \cup pass.survivors
    BY <1>1, <2>1, <2>2 DEF RowOK
  <2>. QED  BY <1>1, <2>1, <2>2
<1>6. AttemptsOK'
  <2>. SUFFICES ASSUME NEW v \in Workers, Busy(v)
                PROVE  AttemptOK(worker[v], v, jobs'[worker[v].job])
    BY <1>2 DEF AttemptsOK, Job, Busy
  <2>1. AttemptOK(worker[v], v, jobs[worker[v].job]) /\ worker[v].job \in Ids
    BY <1>2 DEF IInv, AttemptsOK, Job, TypeOK
  <2>2. jobs[worker[v].job].status = "running" => jobs'[worker[v].job].status = "running"
    BY <1>1, <2>1
  <2>. QED  BY <1>1, <2>1, <2>2, SameAttempt
<1>. QED  BY <1>3, <1>4, <1>5, <1>6 DEF IInv

LEMMA CommitKeeps == ASSUME ParkedConstantsOK, ParkedInv, DeleteLinks PROVE ParkedInv'
<1>1. /\ \A r \in Ids : jobs'[r].key = jobs[r].key /\ jobs'[r].payload = jobs[r].payload
      /\ \A r \in pass.losers :
           jobs'[r].status = "succeeded" /\ jobs'[r].ending = "superseded"
      /\ \A r \in pass.survivors : jobs'[r].status = "queued" /\ jobs'[r].ending = jobs[r].ending
      /\ \A r \in Ids \ (pass.losers \cup pass.survivors) : jobs'[r] = jobs[r]
      /\ \A r \in pass.losers \cup pass.survivors :
           r \in Ids /\ jobs[r].status \in {"disabled", "blocked"}
  BY CommitRows
<1>2. UNCHANGED <<worker, asked, guildActive, faults, retried>> /\ pass' = NoPass
      /\ IInv /\ PassHolds /\ InOrder
  BY DEF DeleteLinks, ParkedInv
<1>3. PassHolds'
  <2>1. 0 \in 0 .. (RequeueAttempts - 1)
    BY DEF ParkedConstantsOK
  <2>. QED  BY <1>2, <2>1 DEF PassHolds, NoPass, Pass
<1>4. InOrder'
  <2>1. \A r \in Ids : jobs'[r].status = "absent" <=> jobs[r].status = "absent"
    BY <1>1
  <2>. QED  BY <1>2, <2>1 DEF InOrder
<1>5. ASSUME faults = 0 PROVE NewerWins'
  <2>1. NewerWins
    BY <1>5 DEF ParkedInv
  <2>2. AllOwn'
    <3>. SUFFICES ASSUME NEW v \in Workers, Busy(v) PROVE Owns(v)'
      BY <1>2 DEF AllOwn, Busy
    <3>1. Owns(v) /\ worker[v].job \in Ids /\ Job(v) = jobs[worker[v].job]
          /\ Job(v)' = jobs'[worker[v].job]
      BY <1>2, <2>1 DEF NewerWins, AllOwn, IInv, TypeOK, Job
    <3>2. jobs'[worker[v].job] = jobs[worker[v].job]
      BY <1>1, <3>1 DEF Owns
    <3>. QED  BY <3>1, <3>2 DEF Owns
  <2>3. ASSUME NEW r \in Ids, NEW s \in Ids PROVE OlderIsOlder(r, s)'
    <3>. SUFFICES ASSUME r < s, jobs[r].key = jobs[s].key, jobs[r].key \notin retried,
                         jobs'[s].status \in Unended
                  PROVE  /\ jobs'[r].status \notin Active
                         /\ jobs'[r].status = "disabled" => jobs[r].payload <= jobs[s].payload
      BY <1>1, <1>2 DEF OlderIsOlder, SameKey
    <3>0. SameKey(r, s) /\ r # s
      BY BoundAssumption DEF SameKey, Ids
    <3>1. s \notin pass.losers
      BY <1>1 DEF Unended, Active
    <3>2. jobs[s].status \in Unended
      BY <1>1, <3>1 DEF Unended, Active
    <3>3. /\ jobs[r].status \notin Active
          /\ jobs[r].status = "disabled" => jobs[r].payload <= jobs[s].payload
      BY <2>1, <3>0, <3>2 DEF NewerWins, OlderIsOlder
    <3>4. r \notin pass.survivors
      <4>. SUFFICES ASSUME r \in pass.survivors PROVE FALSE
        OBVIOUS
      <4>1. s \notin pass.survivors /\ jobs[s].status \notin Active
        BY <1>2, <3>0, <3>1 DEF PassHolds
      <4>2. jobs[s].status = "disabled"
        BY <3>2, <4>1 DEF Unended
      <4>. QED  BY <2>1, <3>0, <3>1, <4>2 DEF NewerWins, SurvivorIsNewest
    <3>5. CASE r \in pass.losers
      BY <1>1, <3>5 DEF Active
    <3>. QED  BY <1>1, <3>3, <3>4, <3>5
  <2>4. \A r \in Ids : Newer(r) => Newer(r)'
    <3>1. \A r \in Ids : jobs'[r].status = "absent" <=> jobs[r].status = "absent"
      BY <1>1
    <3>. QED  BY <1>1, <3>1 DEF Newer, SameKey
  <2>5. ASSUME NEW r \in Ids, jobs'[r].ending = "superseded"
        PROVE  jobs'[r].status = "succeeded" /\ (jobs[r].key \notin retried => Newer(r)')
    <3>1. CASE r \in pass.losers
      BY <1>1, <2>1, <2>4, <3>1 DEF NewerWins
    <3>2. CASE r \in pass.survivors
      BY <1>1, <2>1, <2>5, <3>2 DEF NewerWins
    <3>3. CASE r \notin pass.losers \cup pass.survivors
      BY <1>1, <2>1, <2>4, <2>5, <3>3 DEF NewerWins
    <3>. QED  BY <3>1, <3>2, <3>3
  <2>. QED  BY <1>1, <1>2, <2>2, <2>3, <2>5 DEF NewerWins, NoPass
<1>. QED  BY <1>2, <1>3, <1>4, <1>5, CommitInv DEF ParkedInv

LEMMA CrashKeepsPass == ASSUME ParkedConstantsOK, ParkedInv, CrashAll PROVE ParkedInv'
<1>1. IInv' /\ jobs' = jobs /\ pass' = NoPass /\ faults' # 0
  <2>1. TypeOK'
    BY TypeStep DEF ParkedInv, IInv, CrashAll, Next
  <2>2. faults \in Nat /\ faults' = faults + 1
    BY DEF ParkedInv, IInv, TypeOK, CrashAll, Crash
  <2>. QED  BY <2>1, <2>2, IdleInv DEF ParkedInv, CrashAll, Crash
<1>2. 0 \in 0 .. (RequeueAttempts - 1)
  BY DEF ParkedConstantsOK
<1>3. PassHolds'
  BY <1>1, <1>2 DEF PassHolds, NoPass, Pass
<1>. QED  BY <1>1, <1>3 DEF ParkedInv, InOrder

LEMMA ParkedStart == ASSUME ParkedConstantsOK, ParkedInit PROVE ParkedInv
<1>1. IInv
  BY InvInit DEF ParkedInit
<1>2. /\ \A r \in Ids : jobs[r].status = "absent" /\ jobs[r].ending = "none"
      /\ \A w \in Workers : ~Busy(w)
  BY IdleType DEF ParkedInit, Init, NewRow, Busy
<1>3. 0 \in 0 .. (RequeueAttempts - 1) /\ pass = NoPass
  BY DEF ParkedConstantsOK, ParkedInit
<1>4. PassHolds
  BY <1>3 DEF PassHolds, NoPass, Pass
<1>5. NewerWins
  BY <1>2, <1>3 DEF NewerWins, NoPass, AllOwn, OlderIsOlder, Unended, Active
<1>. QED  BY <1>1, <1>2, <1>4, <1>5 DEF ParkedInv, InOrder

LEMMA ParkedStep == ASSUME ParkedConstantsOK, ParkedInv, [ParkedNext]_parkedVars PROVE ParkedInv'
<1>1. CASE BesidePass
  <2>1. Next
    BY <1>1, BesideMoves DEF ParkedInv
  <2>2. IInv'
    BY <2>1, InvStep DEF ParkedInv
  <2>. QED  BY <1>1, <2>2, BesideOrder, BesideNewer DEF ParkedInv
<1>2. CASE PassStep
  BY <1>2, SupersedeKeeps, RequeueKeeps, OtherKeeps, CommitKeeps DEF PassStep
<1>3. CASE UNCHANGED parkedVars
  BY <1>3, LooksKeep DEF parkedVars, ParkedInv, NewerWins, PassHolds, SurvivorIsNewest, vars, SameKey
<1>. QED  BY <1>1, <1>2, <1>3, CrashKeepsPass DEF ParkedNext

\* A requeue beside any number of enqueues, claims and retries leaves one active row
\* per key, whatever crashes or gets lost.
THEOREM OneActiveBesidePass ==
  ASSUME ParkedConstantsOK
  PROVE  ParkedSpec => []OneActiveRowPerKey
<1>1. ParkedInv => OneActiveRowPerKey
  BY DEF ParkedInv, IInv
<1>2. ParkedInit => ParkedInv
  BY ParkedStart
<1>3. ParkedInv /\ [ParkedNext]_parkedVars => ParkedInv'
  BY ParkedStep
<1>. QED  BY <1>1, <1>2, <1>3, PTL DEF ParkedSpec

\* A row is closed as superseded only for a row of its key with an input at least as
\* new, unless an operator retried the key, or a worker's answer was lost, so that it
\* revives a row it had already completed.
THEOREM NewerWorkWins ==
  ASSUME ParkedConstantsOK
  PROVE  ParkedSpec => [](faults = 0 => SupersededByNewer)
<1>1. ParkedInv => (faults = 0 => SupersededByNewer)
  BY DEF ParkedInv, NewerWins, Newer, SupersededByNewer
<1>2. ParkedInit => ParkedInv
  BY ParkedStart
<1>3. ParkedInv /\ [ParkedNext]_parkedVars => ParkedInv'
  BY ParkedStep
<1>. QED  BY <1>1, <1>2, <1>3, PTL DEF ParkedSpec


=============================================================================
