----------------------------- MODULE RosterSync -----------------------------
(***************************************************************************)
(* Reading a Free Company's roster page by page while it changes, and what  *)
(* an accepted roster does to the recorded membership: Lodestone.roster in  *)
(* infrastructure/lodestone/client.ts, roster() and seedFreshLink() in      *)
(* application/synchronization.ts, the evidence part of trust() in          *)
(* application/service.ts and departure() in domain/policy.ts.              *)
(*                                                                         *)
(* One job row per FC carries the reads (the module JobQueue is about such  *)
(* rows; here it has a status, a lease and a flag for work asked for while  *)
(* it runs, and its retries stay below the attempt limit).  Whether a       *)
(* minute has passed since an instant is a flag.  The publication           *)
(* transaction is two actions, since other transactions commit between the  *)
(* rows it reads and the rows it writes.                                    *)
(***************************************************************************)
EXTENDS Naturals, Sequences, FiniteSets, SequencesExt

CONSTANTS
  Characters,  \* every character of the instance
  Founders,    \* the rosters an FC may start with, in the Lodestone's order
  Workers,     \* worker slots that may hold the job roster:<fc>
  Nobody,      \* the lease or the FC lock is free
  PageSize,    \* characters a members page lists
  MaxPages,    \* LODESTONE_MAX_PAGES
  MaxChanges,  \* bound: characters that join or leave
  MaxReads,    \* bound: reads that are completed
  MaxFaults    \* bound: failed reads, lost leases and lost lock sessions

ConstantsOK ==
  /\ Founders \subseteq Seq(Characters)
  /\ \A f \in Founders : IsInjective(f)
  /\ Nobody \notin Workers
  /\ PageSize \in Nat \ {0} /\ MaxPages \in Nat \ {0}
  /\ MaxChanges \in Nat /\ MaxReads \in Nat /\ MaxFaults \in Nat

VARIABLES
  fc,        \* the FC as the Lodestone would list it now
  changes,   \* joins and leaves so far
  read,      \* each worker's attempt
  lock,      \* the session that holds the advisory lock fc:<id>
  cool,      \* last_attempt_at is at least a minute ago
  job,       \* the row roster:<fc>: its status, and whether it was asked for again
  lease,     \* the worker whose lease on that row is live
  linked,    \* characters with an active link
  state,     \* membership.state; "none" without a row
  aged,      \* characters whose first_absence_at is at least a minute ago
  snapshot,  \* the newest accepted roster
  accepted,  \* which read it came from (last_successful_roster_at)
  reads,     \* reads completed so far, in the order of observedAt
  confirm,   \* the row confirm:<fc> waits
  faults,
  misses     \* history: accepted rosters in a row that lacked a character, up to 2

world == <<fc, changes>>
table == <<linked, state, aged, snapshot, accepted>>
work == <<job, lease, confirm>>
vars == <<world, read, lock, cool, work, table, reads, faults, misses>>

Stages == {"none", "claimed", "begun", "pages", "closing", "observed", "planned", "done"}
States == {"none", "present", "missing", "absent"}
Idle == [status |-> "idle", again |-> FALSE]
Queued == [status |-> "queued", again |-> FALSE]
NoPlan == [c \in Characters |-> "none"]
Unread == [stage |-> "none", count |-> 0, total |-> 1, next |-> 1, members |-> <<>>,
           observed |-> 0, aged |-> {}, plan |-> NoPlan, there |-> {}, changed |-> 0]

Set(w, attempt) == read' = [read EXCEPT ![w] = attempt]
Reading(w) == read[w].stage \notin {"none", "claimed", "done"}

-----------------------------------------------------------------------------
(* The Lodestone *)

Pages == IF fc = <<>> THEN 1 ELSE ((Len(fc) - 1) \div PageSize) + 1
Page(n) ==
  LET first == (n - 1) * PageSize + 1
      last == IF n * PageSize < Len(fc) THEN n * PageSize ELSE Len(fc)
  IN SubSeq(fc, first, last)

\* What a change means to the reads that are under way.
Overtaken(gone) ==
  read' = [w \in Workers |->
    IF Reading(w)
    THEN [read[w] EXCEPT !.there = @ \ gone, !.changed = IF @ < 2 THEN @ + 1 ELSE @]
    ELSE read[w]]

\* The list has an order of its own: a newcomer may appear anywhere in it.
Join(c) ==
  /\ changes < MaxChanges /\ c \notin ToSet(fc)
  /\ \E i \in 1..(Len(fc) + 1) : fc' = InsertAt(fc, i, c)
  /\ changes' = changes + 1
  /\ Overtaken({})
  /\ UNCHANGED <<lock, cool, work, table, reads, faults, misses>>

Leave(c) ==
  /\ changes < MaxChanges
  /\ \E i \in DOMAIN fc : fc[i] = c /\ fc' = RemoveAt(fc, i)
  /\ changes' = changes + 1
  /\ Overtaken({c})
  /\ UNCHANGED <<lock, cool, work, table, reads, faults, misses>>

-----------------------------------------------------------------------------
(* The job row *)

\* enqueue("roster"): a running row is asked for again.
Asked == IF job.status = "running" THEN [job EXCEPT !.again = TRUE] ELSE Queued

\* The routine schedule, a member's refresh and the confirmation job.
Refresh ==
  /\ job' = Asked
  /\ UNCHANGED <<world, read, lock, cool, lease, confirm, table, reads, faults, misses>>
Confirm ==
  /\ confirm
  /\ confirm' = FALSE /\ job' = Asked
  /\ UNCHANGED <<world, read, lock, cool, lease, table, reads, faults, misses>>

\* FOR UPDATE SKIP LOCKED passes over the row while a publication holds it.
Claim(w) ==
  /\ read[w].stage = "none" /\ reads < MaxReads
  /\ \A v \in Workers : read[v].stage # "planned"
  /\ job.status = "queued" \/ (job.status = "running" /\ lease = Nobody)
  /\ job' = [status |-> "running", again |-> FALSE] /\ lease' = w
  /\ Set(w, [Unread EXCEPT !.stage = "claimed"])
  /\ UNCHANGED <<world, lock, cool, confirm, table, reads, faults, misses>>

\* A renewal comes too late; the attempt goes on without knowing.
LeaseExpires ==
  /\ lease # Nobody /\ faults < MaxFaults
  /\ faults' = faults + 1
  /\ lease' = Nobody
  /\ UNCHANGED <<world, read, lock, cool, job, confirm, table, reads, misses>>

\* The attempt failed or gave way to another: the row waits again, if it is its own.
GivesBack(w) ==
  IF lease = w THEN job' = Queued /\ lease' = Nobody ELSE UNCHANGED <<job, lease>>

\* The attempt is over and its result is recorded, under its lease only.
Complete(w) ==
  /\ read[w].stage = "done"
  /\ IF lease = w
     THEN job' = (IF job.again THEN Queued ELSE Idle) /\ lease' = Nobody
     ELSE UNCHANGED <<job, lease>>
  /\ Set(w, Unread)
  /\ UNCHANGED <<world, lock, cool, confirm, table, reads, faults, misses>>

-----------------------------------------------------------------------------
(* One read: Synchronization.roster around Lodestone.roster *)

\* The FC lock and the cooldown; without either the job waits.
Begin(w) ==
  /\ read[w].stage = "claimed"
  /\ lock = Nobody /\ cool
  /\ lock' = w /\ cool' = FALSE
  /\ Set(w, [Unread EXCEPT !.stage = "begun", !.there = ToSet(fc)])
  /\ UNCHANGED <<world, work, table, reads, faults, misses>>
Waits(w) ==
  /\ read[w].stage = "claimed"
  /\ lock # Nobody \/ ~cool
  /\ Set(w, Unread) /\ GivesBack(w)
  /\ UNCHANGED <<world, lock, cool, confirm, table, reads, faults, misses>>

CompanyBefore(w) ==
  /\ read[w].stage = "begun"
  /\ Set(w, [read[w] EXCEPT !.stage = "pages", !.count = Len(fc)])
  /\ UNCHANGED <<world, lock, cool, work, table, reads, faults, misses>>

\* A page is refused: no such page, too many, another total, a repeated or an
\* extra member.
Refused(w) ==
  LET n == read[w].next
      listed == Page(n)
  IN \/ n > Pages \/ Pages > MaxPages
     \/ n > 1 /\ Pages # read[w].total
     \/ ToSet(listed) \cap ToSet(read[w].members) # {}
     \/ Len(read[w].members) + Len(listed) > read[w].count

ReadPage(w) ==
  /\ read[w].stage = "pages"
  /\ ~Refused(w)
  /\ LET n == read[w].next
     IN Set(w, [read[w] EXCEPT !.members = @ \o Page(n), !.total = Pages, !.next = n + 1,
                               !.stage = IF n = Pages THEN "closing" ELSE "pages"])
  /\ UNCHANGED <<world, lock, cool, work, table, reads, faults, misses>>

\* Mutant: the second company page is not compared with what was read.
IncompleteNever(w) == FALSE

\* The second company page and the comparison of counts.
Incomplete(w) == Len(fc) # read[w].count \/ Len(read[w].members) # read[w].count

CompanyAfter(w) ==
  /\ read[w].stage = "closing"
  /\ ~Incomplete(w)
  /\ reads < MaxReads
  /\ reads' = reads + 1
  /\ Set(w, [read[w] EXCEPT !.stage = "observed", !.observed = reads + 1, !.aged = aged])
  /\ UNCHANGED <<world, lock, cool, work, table, faults, misses>>

\* The session of the lock is released with the attempt.
Release(w) == lock' = IF lock = w THEN Nobody ELSE lock

\* An incomplete roster, thrown before anything is written.
Reject(w) ==
  /\ \/ read[w].stage = "pages" /\ Refused(w)
     \/ read[w].stage = "closing" /\ Incomplete(w)
  /\ Set(w, Unread) /\ Release(w) /\ GivesBack(w)
  /\ UNCHANGED <<world, cool, confirm, table, reads, faults, misses>>

\* The Lodestone does not answer, or the process dies.
Fail(w) ==
  /\ Reading(w) /\ faults < MaxFaults
  /\ faults' = faults + 1
  /\ Set(w, Unread) /\ Release(w) /\ GivesBack(w)
  /\ UNCHANGED <<world, cool, confirm, table, reads, misses>>

\* The session of the FC lock dies; nothing tells the read that goes on.
LoseLock ==
  /\ lock # Nobody /\ faults < MaxFaults
  /\ faults' = faults + 1
  /\ lock' = Nobody
  /\ UNCHANGED <<world, read, cool, work, table, reads, misses>>

-----------------------------------------------------------------------------
(* Publication *)

\* Mutant: a character that reappears stays under suspicion.
DepartureKeepsSuspicion(previous, appears, old) ==
  CASE appears /\ previous # "missing" -> "present"
    [] ~appears /\ previous \in {"none", "absent"} -> "absent"
    [] ~appears /\ previous = "missing" /\ old -> "absent"
    [] OTHER -> "missing"

\* departure(): old says that the first absence is at least a minute old.
Departure(previous, appears, old) ==
  CASE appears -> "present"
    [] ~appears /\ previous \in {"none", "absent"} -> "absent"
    [] ~appears /\ previous = "missing" /\ old -> "absent"
    [] OTHER -> "missing"

Listed(w) == ToSet(read[w].members)

\* Mutant: the plan does not look at the lease.
PlanUnleased(w) ==
  /\ read[w].stage = "observed"
  /\ Set(w, [read[w] EXCEPT !.stage = "planned", !.plan =
       [c \in Characters |->
          IF c \in linked THEN Departure(state[c], c \in Listed(w), c \in read[w].aged)
          ELSE "none"]])
  /\ UNCHANGED <<world, lock, cool, work, table, reads, faults, misses>>

\* guard(), the locked lease row, and every link's transition as it stands now.
Plan(w) ==
  /\ read[w].stage = "observed" /\ lease = w
  /\ Set(w, [read[w] EXCEPT !.stage = "planned", !.plan =
       [c \in Characters |->
          IF c \in linked THEN Departure(state[c], c \in Listed(w), c \in read[w].aged)
          ELSE "none"]])
  /\ UNCHANGED <<world, lock, cool, work, table, reads, faults, misses>>

\* lease_lost: another worker owns the job.
PlanLost(w) ==
  /\ read[w].stage = "observed" /\ lease # w
  /\ Set(w, Unread) /\ Release(w)
  /\ UNCHANGED <<world, cool, work, table, reads, faults, misses>>

\* Mutant: only a character that was present before asks for a second look.
WantsConfirmationOnce(w) ==
  \E c \in Characters : read[w].plan[c] = "missing" /\ state[c] = "present"

WantsConfirmation(w) == \E c \in Characters : read[w].plan[c] = "missing"

\* The first_absence_at a publication leaves alone: that of a character still
\* missing, and of one it does not know.
KeepsAbsence(next) == next \in {"missing", "none"}

\* The rest of the transaction: the snapshot, the planned transitions, the
\* confirmation job and last_successful_roster_at.  The lease row stays locked.
Publish(w) ==
  LET listed == Listed(w)
      plan == read[w].plan
  IN /\ read[w].stage = "planned"
     /\ state' = [c \in Characters |-> IF plan[c] = "none" THEN state[c] ELSE plan[c]]
     /\ aged' = {c \in aged : KeepsAbsence(plan[c])}
     /\ snapshot' = listed
     /\ accepted' = read[w].observed
     /\ confirm' = (confirm \/ WantsConfirmation(w))
     /\ misses' = [c \in Characters |->
          IF c \in listed THEN 0 ELSE IF misses[c] < 2 THEN misses[c] + 1 ELSE 2]
     /\ Set(w, [Unread EXCEPT !.stage = "done"]) /\ Release(w)
     /\ UNCHANGED <<world, cool, job, lease, linked, reads, faults>>

\* A character is claimed: the newest roster, if it is fresh and lists it, is
\* evidence at once.
Link(c) ==
  /\ c \notin linked
  /\ linked' = linked \cup {c}
  /\ state' = [state EXCEPT ![c] = IF c \in snapshot THEN "present" ELSE "none"]
  /\ UNCHANGED <<world, read, lock, cool, work, aged, snapshot, accepted, reads, faults,
                 misses>>

\* The member's reconciliation evaluates a link no roster has seen from a fresh
\* one.  Without a fresh one it asks for a roster, which is Refresh.
SeedFreshLink(c) ==
  /\ c \in linked /\ state[c] = "none" /\ accepted > 0
  /\ state' = [state EXCEPT ![c] = IF c \in snapshot THEN "present" ELSE "absent"]
  /\ UNCHANGED <<world, read, lock, cool, work, linked, aged, snapshot, accepted, reads,
                 faults, misses>>

-----------------------------------------------------------------------------
(* Time *)

CooldownEnds ==
  /\ ~cool /\ cool' = TRUE
  /\ UNCHANGED <<world, read, lock, work, table, reads, faults, misses>>

AbsenceAges(c) ==
  /\ state[c] = "missing" /\ c \notin aged
  /\ aged' = aged \cup {c}
  /\ UNCHANGED <<world, read, lock, cool, work, linked, state, snapshot, accepted, reads,
                 faults, misses>>

Init ==
  /\ fc \in Founders /\ changes = 0
  /\ read = [w \in Workers |-> Unread]
  /\ lock = Nobody /\ cool = TRUE
  /\ job = Queued /\ lease = Nobody
  /\ linked \in {{}, ToSet(fc)}
  /\ state = [c \in Characters |-> "none"]
  /\ aged = {} /\ snapshot = {} /\ accepted = 0 /\ reads = 0
  /\ confirm = FALSE /\ faults = 0
  /\ misses = [c \in Characters |-> 0]

Step(w) ==
  \/ Claim(w) \/ Begin(w) \/ Waits(w) \/ CompanyBefore(w) \/ ReadPage(w) \/ CompanyAfter(w)
  \/ Reject(w) \/ Plan(w) \/ PlanLost(w) \/ Publish(w) \/ Complete(w)
Next ==
  \/ \E c \in Characters : Join(c) \/ Leave(c) \/ Link(c) \/ SeedFreshLink(c) \/ AbsenceAges(c)
  \/ \E w \in Workers : Step(w) \/ Fail(w)
  \/ Refresh \/ Confirm \/ CooldownEnds \/ LeaseExpires \/ LoseLock

Spec == Init /\ [][Next]_vars

-----------------------------------------------------------------------------
(* Properties *)

\* The tables, the reads and the histories have their types, and only a
\* character that awaits confirmation has an old first absence.
TypeOK ==
  /\ changes \in 0..MaxChanges /\ reads \in 0..MaxReads /\ faults \in 0..MaxFaults
  /\ {lock, lease} \subseteq Workers \cup {Nobody} /\ cool \in BOOLEAN /\ confirm \in BOOLEAN
  /\ job \in [status : {"idle", "queued", "running"}, again : BOOLEAN]
  /\ linked \subseteq Characters /\ snapshot \subseteq Characters
  /\ state \in [Characters -> States]
  /\ \A c \in aged : state[c] = "missing"
  /\ accepted \in 0..reads
  /\ \A w \in Workers : read[w].stage \in Stages /\ read[w].next \in 1..(MaxPages + 1)
  /\ misses \in [Characters -> 0..2]

\* A roster that is accepted although the FC changed while its pages were read
\* misses nobody who stayed, unless two changes hid each other from the counts.
OneChangeHidesNobody ==
  \A w \in Workers :
    read[w].stage = "observed" /\ read[w].there \ Listed(w) # {} => read[w].changed >= 2

\* A suspected character is confirmed as departed only when the roster before
\* lacked it too: a reappearance in between clears the suspicion.
SuspicionIsConsecutive ==
  [][\A c \in Characters :
       state[c] = "missing" /\ state'[c] = "absent" => misses[c] >= 1]_vars

\* Rosters are accepted in the order in which they were observed, although a
\* worker that lost its lease or the FC lock reads on beside its successor.
ObservationsAdvance == [][accepted' >= accepted]_vars

\* A character stays "missing" only while a second look is on its way: the
\* confirmation waits, or the roster job is queued or runs.
MissingIsConfirmed ==
  (\E c \in linked : state[c] = "missing") => confirm \/ job.status # "idle"

\* A member leaves the FC only when two complete accepted rosters lack it: nobody
\* goes from present to absent with one.
DepartureTakesTwoRosters ==
  [][\A c \in Characters : state[c] = "present" => state'[c] # "absent"]_vars

=============================================================================
