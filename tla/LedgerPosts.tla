----------------------------- MODULE LedgerPosts -----------------------------
(***************************************************************************)
(* The ledger channel: the ledger.notify jobs of one account, as dispatch() *)
(* in jobs/dispatch.ts runs them on the queue's workers.  Each entry has a   *)
(* job of its own, so only the look at earlier entries keeps the channel in  *)
(* the account's order.  Job rows move as in JobQueue; their leases and the  *)
(* stalled workers that outlive them are kept.                              *)
(***************************************************************************)
EXTENDS Naturals, Sequences, FiniteSets, SequencesExt

CONSTANTS
  Entries,     \* entries of the account: 1..Entries
  Workers,     \* worker slots
  Nobody,      \* no live lease
  MaxFaults    \* bound: lost leases, crashes and ambiguous sends

ConstantsOK ==
  /\ Entries \in Nat \ {0}
  /\ Nobody \notin Workers
  /\ MaxFaults \in Nat

VARIABLES
  recorded,   \* entries recorded so far
  status,     \* each entry's job
  lease,      \* the worker whose lease on it is live
  worker,     \* each worker: its entry, how far it is, the channel it read
  channel,    \* a ledger channel is configured
  active,     \* the guild is active
  posts,      \* the ledger channel: entries in the order they were posted
  skipped,    \* history: entries whose job ended without a post
  faults

guild == <<channel, active>>
vars == <<recorded, status, lease, worker, guild, posts, skipped, faults>>

All == 1..Entries
Statuses == {"none", "queued", "running", "succeeded", "blocked", "failed"}
Free == [pc |-> "free", entry |-> 0, sees |-> FALSE]
At(w, pc) == worker[w].pc = pc
Holds(w) == lease[worker[w].entry] = w
Set(w, pc) == worker' = [worker EXCEPT ![w].pc = pc]
Leave(w) == worker' = [worker EXCEPT ![w] = Free]

\* The attempt ends with a status, if the lease is still its own.
Settle(w, next) ==
  LET i == worker[w].entry
  IN /\ Leave(w)
     /\ IF Holds(w)
        THEN status' = [status EXCEPT ![i] = next] /\ lease' = [lease EXCEPT ![i] = Nobody]
        ELSE UNCHANGED <<status, lease>>

-----------------------------------------------------------------------------
\* An entry is recorded with its job, in one transaction.
Record ==
  /\ recorded < Entries
  /\ recorded' = recorded + 1
  /\ status' = [status EXCEPT ![recorded + 1] = "queued"]
  /\ UNCHANGED <<lease, worker, guild, posts, skipped, faults>>

Claim(w, i) ==
  /\ At(w, "free") /\ active
  /\ status[i] = "queued" \/ (status[i] = "running" /\ lease[i] = Nobody)
  /\ status' = [status EXCEPT ![i] = "running"]
  /\ lease' = [lease EXCEPT ![i] = w]
  /\ worker' = [worker EXCEPT ![w] = [pc |-> "claimed", entry |-> i, sees |-> FALSE]]
  /\ UNCHANGED <<recorded, guild, posts, skipped, faults>>

\* The guild is gone: the job ends without a post.
Skip(w) ==
  /\ At(w, "claimed") /\ ~active
  /\ skipped' = IF Holds(w) THEN skipped \cup {worker[w].entry} ELSE skipped
  /\ Settle(w, "succeeded")
  /\ UNCHANGED <<recorded, guild, posts, faults>>

\* The guild's row is read, and guard() passes before anything is sent.
Guard(w) ==
  /\ At(w, "claimed") /\ active
  /\ IF Holds(w)
     THEN worker' = [worker EXCEPT ![w].pc = "guarded", ![w].sees = channel]
     ELSE Leave(w)
  /\ UNCHANGED <<recorded, status, lease, guild, posts, skipped, faults>>

\* Mutant: only jobs that may still run on their own count as pending.
EarlierActive(i) == \E j \in 1..(i - 1) : status[j] \in {"queued", "running"}
\* An earlier entry of the account whose job has not succeeded.
Earlier(i) == \E j \in 1..(i - 1) : status[j] # "succeeded"

\* "ordered" waits; without a channel in the row it read, the job is blocked;
\* otherwise it is sent.
Look(w) ==
  /\ At(w, "guarded")
  /\ IF Earlier(worker[w].entry) THEN Settle(w, "queued")
     ELSE IF ~worker[w].sees THEN Settle(w, "blocked")
     ELSE Set(w, "sending") /\ UNCHANGED <<status, lease>>
  /\ UNCHANGED <<recorded, guild, posts, skipped, faults>>

\* Discord posts the entry, unless its nonce was used in the last few minutes;
\* then it answers with the message it has.
Posted(i) ==
  \/ posts' = Append(posts, i)
  \/ i \in ToSet(posts) /\ posts' = posts

Send(w) ==
  /\ At(w, "sending")
  /\ Posted(worker[w].entry)
  /\ Set(w, "sent")
  /\ UNCHANGED <<recorded, status, lease, guild, skipped, faults>>

\* Mutant: a missing permission ends the job like a post.
RefusalSucceeds(w) ==
  /\ At(w, "sending")
  /\ \E next \in {"queued", "succeeded", "failed"} : Settle(w, next)
  /\ UNCHANGED <<recorded, guild, posts, skipped, faults>>
\* Discord refuses: another attempt, a missing permission or the last attempt;
\* or the guild is unknown, which ends the job without a post.
SendFails(w) ==
  /\ At(w, "sending")
  /\ \E next \in {"queued", "blocked", "failed", "succeeded"} :
       /\ Settle(w, next)
       /\ skipped' = IF next = "succeeded" /\ Holds(w)
                     THEN skipped \cup {worker[w].entry} ELSE skipped
  /\ UNCHANGED <<recorded, guild, posts, faults>>

\* Discord posts, and its answer is lost.
SendUnanswered(w) ==
  /\ At(w, "sending") /\ faults < MaxFaults
  /\ faults' = faults + 1
  /\ Posted(worker[w].entry)
  /\ \E next \in {"queued", "failed"} : Settle(w, next)
  /\ UNCHANGED <<recorded, guild, skipped>>

\* The message ID, the delivery attempt and the result, under the lease.
Delivered(w) ==
  /\ At(w, "sent")
  /\ Settle(w, "succeeded")
  /\ UNCHANGED <<recorded, guild, posts, skipped, faults>>

\* The lease is not renewed in time; its worker does not know.
LeaseExpires(w) ==
  /\ ~At(w, "free") /\ Holds(w) /\ faults < MaxFaults
  /\ faults' = faults + 1
  /\ lease' = [lease EXCEPT ![worker[w].entry] = Nobody]
  /\ UNCHANGED <<recorded, status, worker, guild, posts, skipped>>

\* The process dies with every worker.
Crash ==
  /\ faults < MaxFaults
  /\ faults' = faults + 1
  /\ lease' = [i \in All |-> Nobody]
  /\ worker' = [w \in Workers |-> Free]
  /\ UNCHANGED <<recorded, status, guild, posts, skipped>>

\* A setting is saved: blocked jobs are queued again, and by each hourly sweep.
Unblock ==
  /\ channel' \in BOOLEAN
  /\ status' = [i \in All |-> IF status[i] = "blocked" THEN "queued" ELSE status[i]]
  /\ UNCHANGED <<recorded, lease, worker, active, posts, skipped, faults>>
LeaveOrReturn ==
  /\ active' = ~active
  /\ UNCHANGED <<recorded, status, lease, worker, channel, posts, skipped, faults>>

\* Mutant: an operator may retry what was delivered.
RetryAny(i) ==
  /\ status[i] \in {"failed", "succeeded"}
  /\ status' = [status EXCEPT ![i] = "queued"]
  /\ UNCHANGED <<recorded, lease, worker, guild, posts, skipped, faults>>
\* An operator retries a failed job.
Retry(i) ==
  /\ status[i] = "failed"
  /\ status' = [status EXCEPT ![i] = "queued"]
  /\ UNCHANGED <<recorded, lease, worker, guild, posts, skipped, faults>>

-----------------------------------------------------------------------------
Init ==
  /\ recorded = 0
  /\ status = [i \in All |-> "none"] /\ lease = [i \in All |-> Nobody]
  /\ worker = [w \in Workers |-> Free]
  /\ channel = TRUE /\ active = TRUE
  /\ posts = <<>> /\ skipped = {} /\ faults = 0

Deliver(w) ==
  Skip(w) \/ Guard(w) \/ Look(w) \/ Send(w) \/ SendFails(w) \/ Delivered(w)
Next ==
  \/ Record \/ Unblock \/ LeaveOrReturn \/ Crash
  \/ \E i \in All : Retry(i) \/ \E w \in Workers : Claim(w, i)
  \/ \E w \in Workers : Deliver(w) \/ SendUnanswered(w) \/ LeaseExpires(w)

Spec == Init /\ [][Next]_vars

-----------------------------------------------------------------------------
(* Properties *)

\* The jobs, their leases and the channel are well formed: only recorded entries
\* are posted, and a live lease belongs to a worker on that very entry.
TypeOK ==
  /\ recorded \in 0..Entries /\ faults \in 0..MaxFaults
  /\ status \in [All -> Statuses]
  /\ lease \in [All -> Workers \cup {Nobody}]
  /\ \A w \in Workers : worker[w].pc \in {"free", "claimed", "guarded", "sending", "sent"}
  /\ channel \in BOOLEAN /\ active \in BOOLEAN
  /\ ToSet(posts) \subseteq 1..recorded /\ skipped \subseteq 1..recorded
  /\ \A i \in All : lease[i] # Nobody => worker[lease[i]].entry = i

\* Members see the entries in the order of the account: no entry appears for the
\* first time below a later one, although later jobs are claimed concurrently,
\* fail, or outlive their lease.
PostedInOrder ==
  \A n \in 1..Len(posts) : \A i \in 1..(posts[n] - 1) :
    i \in skipped \/ \E m \in 1..(n - 1) : posts[m] = i

\* A job that ended with success and was not skipped has posted its entry.
DoneIsPosted ==
  \A i \in All : status[i] = "succeeded" /\ i \notin skipped => i \in ToSet(posts)

\* An entry is posted twice only after a fault: waits, refusals and retries that
\* nothing was lost in repeat no post.
RepeatedOnlyAfterFault ==
  faults = 0 => \A m, n \in 1..Len(posts) : posts[m] = posts[n] => m = n

=============================================================================
