---------------------------- MODULE StatusNotices ----------------------------
(***************************************************************************)
(* Officer status notices: reconciliation passes and rosters record what    *)
(* changed about a member on the member's row, and one job of the guild     *)
(* freezes what waits into batches, posts them and marks them.  Pure rules  *)
(* are those of src/domain/status.ts, transactions and delivery those of    *)
(* src/application/status-notices.ts.                                       *)
(*                                                                         *)
(* An action is one transaction or one call to Discord.  Time is abstract:  *)
(* a change is young until its window of two minutes ends.  The job row is  *)
(* the part of the queue this component relies on: who runs it, and whether *)
(* it was asked for again meanwhile.  Reasons and layout are left out.      *)
(***************************************************************************)
EXTENDS Naturals, FiniteSets

CONSTANTS
  Users,         \* members with a guild_users row
  Flags,         \* STATUS_FLAGS of the instance
  Observations,  \* what a pass may observe: [Flags -> [value, decisive]]
  Departures,    \* confirmed departures (character and snapshot)
  Channels,      \* officer notifications channels
  NoChannel,     \* officer_notifications_channel_id IS NULL
  Workers,
  Nobody,        \* the status job has no running attempt
  BatchSize,     \* STATUS_POST_MEMBERS, or what fits
  MaxRecords,    \* bound: passes, departures and joins
  MaxJoins,      \* bound: joins of a member
  MaxSettings,   \* bound: changes of the channel or of the effects switch
  MaxFaults      \* bound: crashes, stalls and lost answers

Values == {"unset", "no", "yes"}
ConstantsOK ==
  /\ Observations \subseteq [Flags -> [value : Values, decisive : BOOLEAN]]
  /\ NoChannel \notin Channels /\ Nobody \notin Workers
  /\ BatchSize \in Nat \ {0} /\ {MaxRecords, MaxJoins, MaxSettings, MaxFaults} \subseteq Nat

VARIABLES
  row,        \* status_state, status_since and status_posting of each member
  joins,      \* the member's current join
  channel,    \* the guild's officer notifications channel
  effects,    \* Discord changes are not paused
  job,        \* the guild's officer.status row
  worker,     \* what each worker of the pool does with it
  delivered,  \* batches with a delivered attempt
  remembered, \* batches whose nonce Discord still knows
  told,       \* what the channel's readers were last told of each flag
  spent       \* the bounds used up so far

vars == <<row, joins, channel, effects, job, worker, delivered, remembered, told, spent>>

-----------------------------------------------------------------------------
(* src/domain/status.ts *)

Changed(s) ==
  {f \in Flags : "unset" \notin {s.announced[f], s.current[f]} /\ s.announced[f] # s.current[f]}
Pending(s) == Changed(s) # {} \/ s.departed # {}

Unknown == [f \in Flags |-> "unset"]
Rebased(s, join) ==
  IF s.joined = join THEN s
  ELSE [s EXCEPT !.joined = join, !.announced = Unknown, !.current = Unknown]

\* observe(): an unbound flag is forgotten, a first decisive value is the silent
\* baseline, a later one is what waits to be announced.
Observe(s, seen, join) ==
  LET base == Rebased(s, join)
      Next(f, old, first) == IF seen[f].value = "unset" THEN "unset"
                             ELSE IF ~seen[f].decisive THEN old
                             ELSE IF first THEN seen[f].value ELSE old
  IN [base EXCEPT
        !.announced = [f \in Flags |-> Next(f, @[f], base.announced[f] = "unset")],
        !.current = [f \in Flags |-> Next(f, @[f], TRUE)]]
Moved(s, seen, join) ==
  LET base == Rebased(s, join)
  IN \E f \in Flags : /\ seen[f].value # "unset" /\ seen[f].decisive
                      /\ base.announced[f] # "unset" /\ base.current[f] # seen[f].value

\* entryFor(): the lines of one member, as the batch keeps them.
Entry(s) ==
  [joined |-> s.joined, from |-> s.announced, departed |-> s.departed,
   to |-> [f \in Flags |-> IF f \in Changed(s) THEN s.current[f] ELSE s.announced[f]]]

\* entryVisible(): Member and Guest show as one access level.
Holds(flags, f) == f \in Flags /\ flags[f] = "yes"
Level(flags) == IF Holds(flags, "member") THEN "member"
                ELSE IF Holds(flags, "guest") THEN "guest" ELSE "none"
Visible(e) ==
  \/ Level(e.from) # Level(e.to) \/ e.departed # {}
  \/ \E f \in Flags \ {"member", "guest"} : e.from[f] # e.to[f]

\* Mutant: the mark takes the member's newest values as announced.
ApplyNewest(s, e) == [s EXCEPT !.announced = s.current, !.departed = @ \ e.departed]

\* applyPosted(): a posted flag is announced unless it moved on meanwhile.
ApplyPosted(s, e) ==
  [s EXCEPT !.departed = @ \ e.departed,
            !.announced = [f \in Flags |->
              IF /\ e.joined = s.joined /\ e.from[f] \notin {"unset", e.to[f]}
                 /\ @[f] = e.from[f]
              THEN e.to[f] ELSE @[f]]]

DropPending(s) == [s EXCEPT !.announced = s.current, !.departed = {}]

NoEntry == [joined |-> 0, from |-> Unknown, to |-> Unknown, departed |-> {}]
Cleared(s) == [s EXCEPT !.since = "none", !.batch = 0, !.entry = NoEntry]

-----------------------------------------------------------------------------
(* The job and its readers *)

\* queueStatus(): enqueue on the guild's one key.
QueueStatus ==
  job' = IF job.status = "none" THEN [status |-> "queued", holder |-> Nobody, newer |-> FALSE]
         ELSE [job EXCEPT !.newer = TRUE]

\* Ghost: a silent change of the announced values counts as told; a baseline
\* retaken while a batch is on its way leaves open which of the two readers hold.
Silently(u, new) ==
  [f \in Flags |->
     IF new.joined = row[u].joined /\ new.announced[f] = row[u].announced[f] THEN told[u][f]
     ELSE IF row[u].batch # 0 THEN "unset" ELSE new.announced[f]]

Waiting(u) == row[u].since # "none" \/ row[u].batch # 0
Spend(kind, bound) == spent[kind] < bound /\ spent' = [spent EXCEPT ![kind] = @ + 1]

\* A row that starts to wait now is younger than every cutoff taken so far.
Restarted(users) == worker' = [w \in Workers |-> [worker[w] EXCEPT !.cutoff = @ \ users]]
Since(u) == IF row[u].since = "none" THEN "young" ELSE row[u].since

-----------------------------------------------------------------------------
(* Recording *)

\* Mutant: only a row that was not waiting queues the post.
RecordQueuesOnce(u) ==
  \E seen \in Observations, join \in {joins[u], joins[u] - 1} \ {0} :
    LET next == Observe(row[u], seen, join)
    IN /\ Spend("records", MaxRecords)
       /\ channel # NoChannel
       /\ row' = [row EXCEPT ![u] =
            [next EXCEPT !.since = IF Pending(next) THEN Since(u) ELSE "none"]]
       /\ IF row[u].since = "none" THEN Restarted({u}) ELSE UNCHANGED worker
       /\ told' = [told EXCEPT ![u] = Silently(u, next)]
       /\ IF Moved(row[u], seen, join) /\ row[u].since = "none" THEN QueueStatus
          ELSE UNCHANGED job
       /\ UNCHANGED <<joins, channel, effects, delivered, remembered>>

\* recordStatus(): a pass that began before a rejoin still carries the old join.
Record(u) ==
  \E seen \in Observations, join \in {joins[u], joins[u] - 1} \ {0} :
    LET next == Observe(row[u], seen, join)
        moved == Moved(row[u], seen, join)
    IN /\ Spend("records", MaxRecords)
       /\ IF channel = NoChannel
          THEN /\ row' = [row EXCEPT ![u] = Cleared(DropPending(next))]
               /\ told' = [told EXCEPT ![u] = Silently(u, DropPending(next))]
               /\ UNCHANGED <<job, worker>>
          ELSE /\ row' = [row EXCEPT ![u] =
                    [next EXCEPT !.since = IF Pending(next) THEN Since(u) ELSE "none"]]
               /\ IF row[u].since = "none" THEN Restarted({u}) ELSE UNCHANGED worker
               /\ told' = [told EXCEPT ![u] = Silently(u, next)]
               /\ IF moved THEN QueueStatus ELSE UNCHANGED job
       /\ UNCHANGED <<joins, channel, effects, delivered, remembered>>

\* recordDepartures(), in the transaction that publishes the roster.
RecordDeparture(u, d) ==
  /\ channel # NoChannel /\ d \notin row[u].departed
  /\ Spend("records", MaxRecords)
  /\ row' = [row EXCEPT ![u].departed = @ \cup {d}, ![u].since = Since(u)]
  /\ IF row[u].since = "none" THEN Restarted({u}) ELSE UNCHANGED worker
  /\ QueueStatus
  /\ UNCHANGED <<joins, channel, effects, delivered, remembered, told>>

\* The member leaves and joins again.
Rejoin(u) ==
  /\ joins[u] < MaxJoins /\ Spend("records", MaxRecords)
  /\ joins' = [joins EXCEPT ![u] = @ + 1]
  /\ UNCHANGED <<row, channel, effects, job, worker, delivered, remembered, told>>

\* Mutant: the frozen entries stay behind.
DropUnfrozen ==
  /\ row' = [u \in Users |-> IF row[u].since # "none"
                             THEN [DropPending(row[u]) EXCEPT !.since = "none"] ELSE row[u]]
  /\ told' = [u \in Users |-> IF Waiting(u) THEN DropPending(row[u]).announced ELSE told[u]]

\* dropWaiting(): everything that waits is taken as announced.
DropWaiting ==
  /\ row' = [u \in Users |-> IF Waiting(u) THEN Cleared(DropPending(row[u])) ELSE row[u]]
  /\ told' = [u \in Users |-> IF Waiting(u) THEN DropPending(row[u]).announced ELSE told[u]]

\* /config sets or unsets the channel, and requeues what was parked.
Requeued == IF job.status = "parked" THEN [job EXCEPT !.status = "queued"] ELSE job
SetChannel(c) ==
  /\ c # channel
  /\ Spend("settings", MaxSettings)
  /\ channel' = c
  /\ IF c = NoChannel THEN DropWaiting ELSE UNCHANGED <<row, told>>
  /\ job' = Requeued
  /\ UNCHANGED <<joins, effects, worker, delivered, remembered>>

\* An operator pauses or resumes Discord changes.
SetEffects ==
  /\ Spend("settings", MaxSettings)
  /\ effects' = ~effects
  /\ job' = IF effects THEN job ELSE Requeued
  /\ UNCHANGED <<row, joins, channel, worker, delivered, remembered, told>>

-----------------------------------------------------------------------------
(* Delivery *)

Idle == [pc |-> "idle", channel |-> NoChannel, batch |-> 0, resumed |-> FALSE,
         cutoff |-> {}, then |-> "idle", entries |-> [u \in {} |-> NoEntry]]
Goes(w, next) == worker' = [worker EXCEPT ![w] = next]
Owns(w) == job.holder = w

\* The job's end: published, run again for newer input, waiting or parked.
Ends(w, status) ==
  /\ Goes(w, Idle)
  /\ job' = IF ~Owns(w) THEN job
            ELSE IF status = "none" /\ job.newer
                 THEN [status |-> "queued", holder |-> Nobody, newer |-> FALSE]
                 ELSE [job EXCEPT !.status = status, !.holder = Nobody]

Claim(w) ==
  /\ worker[w].pc = "idle" /\ job.status = "queued" /\ job.holder = Nobody
  /\ job' = [status |-> "running", holder |-> w, newer |-> FALSE]
  /\ Goes(w, [Idle EXCEPT !.pc = "begin"])
  /\ UNCHANGED <<row, joins, channel, effects, delivered, remembered, told, spent>>

\* The dispatcher reads the guild: no channel, paused, or deliverStatus() runs.
Begin(w) ==
  /\ worker[w].pc = "begin"
  /\ \/ /\ channel = NoChannel /\ Owns(w)
        /\ Goes(w, [worker[w] EXCEPT !.pc = "drop"]) /\ UNCHANGED job
     \/ channel # NoChannel /\ ~effects /\ Ends(w, "parked")
     \/ /\ channel # NoChannel /\ effects
        /\ Goes(w, [worker[w] EXCEPT !.pc = "resume", !.channel = channel])
        /\ UNCHANGED job
     \/ channel = NoChannel /\ ~Owns(w) /\ Ends(w, "queued")
  /\ UNCHANGED <<row, joins, channel, effects, delivered, remembered, told, spent>>

\* dropStatus(), with the channel as the dispatcher read it.
Drop(w) ==
  /\ worker[w].pc = "drop"
  /\ DropWaiting
  /\ Goes(w, [worker[w] EXCEPT !.pc = "finish"])
  /\ UNCHANGED <<joins, channel, effects, job, delivered, remembered, spent>>

Frozen(b) == {u \in Users : row[u].batch = b}
FrozenBatches == {row[u].batch : u \in Users} \ {0}

\* postBatch(): a batch that Discord took before is only marked.
Posting(w, b, resumed, then) ==
  [worker[w] EXCEPT !.pc = IF resumed /\ b \in delivered THEN "mark" ELSE "send",
                    !.batch = b, !.resumed = resumed, !.then = then,
                    !.entries = [u \in Frozen(b) |-> row[u].entry]]

\* frozenBatch() and the lease check before it is sent again.
Resume(w) ==
  /\ worker[w].pc = "resume"
  /\ \/ /\ FrozenBatches = {}
        /\ Goes(w, [worker[w] EXCEPT !.pc = "window"]) /\ UNCHANGED job
     \/ /\ \E b \in FrozenBatches :
             Owns(w) /\ Goes(w, Posting(w, b, TRUE, "window")) /\ UNCHANGED job
     \/ FrozenBatches # {} /\ ~Owns(w) /\ Ends(w, "queued")
  /\ UNCHANGED <<row, joins, channel, effects, delivered, remembered, told, spent>>

\* windowRemaining() and the cutoff.
Window(w) ==
  /\ worker[w].pc = "window"
  /\ LET waiting == {u \in Users : row[u].since # "none"}
     IN \/ waiting = {} /\ Goes(w, [worker[w] EXCEPT !.pc = "finish"]) /\ UNCHANGED job
        \/ /\ waiting # {} /\ \A u \in waiting : row[u].since = "young"
           /\ Ends(w, "queued")
        \/ /\ \E u \in waiting : row[u].since = "due"
           /\ Goes(w, [worker[w] EXCEPT !.pc = "freeze", !.cutoff = waiting])
           /\ UNCHANGED job
  /\ UNCHANGED <<row, joins, channel, effects, delivered, remembered, told, spent>>

\* The rows one freeze looks at: silent ones, and as many entries as fit.
Chosen(candidates) ==
  LET entries == {u \in candidates : Pending(row[u]) /\ Visible(Entry(row[u]))}
      silent == candidates \ entries
  IN {pick \in (SUBSET entries) \X (SUBSET silent) :
        /\ Cardinality(pick[1]) = IF Cardinality(entries) < BatchSize
                                  THEN Cardinality(entries) ELSE BatchSize
        /\ pick[1] = entries => pick[2] = silent}
Announced(s) ==
  IF ~Pending(s) THEN [s EXCEPT !.since = "none"]
  ELSE LET next == ApplyPosted(s, Entry(s))
       IN IF Pending(next) THEN next ELSE [next EXCEPT !.since = "none"]

NewBatch(w, pick) ==
  LET id == spent.batches + 1
  IN /\ row' = [u \in Users |->
          IF u \in pick[1] THEN [row[u] EXCEPT !.batch = id, !.entry = Entry(row[u])]
          ELSE IF u \in pick[2] THEN Announced(row[u]) ELSE row[u]]
     /\ told' = [u \in Users |->
          IF u \in pick[2] THEN Silently(u, Announced(row[u])) ELSE told[u]]
     /\ IF pick[1] = {}
        THEN Goes(w, [worker[w] EXCEPT !.pc = "finish"]) /\ UNCHANGED spent
        ELSE /\ Goes(w, [worker[w] EXCEPT !.pc = "send", !.batch = id, !.resumed = FALSE,
                           !.then = "guard", !.entries = [u \in pick[1] |-> Entry(row[u])]])
             /\ spent' = [spent EXCEPT !.batches = id]

\* freeze(): settings, a batch frozen before, the lease, then a new batch.
Freeze(w) ==
  /\ worker[w].pc = "freeze"
  /\ \/ /\ ~effects \/ channel # worker[w].channel
        /\ Ends(w, "queued") /\ UNCHANGED <<row, told, spent>>
     \/ /\ effects /\ channel = worker[w].channel
        /\ IF FrozenBatches # {}
           THEN /\ \E b \in FrozenBatches : Goes(w, Posting(w, b, TRUE, "guard"))
                /\ UNCHANGED <<row, told, spent, job>>
           ELSE IF ~Owns(w) THEN Ends(w, "queued") /\ UNCHANGED <<row, told, spent>>
           ELSE /\ \E pick \in Chosen({u \in worker[w].cutoff : row[u].since # "none"}) :
                     NewBatch(w, pick)
                /\ UNCHANGED job
  /\ UNCHANGED <<joins, channel, effects, delivered, remembered>>

\* What readers learn from a batch that Discord shows.
Reads(w) ==
  told' = [u \in Users |->
    IF u \in DOMAIN worker[w].entries /\ row[u].batch = worker[w].batch
    THEN LET e == worker[w].entries[u]
         IN [f \in Flags |-> IF e.joined = row[u].joined /\ e.from[f] \notin {"unset", e.to[f]}
                             THEN e.to[f] ELSE told[u][f]]
    ELSE told[u]]
Shows(w) ==
  IF worker[w].batch \in remembered THEN UNCHANGED <<told, remembered>>
  ELSE Reads(w) /\ remembered' = remembered \cup {worker[w].batch}

\* sendBatch(): Discord shows a nonce it knows only once.
Send(w) ==
  /\ worker[w].pc = "send"
  /\ Shows(w)
  /\ Goes(w, [worker[w] EXCEPT !.pc = "deliver"])
  /\ UNCHANGED <<row, joins, channel, effects, job, delivered, spent>>

\* Discord refuses, or its answer is lost: the batch stays frozen for the retry.
SendFails(w) ==
  /\ worker[w].pc = "send"
  /\ Spend("faults", MaxFaults)
  /\ Shows(w) \/ UNCHANGED <<told, remembered>>
  /\ Ends(w, "queued")
  /\ UNCHANGED <<row, joins, channel, effects, delivered>>

\* The delivered attempt, written before the mark.
Deliver(w) ==
  /\ worker[w].pc = "deliver"
  /\ delivered' = delivered \cup {worker[w].batch}
  /\ Goes(w, [worker[w] EXCEPT !.pc = "mark"])
  /\ UNCHANGED <<row, joins, channel, effects, job, remembered, told, spent>>

\* markPosted(): what changed since the freeze waits from now.
Mark(w) ==
  /\ worker[w].pc = "mark"
  /\ LET marked == Frozen(worker[w].batch)
         After(u) == ApplyPosted(row[u], row[u].entry)
     IN /\ row' = [u \in Users |->
             IF u \notin marked THEN row[u]
             ELSE [Cleared(After(u)) EXCEPT !.since = IF Pending(After(u)) THEN "young" ELSE "none"]]
        /\ worker' = [v \in Workers |->
             IF v = w THEN [worker[w] EXCEPT !.pc = worker[w].then, !.cutoff = @ \ marked,
                              !.entries = Idle.entries]
             ELSE [worker[v] EXCEPT !.cutoff = @ \ marked]]
  /\ UNCHANGED <<joins, channel, effects, job, delivered, remembered, told, spent>>

\* guard() between two batches.
Guard(w) ==
  /\ worker[w].pc = "guard"
  /\ IF Owns(w) THEN Goes(w, [worker[w] EXCEPT !.pc = "freeze"]) /\ UNCHANGED job
     ELSE Ends(w, "queued")
  /\ UNCHANGED <<row, joins, channel, effects, delivered, remembered, told, spent>>

Finish(w) ==
  /\ worker[w].pc = "finish"
  /\ Ends(w, "none")
  /\ UNCHANGED <<row, joins, channel, effects, delivered, remembered, told, spent>>

-----------------------------------------------------------------------------
(* Time and faults *)

WindowEnds(u) ==
  /\ row[u].since = "young"
  /\ row' = [row EXCEPT ![u].since = "due"]
  /\ UNCHANGED <<joins, channel, effects, job, worker, delivered, remembered, told, spent>>

\* Discord forgets a nonce, but not while an attempt is about to send under it.
NonceExpires(b) ==
  /\ b \in remembered
  /\ \A w \in Workers : ~(worker[w].pc = "send" /\ worker[w].batch = b)
  /\ remembered' = remembered \ {b}
  /\ UNCHANGED <<row, joins, channel, effects, job, worker, delivered, told, spent>>

\* The process dies, or a database call of the attempt fails; or its lease runs
\* out while it goes on.
Lapse(w) ==
  /\ worker[w].pc # "idle"
  /\ Spend("faults", MaxFaults)
  /\ Goes(w, Idle) \/ UNCHANGED worker
  /\ job' = IF Owns(w) THEN [job EXCEPT !.status = "queued", !.holder = Nobody] ELSE job
  /\ UNCHANGED <<row, joins, channel, effects, delivered, remembered, told>>

-----------------------------------------------------------------------------
Fresh == [joined |-> 0, announced |-> Unknown, current |-> Unknown, departed |-> {},
          since |-> "none", batch |-> 0, entry |-> NoEntry]

Init ==
  /\ row = [u \in Users |-> Fresh]
  /\ joins = [u \in Users |-> 1]
  /\ channel \in Channels
  /\ effects = TRUE
  /\ job = [status |-> "none", holder |-> Nobody, newer |-> FALSE]
  /\ worker = [w \in Workers |-> Idle]
  /\ delivered = {} /\ remembered = {}
  /\ told = [u \in Users |-> Unknown]
  /\ spent = [records |-> 0, settings |-> 0, faults |-> 0, batches |-> 0]

Steps(w) == Begin(w) \/ Drop(w) \/ Resume(w) \/ Window(w) \/ Freeze(w) \/ Send(w)
            \/ Deliver(w) \/ Mark(w) \/ Guard(w) \/ Finish(w)

Next ==
  \/ \E u \in Users : Record(u) \/ Rejoin(u) \/ WindowEnds(u)
  \/ \E u \in Users, d \in Departures : RecordDeparture(u, d)
  \/ \E c \in Channels \cup {NoChannel} : SetChannel(c)
  \/ SetEffects
  \/ \E w \in Workers : Claim(w) \/ Steps(w) \/ SendFails(w) \/ Lapse(w)
  \/ \E b \in remembered : NonceExpires(b)

\* The pool keeps claiming and never stops in the middle of an attempt.
Fairness ==
  /\ \A w \in Workers : WF_vars(Steps(w)) /\ SF_vars(Claim(w))
  /\ \A u \in Users : WF_vars(WindowEnds(u))

Spec == Init /\ [][Next]_vars /\ Fairness

-----------------------------------------------------------------------------
(* Properties *)

\* What the rows call announced is what the channel's readers were told, or was
\* taken silently, unless a batch of the member is on its way: through crashes,
\* lost answers, repeated sends, rejoins and changes made while a post was sent,
\* no change is announced twice, skipped, or announced from a value nobody saw.
AnnouncedIsTold ==
  \A u \in Users, f \in Flags :
    row[u].batch = 0 /\ "unset" \notin {row[u].announced[f], told[u][f]}
      => told[u][f] = row[u].announced[f]

\* While the guild has no officer channel nothing waits for one, frozen batches
\* included: what happened then is never posted to a channel set later.
NothingKeptUnset ==
  channel = NoChannel => \A u \in Users : ~Waiting(u)

\* A recorded change is posted, reverted or dropped in the end, if the channel
\* stays set and effects stay on: none is left behind by a run that was over, or
\* about to be, when the change was made.
ChangesAreSettled ==
  <>[](effects /\ channel # NoChannel) => \A u \in Users : Waiting(u) ~> ~Waiting(u)

=============================================================================
