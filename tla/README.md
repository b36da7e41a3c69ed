# TaruBot, modelled and checked

TaruBot is a Discord bot for Final Fantasy XIV Free Companies (FCs). It links
members to characters, reads FC rosters from the Lodestone (the game's public
web site), keeps Discord roles, nicknames and channel permissions in step with
them, and keeps a gil ledger, guest applications, mod mail, a role menu and a web
dashboard. Everything it decides is a row in PostgreSQL, and most of what it does
is a job of a durable queue.

This directory holds TLA+ modules of the parts where order, concurrency, time
and failure decide whether the bot is right; TLC configurations that check them
on small instances; and proofs, checked by TLAPS, that hold for instances of
every size. Paths below are those of the repository.

Run a configuration with `tlc -config MCJobQueue.cfg JobQueue` (section 3 names
the module of each), and the proofs with `tlapm JobQueueProofs.tla` and likewise
for the other modules of section 5.

## 1. Inventory

| Part | State | Operations | What is hard | What makes it correct |
| --- | --- | --- | --- | --- |
| Job queue, `src/jobs/queue.ts` | `jobs`: status, generation, lease, attempts, due time | enqueue, claim, heartbeat, complete, fail, retry, close, requeue parked | stalled and dead workers, inputs that arrive during an attempt, parked work beside new work | one active row and one effective worker per key; results of the newest input; nothing waits for ever |
| Dispatcher, `src/jobs/dispatch.ts` | none of its own | one branch per job kind | a guard read before a remote call; a send whose answer is lost | per kind |
| Lifecycle and migrations, `src/application/lifecycle.ts`, `src/infrastructure/postgres/database.ts` | a session advisory lock, the schema version | start, check, stop, hand-over, migrate | overlapping deployments, dead sessions, a stop during start-up | one writer; code and schema fit |
| Lodestone access, `src/infrastructure/lodestone/` | slots, start lock, cooldown, strikes | request, wait, retry, abort, throttle | wake-ups lost to aborted waiters, a 429 that lands while others wait | bounded, spaced, and every request ends |
| Roster synchronization, `src/application/synchronization.ts` | `free_companies`, `roster_members`, `membership`, the FC lock | acquire, publish, confirm, seed a link | a list that changes while it is read; reads that overlap | nobody leaves an FC by a torn list; order of observations |
| Outage notices, same file | the notices' job rows | degraded, recovered, close | notices queued, parked or in flight when an outage ends | told once a day, never late |
| Status notices, `src/application/status-notices.ts`, `src/domain/status.ts` | status columns of `guild_users`, the guild's one job | record, freeze a batch, send, mark, drop | changes during a send; an answer that is lost; the nonce window | each change told once, none left behind |
| Gil ledger, `src/application/service.ts` | `ledger_accounts`, `ledger_entries` | initialize, deposit, withdraw, adjust, link and unlink the FC | concurrent and repeated interactions beside settings changes | balance is the sum of entries; order of posts |
| Claims, verification and links, same file | `challenges`, `links`, `guild_users` | claim, verify, assign, unclaim, main, nickname | races for a character, a token or a limit | a link is proved; one owner; main is linked |
| Nickname sync, `synchronization.ts`, `src/discord/gateway.ts` | nickname columns of `guild_users` | reconcile, toggle, suspend, restore | the member edits while the bot writes; lost answers | the member's own nickname comes back |
| Access policy and user reconciliation, `src/domain/policy.ts`, `src/application/rank-policy.ts`, `synchronization.ts` | revision, generation, presence | decide, reconcile a member, sweep a guild | evidence that changes before it is acted on; events out of order | roles settle on what the newest evidence asks for |
| Guest applications, `service.ts` | `guest_applications` | apply, approve, refuse, revoke, reset, close; the review message | a review that races a change of membership | a decision stands; a review ends showing it |
| Mod mail, `src/application/modmail.ts` | `modmail_cases`, `modmail_messages`, `modmail_reads` | open, reply, close, reopen, view, retain | replies and closing race; forms sent twice; pings coalesce | no message lost; nobody closes over an unseen reply |
| Self-roles, `src/application/self-roles.ts`, `src/domain/self-roles.ts` | menu, choices, the job's generation | edit the menu, save a choice, write roles | a page older than the menu; a role that becomes an access role | what was answered holds; the menu never gives access |
| Channel overrides, `src/application/overrides.ts`, `src/domain/visibility.ts` | the audit row's hidden set, Discord's entries | report, write, read back | a server that changes during the run; a cache that lags | children stay synced; nobody's deny is undone |
| Visibility alerts, `src/application/visibility-alerts.ts` | episode and its job rows | pass, open, alert, recover | restarts and settings changes between the two | an episode that lasts is told; no false all-clear |
| Guild access and channel security, `src/application/guild-access.ts`, `src/discord/guild-access.ts`, `src/domain/channel-access.ts` | the private set, the pass | set up, secure, verify | other people's edits; a stop between two writes | nothing left open, nothing private opened |
| Issue reports, `src/application/issue-reports.ts`, `src/domain/reports.ts` | report rows, day counters | count, open, comment, give up | repeats during a send; closed issues; daily caps | every repeat counted once; every failure reaches an issue |
| Pauses, `src/application/moderation.ts`, `blocks.ts` | `member_blocks` | set, replace, lift, expire | two officers at once | one open pause per feature; ends only when it should |
| Web sign-in and access, `src/web/` | sessions, counters, exchanges, the memo of actors | sign in, touch, sign out, resolve, serve | two sign-ins at once; a 429; an answer older than a change | limits hold; access is current |
| Sync runs; activation, setup and role layout; suggestions and changelog; public status and dashboard; commands, presenters, views and styles; import, scripts, metrics | little | | input, layout and I/O | |

The parts meet in the database. Services, events, the scheduler and the web
server enqueue rows in the transaction that changes what the row is about. The
queue's workers run the dispatcher, which calls synchronization or sends a
message. Synchronization takes advisory locks (per FC and per member), calls the
Lodestone through its gate, and commits results together with the next jobs. The
lifecycle keeps a second process from running any of this on the same database.

## 2. Modules

State machines:

| Module | Models | State and actions |
| --- | --- | --- |
| `JobQueue` | `src/jobs/queue.ts` over the `jobs` table and its partial unique index | `jobs` is the table. `Enqueue`, `ScheduleJob`, `NotifyRunning`, `CloseUnstarted`, `RetryJob`, `SweepBlocked`, `Claim` are statements; a worker goes from `Claim` over its guard and its work (`GuardRefuses`, `Return`, `Throw`) to `Publish` or `RecordFailure`. `PublishLost`, `ClaimLost`, `RecordLost`, `LeaseStalls`, `Crash` are the failures. A payload is the number of its input. |
| `KeyedWork` | what the queue promises its callers | One open item per key, one owner, the newest input and the newest result: `Ask`, `Take`, `Publish`, `LetGo`, `Reopen`, `Abandon`. No leases, generations, attempts or due times. The mapping (`items`) and `KeepsPromise` are in `JobQueue`. |
| `ParkedWork` | `requeueParked` and the links of sync runs | Extends `JobQueue` with a pass of four statements and its retries after a unique violation, beside every queue step its row locks allow. |
| `WriterLease` | `lifecycle.ts`, `main.ts`, `migrate` | Several bots, each with a start-up and a shutdown, and migrations. PostgreSQL's view of the lock and the bot's (`held`) are separate. |
| `LodestoneGate` | `client.ts` slots and retries, `gate.ts` start lock and cooldown, `runner.ts` | An action is what one JavaScript thread does between two awaits. |
| `RosterSync` | `Lodestone.roster`, `roster()`, `seedFreshLink()`, `departure()`, evidence in `trust()` | The FC changes while pages are read; the publication is two actions, what it reads and what it writes. |
| `OutageNotices` | `degraded()`, `recovered()` and closing | The officers' notices as their job rows, the two queries over them, and the rows' lives. |
| `StatusNotices` | `recordStatus`, `recordDepartures`, `deliverStatus`, `dropStatus` and the rules of `domain/status.ts` | Each member's announced, current and frozen state; batches frozen, sent, marked or resumed by their nonce; the guild's one job. |
| `Ledger` | `ledger()`, `configure()`, `unlinkCompany()` | A call reads settings, then locks and reads, then writes; two interactions may be one repeated. |
| `LedgerPosts` | the `ledger.notify` branch of `dispatch()` | Two workers, entries 1..n, the channel as a sequence. |
| `Verification` | `claim`, `verify`, `assign`, `trust`, `unclaim`, `preferences` | A call's `pc` says which locks it holds. |
| `NicknameSync` | `nickname()`, `DiscordGateway.nickname`, the commands that change the columns | The row is read once and written column by column around the calls to Discord. |
| `GuestAccess` | `reconcile.user` and `reconcile.guild`, `guild-events.ts`, applications, grants and revocations, review messages | One member. Events commit in any order; a pass reads evidence, decides by `AccessPolicy`, writes roles at Discord and records, or is superseded; closing applications it made needless and queueing their redraws are two steps, and so are `apply()`'s read of the request it replaces and its commit. A sweep works from a member list read earlier. |
| `ModMail` | `modmail.ts`: cases, messages, reads, pings, DMs, retention | A request starts (which fixes `now()`), locks, commits. Forms may be sent twice or from an old page. `JobFails` and `JobGivesUp` are attempts that fail for now and for good; `Requeue` brings a failed row back, and the officer channel may be unset. |
| `SelfRoles` | `self-roles.ts`: editor, forms, saves, the `roles.self` job, removals on lost access | Menu rules are `RoleMenu`'s. The job reads the member, then a fresh view of the server, then writes role by role; `JobGivesUp` is the attempt that ends the row failed, with the choice it has by then. |
| `Overrides` | `/setup overrides confirm:true` | `disc` is what Discord stores and `cache` what the gateway has delivered; a run plans by `Visibility`, writes its own entry channel by channel, reads back, and records the hidden set. |
| `VisibilityAlerts` | scheduler pass, the step under the server's lock, alert and recovery jobs | Episodes are numbered, and so are the job rows created since each began; an alert's row may also end without a post (`SendGivesUp`). |
| `ChannelSecurity` | `channels.access`: `reconcile`, `channelWithin`, `restrictEveryoneWithin`, `remember`, setup's commit, `channelChanged` | A pass writes by `ChannelAccess` one entry at a time, beside edits, new channels, new bindings, a lost lease and a restart. |
| `IssueReports` | `issue-reports.ts` and the caps of `domain/reports.ts` | Rows per fingerprint, deliveries by two workers, GitHub's issues opened and closed, the hour and the day as flags. |
| `Moderation` | `block` and `lift` | Open rows of one person; the times of a call are its transaction's start. |
| `WebSessions` | `sessions.ts`, the sign-in limit of `limits.ts`, what `server.ts` does with a cookie | Sessions by creation, sweeps, touches; two sign-ins at once. |
| `ExchangeGate` | `ExchangeGate` of `limits.ts` | The pause after a 429, the cap on what runs, the fixed window. |
| `WebActors` | `AccessResolver` of `access.ts`, `servePage()` | The memo, the resolutions that fill it, and requests that share them. |

Pure rules, as operators with theorems about them (in the proof modules of the machines
that extend them, those about `Visibility` in `ChannelSecurityProofs`):

| Module | Models |
| --- | --- |
| `AccessPolicy` | `policy.ts` and `rank-policy.ts`: membership class, wanted roles, decisiveness, rank backing |
| `RoleMenu` | `domain/self-roles.ts`: editor operations, forms, merging a save into the waiting change, the job's plan |
| `Visibility` | `visibility.ts` and `permissions.ts`: what TaruBot sees without Administrator, the entries to write, the count reported |
| `ChannelAccess` | `channel-access.ts`: the entries of each audience, what counts as private, the order of writes |

`JobQueueProofs`, `WriterLeaseProofs`, `GuestAccessProofs`, `SelfRolesProofs`,
`ChannelSecurityProofs`, `IssueReportsProofs` and `ModMailProofs` hold the theorems
about the modules they are named after, `ServicesProofs` those about the parts of
`MCServices`, `SelfRolesProofs` also those about `Verification`, `NicknameSync` and `Moderation`, the
parts of `MCMembers`, and `ChannelSecurityProofs` also those about `Visibility` and, as parts
of `MCOverridesRoster`, about `Overrides` and `RosterSync`; `MC...`
modules are the instances for TLC:
constant values, symmetry, bounds. A module that needs none has just its `.cfg`.

How they compose. `ParkedWork` extends `JobQueue`; `KeyedWork` says what every
other module may take from the queue: a key's work has one owner at a time, and it
completes only with the result of its newest input, or is abandoned. An abandoned row
takes an input with it that came during its last attempt. `SelfRoles`, `VisibilityAlerts`
and `ModMail` have that end, and so have `LedgerPosts` and `OutageNotices` where their
properties depend on it; what the others leave out of it section 4 says.
`StatusNotices`, `IssueReports`, `VisibilityAlerts`, `ModMail`, `OutageNotices`,
`LedgerPosts`, `RosterSync` and `ChannelSecurity` have job rows reduced to the columns
they look at. `GuestAccess` extends `AccessPolicy`, `SelfRoles` extends `RoleMenu`,
`Overrides` extends `Visibility` and `ChannelSecurity` extends `ChannelAccess`, so what
TLC runs is what the theorems are about. `RosterSync` takes from `LodestoneGate` only
that a page answers or fails, and `OutageNotices` from `RosterSync` only that an attempt
is accepted, fails or must wait.

A definition that begins with "Mutant:" in its comment is a plausible bug of the
definition next to it. Replacing the definition by it makes TLC find the property
it is listed with in `PROJECT.json` violated, which shows that the instance
reaches the case the property is about.

### What is abstracted

- Time is a flag ("due", "lease expired", "young") where the code compares one
  instant with now, and a counter where it compares two instants.
- PostgreSQL's locks are guards, and a transaction is one action unless another
  transaction can come between two of its statements. `now()` is the start of the
  transaction wherever a lock taken later makes a difference (`ModMail`,
  `Moderation`, `Verification`).
- What one JavaScript thread does between two awaits is one action. Answers of
  Discord and GitHub may be lost after the effect; events may be late.
- Payloads, messages, names and pages are model values, numbers or sets; a set of
  permissions is a set of named bits, several of which stand for groups that the
  code always treats alike.
- `TypeOK` states the types in every module. It is part of a checked property where
  a proof rests on it or where it also relates parts of the state; in the others it
  documents the variables.

## 3. Runs

Small parts share a run. Such a run has a variable `part`, chosen at the start, that
says which module a behavior is about; the variables of the others rest in one
initial state, so the state space is the sum of the parts and never their product.
The parts keep their own constants, next-state relation and fairness.

| Run | Instance and bounds | What it shows |
| --- | --- | --- |
| `queue` (`MCJobQueue.cfg`, module `JobQueue`) | one officer notice's key, two workers, two rows, two inputs, two attempts, one fault, four of the six outcomes of a failed attempt ("disabled" is in the parked rows' instance; "invalid" ends a row as used-up attempts do) | one active row and one owner per key (`OneActiveRowPerKey`, `KeyHasOneOwner`); the queue implements `KeyedWork` (`KeepsPromise`); every input settles (`EveryInputSettles`) |
| `services` (`MCServices.cfg`) | ledger: four calls of three interactions, two FCs, balances up to 2, two settings changes. Posts: three entries, two workers, two faults. Outages: a day of two ticks, a clock up to 4. Parked rows: three rows and inputs, one worker, no crash (the queue's run has them), two tries of a pass. Gate: three requests, two slots, two attempts, spacing 2, cooldown up to 3, a clock up to 5. Sign-in: two browsers, two sessions allowed, three tokens, a clock up to 3. Status notices: as `status_notices`. Exchanges: three, two at once and two in a window, delays 1 and 3, a clock up to 4. Pages: two requests, two changes of access, a clock up to 3 | accounts add up, races are answered, writes go to the linked FC; posts keep order and completeness, and repeat only after a fault (`PostsFollowAccount`); one notice a day and none stale (`OutagesAreTold`); a row is closed only for newer work (`SupersededByNewer`); what is announced was told (`NoticesAreTrue`); slots, spacing and cooldown hold (`StartsAreAllowed`); sessions are bounded and stay over, exchanges spare Discord (`SignInsAreBounded`); nobody is let through on an old answer (`AccessIsCurrent`) |
| `members` (`MCMembers.cfg`) | menu: one member with two tabs, one officer, one category, two roles, three changes. Links: two concurrent calls, two claims, limits of one, two members and a character or one member and two, with fewer claims and sync choices when both members are linked (`OneOrTheOther`). Nickname: two characters, two edits, four commands, one fault, `Overlaps = FALSE`. Pauses: two calls, two features, a short or an endless length, a clock up to 3. | the menu never binds an access role, answers hold until the row that carries them ends failed, pick-one holds; links are proved and limits hold (`LinksAreProved`); the member's own nickname comes back and is never overwritten unseen (`NicknameIsTheirs`); pauses end only as they should (`PausesHold`) |
| `lease_alerts_gate` (`MCLeaseAlertsGate.cfg`) | an old and a new bot and a migration, two faults; six changes of the server or its settings, `Blips = FALSE`; two requests for one slot, a clock up to 5 | workers only under the lease, code fits the schema (`LeaseIsRespected`); a lost or abandoned lease is given up (`LeaseIsGivenUp`); a lasting episode is told, unless its alert's row ended for good, and no recovery while one is open (`EpisodeIsTold`); every request ends (`EveryRequestEnds`) |
| `overrides_roster` (`MCOverridesRoster.cfg`) | overrides: a category, a child synced with it and a posting channel, two runs, two changes. Roster: an FC of one or four on pages of two, a newcomer, two readers, `WithinBudget` bounds what changes, is read and fails together. Onboarding: six channels in four servers, two bindings, one edit, one stop | children stay synced, a run repairs all, denies stand and stay recorded (`OverridesAreKept`); missing members are looked at again, leave on a second roster only, and observations advance (`AbsencesAreConfirmed`); a finished pass left nothing open, private stays private, no write opens too far (`NothingIsLeftOpen`, `PrivateStaysPrivate`, `WritesAreSafe`) |
| `status_notices` (`MCStatusNotices.cfg`) | one member, two flags, two workers, batches of one, three records or rejoins together, one settings change, one fault | no change is left behind (`ChangesAreSettled`); the safety of the same instance is in `services`, whose part has no fairness to check |
| `guest_access` (`MCGuestAccess.cfg`) | one member from four starts, two applications, two calls, two changes | decisions stand, roles and presence settle, reviews show the outcome; each with the one exception section 6 names |
| `modmail` (`MCModMail.cfg`, module `ModMail`) | one member, one officer, two cases, three messages, three changes, two requests, one open case allowed | texts are kept (`TextsAreKept`), cases end in sight (`CasesEndInSight`), pings and DMs follow (`EventsReach`) |
| `issues` (`MCIssueReports.cfg`) | two fingerprints, two workers, daily caps of one, counts and closed issues up to 2, one fault, three kinds of start (two fingerprints at the caps and no fault left, one fingerprint and a fault, or reports of both waiting on the day its cap was used up, with a fault) | repeats add up (`RepeatsAddUp`), the caps are passed only as they must be (`CapsHold`), every report arrives (`EveryReportArrives`) |
| `roster_once` (`MCRosterOnce.cfg`) | the roster part, one reader | a departure by one roster (section 6) |
| `nickname_toggle` (`MCNicknameToggle.cfg`) | `Overlaps = TRUE`, no edits and no faults | a lost nickname (section 6) |
| `modmail_seen` (`MCModMailSeen.cfg`) | as `modmail` | a skipped DM nobody saw (section 6) |

Four further configurations, each of one property, fail; section 6 lists them.

Why these bounds are enough to reach what each property is about:

- Two rows of one key are what the unique index is about, and two workers are
  what a stale attempt and its successor need. Keys do not interact, since no
  statement of the queue reads rows of two keys. `ParkedWork` needs three rows:
  two parked ones and one enqueued during the pass.
- Three requests with two slots are a holder, a waiter and a newcomer. The clock
  reaches a second start and the end of a cooldown.
- Four characters on pages of two make the list end on a page boundary, where a
  change moves somebody across it; an FC of one character lives long enough
  to be missing, back, and missing again.
- The ledger's three keys with one repeated give two calls that race and one that
  is repeated; three settings changes are a link, an unlink and a link.
- Limits of one or two (claims, sessions, open cases, issues a day) make one more the
  case that is over the limit. `Skew = 1` puts the clock of the process behind the
  database's.
- Members, servers and fingerprints are apart in every statement, so one of each is
  enough but where a cap or a batch counts across them: `IssueReports` has two
  fingerprints, and batches of one make a second batch follow the first.
- A menu of one category and two roles has the pick-one choice, the role that opens a
  channel and the one that does not; two tabs are a page and an older one.
- The four servers of onboarding differ in what is private before the pass: nothing
  but a child, everything, a private category with a shown child, or a shown category
  with a plain child.
- Three records of one member are a change before, during and after a post.
- Every mutant is found within these bounds.

`CHECK_DEADLOCK FALSE` stands where the bounds end the behaviors: inputs, commands
or the clock run out. The lease and the alerts have no such bound on what may happen
next, and `lease_alerts_gate` is checked for deadlock (a gate whose requests are over
rests by a step of its own).

## 4. Fairness

- `JobQueue`: a worker whose claim is running goes on (weak fairness of its
  steps), because every remote call of `dispatch` has a deadline; clocks move;
  and `claim()` orders by `due_at`, so a row that is claimable again and again is
  eventually chosen (strong fairness of its claim). `EveryInputSettles` assumes
  that the guild stays active and that what attempts wait for (another lock, a
  cooldown) becomes free in the end.
- `StatusNotices`, `IssueReports`: the same of the queue's pool, reduced to this job:
  claims are strongly fair, attempts go on, and windows, hours and days end.
  `IssueReports` adds the periodic sweep and that an operator sets a GitHub token
  again. `ChangesAreSettled` is promised while the channel stays set. In both the faults
  are fewer than the eight attempts of a row; `EveryReportArrives` so assumes that GitHub's
  refusals end. An issue that was deleted answers 404 or 410 at every attempt and every
  sweep, and its report never arrives: the model has no such issue.
- `GuestAccess`: Discord's events are handled, queued passes and sweeps run, effects
  that were paused are resumed, reviews are posted and calls end. Nobody has to apply
  or to decide. Passes fail fewer than eight times, and a review's message, once its job
  runs, is posted: what `guest.review` does about a channel that is gone or forbidden is
  left out.
- `ModMail`: a request that was sent gets its lock and commits, and queued pings and
  DMs run. Nobody has to write, to retry a failed row or to requeue a parked one.
- `VisibilityAlerts`: the scheduler passes every 30 seconds, alert and recovery jobs
  are claimed and end, with a post or without, and the window of 24 hours ends.
- `WriterLease`: the check interval, the statement and stop deadlines and TCP
  keepalive always come, a failed start-up always stops (`main.ts` catches it), and a
  migration ends. Nobody is assumed to launch, stop or migrate.
- `LodestoneGate`: the event loop runs resolved promises and every fetch has a
  deadline. The deadline of a request in the queue of waiters is not assumed.
- `NicknameSync` (`FairSpec`, for `SyncConverges`, which no configuration checks now): the
  job of a member runs again (it is retried, and the periodic synchronization enqueues it),
  and a join event is handled.

No other module claims liveness.

## 5. Proofs

TLAPS checks these for any number of keys, workers, rows, inputs and attempts
(the queue), of calls, FCs, interactions and settings changes (the ledger), of bots,
migrations and schemas (the lease), of applications, interactions, starts and changes
(guest access), of members, officers, tabs and roles (the role menu), of channels,
categories, roles, entries, edits and faults (channel security), of channels, entries, roles, settings,
runs and changes (`/setup overrides`), of fingerprints, workers
and limits (issue reports), of members, forms, texts, requests and limits (mod mail), of
workers, entries and faults (ledger posts), notices and times (outages), requests, times and
changes (access to pages), of browsers, sessions, exchanges, limits and windows (sign-ins), and of roles, members, categories and entries (the pure rules).
They assume only the named `ASSUME`s of the modules, which the runs evaluate: what the
constants are, that model values which stand for nobody or nothing differ from the others,
that roles and workers are finitely many, and that at least one worker works.
`SecurityAssumption` says besides that the lobby, the room and the updates channel exist
and are top-level (their loss and moves are left out), that categories have no category,
that a pass knows every managed channel, and that IDs are ordered. `OverridesAssumption` is `Apart` (TaruBot is not @everyone) and `ServerOK`: TaruBot is no
role, and the server `/setup overrides` starts from is one Discord can store, where no entry
of TaruBot's allows and denies the same permission, only a category is a parent, and it has
none itself. The theorems about `Visibility` alone have `Apart` as a hypothesis.

| Theorem | What it says |
| --- | --- |
| `JobQueueProofs!TypeCorrect` | `TypeOK` |
| `JobQueueProofs!OneActive` | `OneActiveRowPerKey` |
| `JobQueueProofs!OneOwner` | `KeyHasOneOwner` |
| `JobQueueProofs!NewestPublished` | a published result is the row's newest input's |
| `JobQueueProofs!ResultsAdvance` | a published result only moves to a newer input |
| `JobQueueProofs!Implements` | `Spec => KeepsPromise`: the queue implements `KeyedWork` |
| `JobQueueProofs!OneActiveBesidePass` | `OneActiveRowPerKey` of `ParkedWork`: also while parked rows are requeued, and whatever fails |
| `JobQueueProofs!NewerWorkWins` | until an answer is lost, a row that no operator touched is closed only for an input at least as new |
| `ServicesProofs!LedgerTypes` | `TypeOK` of `Ledger` |
| `ServicesProofs!AddsUp` | `LedgerAddsUp` |
| `ServicesProofs!Answered` | `RacesAreAnswered` of `Ledger` |
| `ServicesProofs!LinkedOnly` | `WritesLinkedLedger` |
| `GuestAccessProofs!DesiredIsStable` | a second pass over the roles of the first changes nothing |
| `GuestAccessProofs!NothingFromStaleEvidence` | Member never on stale evidence, Guest never after a revocation, never both |
| `GuestAccessProofs!DecisiveByClass` | which memberships and freshness make an outcome decisive |
| `GuestAccessProofs!RepeatedPassChangesNothing` | a pass of `GuestAccess` over the roles of the last has nothing to write |
| `GuestAccessProofs!OneOpenApplication` | one open application; an approval and its grant commit together; Member or Guest, never both |
| `GuestAccessProofs!DecisionsAreKept` | `DecisionsStand`, an action property: only the request that `apply()` replaces may go from superseded to cancelled |
| `SelfRolesProofs!PlanStaysWithinLimit` | a job's additions keep a category within its limit |
| `SelfRolesProofs!MergeBuildsOnWaiting` | a save keeps the waiting change where it says nothing and replaces it where it does |
| `SelfRolesProofs!EditsKeepMenusWellFormed` | every listed role stays in exactly one existing category |
| `WriterLeaseProofs!Respected` | `LeaseIsRespected`: one writer, with code that fits the schema; files are applied while none writes |
| `SelfRolesProofs!MenuIsSafe` | `MenuNeverBindsAccess` |
| `SelfRolesProofs!SavesAreKept` | `AnswersHold`: what was told is held or waits, unless its row ended failed or expired, was skipped or changed by hand |
| `SelfRolesProofs!PicksOne` | `PickOneHolds`, an action property |
| `SelfRolesProofs!LinksStayProved` | `LinksAreProved`: four invariants and an action property of `Verification` |
| `SelfRolesProofs!NicknameStaysTheirs` | `NicknameIsTheirs`: three invariants and an action property, with `Overlaps = FALSE` |
| `SelfRolesProofs!PausesStay` | `PausesHold`, an invariant and an action property |
| `IssueReportsProofs!CapsAreKept` | `CapsHold`, for any limits and any number of workers and faults |
| `IssueReportsProofs!OccurrencesAddUp` | `RepeatsAddUp` |
| `ServicesProofs!RowsYieldToNewer` | `SupersededByNewer`, from `NewerWorkWins` |
| `ServicesProofs!AccessStaysCurrent` | `AccessIsCurrent`: nobody is let through on an older answer than the memo allows |
| `ServicesProofs!PostsStayInOrder` | `PostsFollowAccount`: the channel's order, completeness, and repeats only after a fault |
| `ServicesProofs!OutagesStayTold` | `OutagesAreTold`: two invariants and an action property of the officers' notices |
| `ServicesProofs!StartsStayAllowed` | `StartsAreAllowed`: three invariants and an action property of `LodestoneGate` |
| `ServicesProofs!SignInsStayBounded` | `SignInsAreBounded`: two invariants and two action properties of `WebSessions` and `ExchangeGate` |
| `ServicesProofs!NoticesStayTrue` | `NoticesAreTrue`: what a member's row calls announced was told, and nothing waits without a channel |
| `ModMailProofs!TextsStay` | `TextsAreKept` |
| `ModMailProofs!EndsInSight` | `CasesEndInSight`, action properties |
| `ChannelSecurityProofs!WrittenIsVisible` | the planned entry suffices once Administrator is off |
| `ChannelSecurityProofs!CopyStaysSynced`, `ResumedIsSynced` | a child that copies its category's entry is synced, also after an interrupted run |
| `ChannelSecurityProofs!DeniesStayKept` | denies stand and stay recorded: an invariant and an action property of `Overrides` |
| `ChannelSecurityProofs!OverridesStayKept` | `OverridesAreKept`: `DeniesStayKept` and two invariants of `Overrides` |
| `ChannelSecurityProofs!NeverMoreOpen` | between two writes nobody may do more than before or after all of them |
| `ChannelSecurityProofs!PassKeepsItsAccess` | from its first write on TaruBot can finish the channel |
| `ChannelSecurityProofs!DesiredIsStable` | the policy's entries need no second pass |
| `ChannelSecurityProofs!AudienceSeesIt` | who sees a channel is who its audience names |
| `ChannelSecurityProofs!PassIsSound` | the invariant of a pass of `ChannelSecurity`, with `TypeOK` |
| `ChannelSecurityProofs!LeavesNothingOpen` | `NothingIsLeftOpen` |
| `ChannelSecurityProofs!WritesAndCloseAreSafe` | `WritesAreSafe`: an invariant and an action property |
| `ChannelSecurityProofs!AbsencesStayConfirmed` | `AbsencesAreConfirmed`: three invariants and two action properties of `RosterSync` |

The queue. `IInv` is `TypeOK`, `OneActiveRowPerKey`, `RowsOK` and `AttemptsOK`.
`OneActiveRowPerKey` is inductive only because the statements that make a row
active either insert a row when the key has no active one or are refused by the
index. `KeyHasOneOwner` follows from it: an owner's row is running, hence active.
That a result is the newest input's needs to know what an attempt remembers:
`AttemptsOK` says that an attempt that holds its row's token and sees the row's
generation read the row's payload, and `RowsOK` that what a row last ran is no
newer than its payload. `Published` compares token and generation, so the two
agree when a result is written.

The promise. An item of `KeyedWork` is a row: open while the row is active, owned by
the worker whose token it carries if that worker is busy with it, seen at the payload
the attempt read. Under `IInv`, every statement is one action of `KeyedWork` or
leaves the items as they are: what a worker does between its claim and its result, a
lease that stalls and a stale publication are stutters, and a crash is `Abandon`. The proof has a lemma per group of statements, and each
says what the statement does to the rows before what that means for the items.

Parked work. `ParkedInv` adds three parts to `IInv`. `PassHolds`: what a pass has read
and locked stays parked, and every active row of a survivor's key is closed by the same
pass, so a requeue never meets the index and `IInv` is kept by its statements too.
`InOrder`: rows are numbered by insertion. `NewerWins` is why the pass may go by the rows'
ages although the promise is about payloads: of two unended rows of a key the older is
parked, with a payload that is no newer, because only an active row takes inputs and an
insertion finds none active. That fails once a row comes back that had ended, so the part
is promised per key that no operator retried and until the first fault; section 6 shows
what a fault does. The lemmas about a step say first what it may do to one row (`Moves`),
and one lemma turns that into the invariant for every statement of the queue.

The ledger. `IInv` is `TypeOK`, `LedgerAddsUp`, `RacesAreAnswered` and `CallsOK`.
An entry is computed from what a call has read, so the sum is kept only if that is
still true when it is written. `CallsOK` says why it is: a call past its read of the
settings knows its FC for as long as the revision is unchanged; a call that holds
the locks has the settings and the account as they are; and two calls never hold
the locks at once, since both would be of the linked FC. So the sequence and the
balance it writes extend the last entry, no constraint of the tables can refuse
them, and the FC is the linked one. Of the locks the argument uses two facts: that a
settings change waits for open ledger transactions, and that the account row is
locked by one call.

Ledger posts. `PostsInv` has the types, the two invariants themselves and three facts.
`LeasesHold`: a live lease is that of the worker whose entry it is, and jobs exist just for
the entries recorded so far. `LooksHold`: whoever is past the look at the earlier entries
saw them all succeed, and a succeeded row stays so; that is the whole reason why the order
holds although any number of workers, with and without a lease, may be sending. `NothingLost`
says what is true until the first fault: every worker has its lease, and an entry that was
posted is done or with the worker that posted it, so nobody posts it again.

Rosters. `RosterInv` says of a read (`ReadOK`) that the pages it has are those of the list as
it is, up to the page it asks for next, while the list has changed at most once since the
lock was taken and still has the length that was counted (`Steady`). One change after the
count makes the lengths differ, so the last comparison of counts turns such a read away;
one before it is part of what was counted. That is why only two changes can hide a member.
`PlansOK` is about publication: a plan has the row's lease or nobody has, since a claim
passes over the locked row, so no second plan exists, and what a planner with the lease has
seen is newer than what was accepted. A plan knows linked characters only, and whoever it does
not know is not suspected (a link made meanwhile shows "present" or nothing), so a
publication asks for a second look whenever somebody is missing after it (`SuspectsOK`), and
the row that was asked for while it runs is queued again when it ends.

The Lodestone's gate. `GateInv` says that the queue of slots and the start line list exactly
who waits in them, each once (`LinesOK`), that only the head of the line waits for its
start, and that slots in use and requests that were woken together leave none for who still
waits (`SlotsOK`). A release moves one of the sum to the other, a woken request that
finds the slot taken goes back behind a full house, and one that gives up while it waits
takes its entry with it; so no wake-up is spent on nobody.

Outage notices. `OutageInv` says of every notice's row (`NoticeHolds`) that it belongs to the
outage it was created in and that while it is pending that outage goes on, or its sender had
read it before the end (`late`); only the last row can be pending, which is why one look at
the newest row is enough for one notice a day. That a recovery was announced follows from
the row that `recovered()` found posted.

Status notices. `StatusInv` says per member what was told while a post is on its way
(`MemberHolds`). A flag that the frozen entry changes was told as the entry has it once the
batch was shown: delivered, remembered by its nonce, or with a worker that is about to
deliver or mark it (`BatchShown`). Every other flag was told as announced, except one
that was never known, whose first value is taken without a word. That is inductive for three
reasons. Batches are numbered, so the entries an attempt sends are those of the rows that
still carry its number (`TellerHolds`), however often another worker resumes it. A member
who rejoined meanwhile has another `joined`, so the mark leaves the new baseline alone. And a
decided flag has two values: one that moved off the entry's old value already has its new
one, so the mark agrees with what was told. Faults cannot break it: a lapsed lease or a lost
answer leaves the batch frozen, and sending it again tells the same.

Access to pages. `ActorsInv` follows an answer from the resolution that reads Discord to
whoever uses it: a "yes" is good until `MemoFor` after the user was last seen to be a
member (`GoodAt`). The memo holds one that was good when it was stored (`MemoHolds`), a
request that waits for another's resolution may use its answer (`WaitHolds`), and a request
that resolved for itself had the member at some moment since it began (`RequestHolds`).

Mod mail. `Inv` has the types and, per case, page, request and text: a case that nobody
opened has no revision and only a closed one a deletion date (`CaseOK`); a revision that
someone was shown is no newer than the case's, and while it is the case's they saw every
entry of the thread (`Current`, of a page and of a form in flight); what a request counted
under the member's lock still bounds their open cases, since no other request holds that
lock (`LockOK`). Closing compares revisions in the transaction that closes, so by `Current`
the closer saw the whole thread.

The lease. `IInv` is `TypeOK` and `LeaseOK`. That workers run under the lock is not
inductive: a bot has to be known to hold it from the grant on, through the second look at
the schema, the login and the start-up, until its release, unless its session was cut
(`Holds`). `Drains` ties the workers to the stages of a shutdown, so that nothing works
after the release; `Fits` says that whoever has passed the second look and still has the
lock was built for the schema of now, which holds since only the process with the lock
moves the schema (`Applies`). One lemma (`BotStep`) covers every step of one bot that
leaves the schema alone: the lock comes to a bot only when nobody has it and goes only
from the bot that stepped, so the other bots' parts stand.

Guest access. `Inv` has the types and five facts: one application is pending at most
(`OnePending`), one that a revocation passed over is not pending (`NoneBarred`), an
application is approved exactly when its grant exists (`GrantsMatch`), what a pass
is about to write is Member or Guest, never both (`AsksForOne`), and the request that a
call is about to replace is still pending, or a pass has superseded it since the call read
it, and then none is open (`FilingOK`). The proof reduces every action to what it does to
applications: `Files` adds a pending one and closes the one its call read, `Approves` and
`Closes` settle pending ones, and `Revokes` closes and bars in one step. That is why a
decision stands: whoever settles an application looks at its state in the transaction that
changes it. `apply()` alone does not, and `FilingOK` says why only a superseded one can suffer:
every other settlement waits for the member's row, which the call has locked since before its read.

Channel security. `Inv` is `TypeOK` and five facts. `Ownership`: the row runs just while
an attempt holds it, and a pass knows the access roles as long as the revision is the one
it read. `Finished`: what verification found stays so until an event is on its way, a new
pass is queued or the settings change; with the row's end this is `NothingIsLeftOpen`.
`OnCourse`: what is left of a pass are channels that exist, the lobby first and the
default second. `InWriting`: a channel that nobody else touched holds exactly `After`, its
old entries with the writes so far, and the writes that are left are the last ones in the
order of `overwriteWrites()` (`InTurn`). From the order follows what `WritesAreSafe` says:
while a closing write is left every entry is the old one or below it, and afterwards the
new one or below it; and TaruBot's own entry is written before any other.
`BehindTheLobby`: once the lobby's turn is over it is as desired unless someone else
touched it, and the updates channel answers for @everyone itself when the default closes.
The histories matter here: a fresh read before the default closes (`Refresh`) looks at the
updates channel again but not at the lobby, so it forgets only that others changed the
former (`meddled`), and one of the others' edits hides the lobby.

The role menu. `IInv` has the types, `EditsOK` (what a form in flight names),
`MenuNeverBindsAccess`, and per member five parts. `RowOK` ties the job's row to its
attempt: a row runs just while an attempt works for it, and an attempt without a newer
choice works on the row's. `SavesOK`: what a save has read of the member is still true, or
something of theirs waits, ended lately, or the role moved in Discord meanwhile - the
three things the commit looks at before it answers that nothing changes. `ToldOK`: what
the member was told of a role is what the waiting row asks of it, or what they hold when
it says nothing of it; a row that ends failed takes what was told of its roles with it.
`PlanOK`: what an attempt neither has to write nor left alone is as
the member was told, so nothing is missing when it ends. `OneOK`: of a pick-one category
an attempt adds one role at most, and others the member holds are to be removed first. A
step of one member's leaves the other members' parts alone (`OneMember`), and each action
is one lemma.

Claims and links. `LinkInv` is the types, `MainIsLinked`, `ClaimsBounded` and what a call in flight
knows (`LinkCallOK`). A biography shows only claims given to whoever may edit it (`Given`),
so a call that finds one there works for the controller. What a call read under its
locks is still so when it writes, because no two calls hold a member's row, a
character's row or the lock of claims (`Apart`); this is why no insertion meets a unique
index, and why a link overrules no choice. `Counts` are the valid claims at the start of
a call's transaction, less those it replaces: they include every claim valid now, so the
limits that were looked at bound what is valid after the insertion. And `LinkWorld` says
that a recorded proof consumed its claim in time, so a claim is used once.

Nicknames. `NickInv` says of the row (`NickHolds`) that a nickname of the bot's is known as such,
as the last one written or the one being written, with the member's own to come back to,
and that somebody still has to change it (`Wants`): a restore is asked for, or sync shows
a main character. No command ends that: what stops the one asks for the other, and so while
it holds no command resets what was recorded. That is why what an attempt read is
still so when it announces its write (`NickAttempt`), why the nickname it replaces is its own
or the recorded one, and why an answer that was lost is recognized. `NickUntouched` is the
rest: until somebody edits the nickname, nothing an attempt sees looks like an edit.
`/nickname` before a restore has run and a join in the middle of an attempt do reset it;
they are the divergence of section 6, and `Overlaps = FALSE` leaves just them out.

Pauses. `PauseInv` has the types and that a call's time, the start of its transaction, is
not after now: what is active now was active then, so the check of the caller's level saw
it. A feature that only managers may pause has no moderator's row.

Sign-ins. A sign-in counts the others at its transaction's start, which may be before now;
but what is live now was live then, so the sessions it keeps and the new one include all that
are live after it. That it keeps at most the limit less one is `FewNewerFew`: count from the
oldest of the kept, which all the others are newer than. No session comes back since a touch
looks at the row it changes and a token is handed out once. The gate's windows begin with an
exchange, so two of them that are not neighbours have a whole window between them: `Rates`
says so of each recorded exchange and the window in force, and more than twice the limit of
exchanges do not fit into neighbours. The history is the list of the times exchanges began;
a sum over a stretch of time, as the property was first written, would need induction.

Issue reports. The caps are counted over finished rows, so what they bound has to be
said of all that is not finished. `AllowanceOK`: finished rows and the workers let past
the cap are together no more than the limit and all workers but one, since the one let past
last saw the finished rows below the limit. `PostsOK`: whatever was posted today is
counted, will be when its worker's row succeeds (`Counting`), or was made by a worker
that had lost its row (`Stray`), and a fault takes at most one row of every worker away.
Without faults a worker has the row of its fingerprint and no two workers have the same
one (`OneEach`); so between a post and its update GitHub is ahead of the table by just that
attempt, otherwise they agree (`ToldOnce`), and an attempt that will open an issue knows
that none of its fingerprint is open (`ReadOnce`).

Overrides. Three invariants carry the two theorems. `ServerHolds` and `DeniesHold` are about
denies. While a run is active its copy `run.snap` has every channel that exists, and a deny
that is on record was in the record the run read (`run.before`) and is in what it will record
(`run.known`): either the run could not look at that channel, so the record stands, or it
saw the deny. A channel a run is about to write was not denied when it read that one, since a
denied channel is no target. A PUT on a category is the one step where this is delicate:
Discord copies the new entry to the children that were synced, so a deny that somebody set on
child and category alike after the run looked at them goes, with the category's own. The
history variable `judged` gives those up and no others; the first attempt at the proof showed
that without that it claimed too much, which the instance, then bounded tighter, did not
reach.

`SyncHolds` is why children stay synced. A category that only TaruBot has written carries
either no entry of its own or the full one a run writes (`Carries`), and a child nobody else
touched is synced with it or behind it by just that entry (`Behind`). Each state of a run then
says who will repair a child that is behind: it has its turn to come and the category lends it
the entry (`LendsHold`, `TurnsHold`), because this run wrote the category or because the fresh
read shows an entry that `resumeInherit()` recognizes, or the child was skipped. The
recognition needs that the category had no TaruBot entry before: `resumeInherit()`
compares the child with the category without the entry. So `untouched`
starts with the channels that have none; a channel that had one is outside the promise, and
the code's comment claims no more (`visibility.ts:1133-1146`).

`RepairHolds` is why one run is enough. In an undisturbed run what was read is still what
is there, but for the categories it wrote and what Discord copied (`Repairing`), and every
channel without a turn to come is one the plan would not write now (`Resolved`). A write
resolves its channel by `WrittenIsVisible`. That it leaves the others resolved, and that
Discord's copies resolve the children they reach, is the larger part of the proof: a channel
without an entry of TaruBot's takes its state from its category, and a category nobody may
write keeps its children from being written.

The rules. `NeverMoreOpen` rests on one lemma about Discord's algorithm: permissions
grow with allow bits and shrink with deny bits, entry by entry. The meet of two
entries is below both, so a channel of which some entries are met and some final is
below the channel before or after. `OwnEntrySuffices` shows that TaruBot's own entry,
once as desired, keeps it able to manage the channel whichever of the other entries are
old, met or new. `PlanStaysWithinLimit` shows that whatever a member
holds in a category after a plan is among what the plan counted there: a role it had
to remove for that is removed, since only roles outside the menu are untouchable. The
theorems of `AccessPolicy` go over the classes of membership.

Only model-checked: all liveness, since TLAPS reasons neither about fairness nor
about ENABLED, and the safety of the state machines the table does not name. Of
`ChannelSecurity` it is `PrivateStaysPrivate`, which relates what was private when a
channel appeared to what the settings of a later moment show: a role may be staff under
one binding and a member's under another, and a proof would have to follow every entry
such a role has kept. It cannot hold for every value of the constants either: a channel
that somebody makes in the middle of a category's writes, with entries of its own that
happen to be what the category has at that moment, counts as synchronized and is opened
with it. The instance's new channels are not made so, and the code has nothing to tell
the two apart. Nothing
here needs induction over data, which is out of the provers' reach as well: sums and
histories are stated from one element to the next, and no module declares a
recursive operator.

## 6. Divergences

Where the code and what the repository says of it disagree, found while
modelling:

1. A member can leave an FC by one roster (`roster_once`). A link committed between
   the plan of a roster and its publication is seeded from the previous roster by
   `seedFreshLink()`; the publication (`synchronization.ts:366`) then moves it by a
   state it read before. `site/src/content/docs/architecture/access-and-sync.md:49`
   promises two rosters at least 60 seconds apart.
2. A nickname can be lost (`nickname_toggle`). Turning sync on (`service.ts:2168`)
   forgets the recorded nickname while a restore is still to run and the bot's name
   is still shown. `site/src/content/docs/use/characters-and-nicknames.md:26`
   promises the nickname back. The same happens around a join whose event is
   handled in the middle of an attempt; `Overlaps = FALSE` leaves both out of the
   passing run, so that the rest of what restores promise is still checked.
3. A reply's DM can be skipped although the member never saw the reply
   (`modmail_seen`). `skip()` (`modmail.ts:1589-1609`) compares the member's last view
   with the reply's `created_at`, which is the start of its transaction; a view between
   that start and the commit counts as having seen it. `modmail.ts:1581` says that the
   DM is left out for what "the member has already seen".

Four further configurations, each of one property, show smaller ones:

- `MCJobQueueEnds.cfg` (module `JobQueue`, `EndsOnNewestInput`): the failure update
  of `perform` (`queue.ts:651`) compares the token but not the generation, so an input
  that arrives during an attempt that ends in a terminal failure, or finds its subject
  gone, ends with it. `src/application/modmail.ts:358-361` and `docs/PERSISTENCE.md:95`
  rely on an event that reaches a running row being run.
- `MCParkedLinks.cfg` (module `ParkedWork`, `MovedLinkGainsHolder`): the two statements
  that move links have their own snapshots, so a holder that another transaction
  committed between them loses the link that the comment at `queue.ts:257-258` says it
  takes over.
- `MCWriterLeaseHand.cfg` (module `MCLeaseAlertsGate`, `HandsOverAfterWriting`): a stop
  during the start-up transaction releases the lease (`lifecycle.ts:550`) before that
  transaction has ended, while the comment at `lifecycle.ts:553` says it is handed over
  afterwards.
- `MCIssuesCap.cfg` (module `IssueReports`, `IssuesWithinCap`): the day's number of
  automatic issues is counted before the issue is opened and recorded after it, so two
  workers can open one more than `AUTO_ISSUES_PER_DAY` of `domain/reports.ts` allows. With
  more workers or faults it is more: `CapsHold` says how much at most, and is proved.

Four more are exceptions that a passing run's property names; without the exception TLC
finds the property violated under the same configuration.

- A superseded application can become cancelled. `apply()` selects the pending request
  without a lock on it and cancels it by id without looking at its state
  (`service.ts:2765-2781`); the pass's update (`synchronization.ts:1057`) does not wait for
  the member's row and may commit in between. `DecisionsStand` without `Replaced` fails
  within nine states.
- A pass closes the applications it makes needless in one statement and queues their
  redraws in others (`synchronization.ts:1056-1076`), each committed by itself. When it
  stops in between, the retry finds nothing pending, and the message keeps the buttons of a
  closed request. `site/src/content/docs/reference/replies.md:147` says that once decided the title
  says so "and the buttons are disabled". `ReviewsShowOutcome` without `cut` fails.
- `ensureAlert()` (`visibility-alerts.ts:233-244`) counts every row of the episode that was
  not skipped. One that failed eight times, or whose channel was gone
  (`queue.ts:445-447`), counts too, so an episode that lasts is never told. `EpisodeIsTold`
  without "lost" fails within ten states.
- The end of a failed row takes with it what reached the row during its last attempt, as
  in `MCJobQueueEnds`: a member's later choice of roles, which the page then shows as failed
  (`self-roles.ts:486`; `AnswersHold`), a recovery's line, and an event of mod mail, where
  a DM that Discord refuses ends its row at the first attempt. A ping is also
  dropped while no officer channel is set (`modmail.ts:1586`). `EventsReach` names these.

What the models had to take as it is, and a reader of the code may want to know:

- A post of an automatic report whose row does not succeed (the process stops between
  the post and `perform`'s update, or the lease has lapsed) is not counted against the
  day's cap (`issue-reports.ts:652-670` counts succeeded rows), and a restart does that
  to every worker at once. So the bound of `CapsHold` grows by the number of workers per
  fault.
- `retryJob()` (`queue.ts:354`) may revive a failed row while a newer row of its key is
  parked, and the next pass then closes the newer one in its favour, since the active
  row wins (`queue.ts:162-164`). It may also run an older input after a newer row
  has published. `SupersededByNewer` is promised for keys no operator has touched.
- The failure update of `perform` compares only the token (`queue.ts:651`), which a
  completion leaves in the row (`queue.ts:619`). When a completion is committed and its
  answer is lost, the update that follows puts the row back to `queued` or `failed`, and
  once it is parked again a pass may close a newer row in its favour: with one fault
  (`MaxFaults = 1`, `MaxAttempts = 2`) TLC finds `SupersededByNewer` broken in 15 states.
  The run has no faults, and the theorem says "until an answer is lost".
- `dropStatus()` (`status-notices.ts:306`) drops what waits without reading the channel
  again, so a channel set meanwhile hears nothing of it. `StatusNotices` assumes that
  Discord remembers a nonce at least as long as an attempt that sends under it lasts.
- The handlers of a leave and a join run side by side and may commit in either order
  (`guild-events.ts:28`); `guild()` reads the member list before its transaction and may
  put an older `joined_at` over a newer one (`synchronization.ts:724`). The sweep repairs
  both, and `PresenceSettles` says so. `endLink()` sets `local_member_loss` whenever no
  confirmed link remains, and nothing clears it (`service.ts:2062`).
- A save that equals the choice of the running row is answered "saved" without a new
  generation (`self-roles.ts:907`), and a planned removal that a fresh view refuses does
  not hold back the addition it was to make room for (1029-1036); `PickOneHolds` names
  that exception.
- A run of `/setup overrides` that loses Administrator during its fresh reads can end as
  if nothing were to do (`overrides.ts:542`), and one that is stopped while the gateway
  lags can drop from the recorded set a channel that only a fresh read had found hidden
  (520-526). `Overrides` starts a run when the gateway has caught up with what it can read.
- When the officer channel is unset and set again between two passes, the process's own
  memory of the alert (`visibility-alerts.ts:386-390`) outlives the alert's row, and no
  new one is queued until a restart. `Blips = FALSE` leaves this out of the run.
- A write of one entry resends all its bits from the last fresh read, so another
  person's change of other bits of the same entry in that moment is lost; Discord's own
  sync of a category can show a staff child until its entry is written
  (`channel-access.ts:206`); and a channel created in an ordinary category between the
  closing and the opening writes of an interrupted pass is remembered as private by the
  next (`guild-access.ts:78`), which `PrivateStaysPrivate` excuses (`given`).
- A call's times are its transaction's start, and it may wait for the person's lock
  after that: a call that started earlier can replace a pause written by one that
  started later, and that row then ends before it began. `Waited` bounds the wait by
  the shortest pause.
- The memo of actors is replaced when a resolution starts (`access.ts:154`), so a slow
  request's "no" may be followed by a page served from a resolution that started later
  and ended earlier. `AccessIsCurrent` states what holds: an answer is no older than
  the memo allows.

## 7. What is not modelled

- HTML parsing and selectors, presenters, views, styles, commands, metrics and logging:
  pure functions or I/O without a protocol. They are the larger part of the repository's
  lines.
- `DiscordGateway.nickname()` compares and then writes; the model takes the two as
  one step, so an edit between them is not seen. The server owner is left out.
- Rights of callers, audit rows and the text of answers, in all services.
- The member of an imported account (`Imported`) is a parameter of `Verification`
  that the instance leaves empty.
- In `RosterSync` the instance has one newcomer, and the FC's own page, read before
  and after the list for its count, is one read each.
- `ModMail`: the limit of five cases a day, signing and names, coalescing delays, list
  pages, the cipher, and the prerequisites of the switch.
- `RoleMenu` and `SelfRoles`: documents no build can read, acknowledgements, texts and
  the order of display.
- `IssueReports`: bodies, redaction, labels, the limits of `/issue`, and issues that were
  deleted at GitHub.
- `GuestAccess`: review messages that cannot be posted, and their threads.
- `ChannelSecurity`: choosing and creating rooms, moving the lobby out of a category,
  deleted channels, reading the roles, paused effects.
- `WebSessions`, `WebActors`: the handshake and its cookie, form tokens, the age of a
  sign-in, page budgets, and the order of sessions made in one instant.
- `Moderation`: closed rows, reasons, lists, the row of `guild_users`.
- Sync runs, but for the links of their rows; activation, setup and role layout;
  suggestions and changelog posts; public status, heartbeat and dashboard; import and
  operations scripts; the GitHub client. Each is one transaction, one send or one read.

## 8. Plan

Done, in this order: the queue and its proofs, parked work, the writer lease, the
Lodestone gate, roster synchronization, outage notices, the ledger with its posts and
its proofs, verification, nicknames; then status notices, the access policy and guest
access, mod mail, the role menu and its job, overrides and alerts, the abstract queue
with its refinement and proof, issue reports, channel security, the web's sessions,
gate and memo, and pauses; then the proofs about the lease, the role menu, issue
reports, guest access and channel security, and those about mod mail, the ledger's posts,
outage notices, access to pages, parked work, status notices, links, nicknames, pauses,
rosters, the Lodestone's gate and sign-ins, and that a run of `/setup overrides` keeps what it promises.

Next:

1. `SyncRuns`: a run's progress over its rows, on top of `ParkedWork`.
2. Activation and setup as a plan that is refused when the server has changed.
3. `MCGuestAccess` with two members, for what a sweep does to one while it reads another.
