----------------------------- MODULE MCServices -----------------------------
(***************************************************************************)
(* One run for Ledger, LedgerPosts, OutageNotices, ParkedWork, LodestoneGate,   *)
(* StatusNotices, WebSessions, ExchangeGate and WebActors.  part says which    *)
(* of them a behavior is about; the others stay in one initial state.          *)
(***************************************************************************)
EXTENDS Ledger, FiniteSets, TLC

CONSTANTS
  c1, c2, c3, c4, k1, k2, k3,   \* calls and keys; the last two calls repeat a key
  MaxEntries, PostFaults,       \* bounds of LedgerPosts
  OutageHorizon,                \* bound of OutageNotices
  Requests, Concurrency, Attempts, Spacing, CooldownBase, CooldownMax, RetryAfterMax, Hints,
  GateHorizon,                  \* LodestoneGate, and its bound
  None,                         \* no session, no memo
  Tries,                        \* concurrent sign-ins, and page requests
  Browsers, SessionTokens, SessionsPerUser, SessionIdle, SessionAbsolute, SessionTouch,
  SignInLimit, SignInWindow, SessionHorizon,    \* WebSessions, and its bound
  ExchangeIds, ExchangeLimit, ExchangeWindow, ExchangeConcurrency, ExchangeDelays,
  ExchangeHorizon,              \* ExchangeGate, and its bound
  PostWorkers, Nobody,          \* workers of the ledger channel's jobs, no live lease
  Hold, Day,                    \* DEGRADED_HOLD_SECONDS, DEGRADED_REPEAT_SECONDS
  Users, Flags, Observations, Departures, Channels, NoChannel,
  BatchSize,                    \* StatusNotices, told by PostWorkers
  MaxRecords, MaxJoins, MaxSettings, StatusFaults,   \* and its bounds
  MemoFor,                      \* ACTOR_MEMO_MS
  ActorHorizon, ActorChanges    \* bounds of WebActors

CallKeys == (c1 :> k1) @@ (c2 :> k2) @@ (c3 :> k3) @@ (c4 :> k3)
Tried == {[op |-> "initialize", amount |-> 1], [op |-> "deposit", amount |-> 1],
          [op |-> "withdraw", amount |-> 1], [op |-> "adjust", amount |-> 2]}
\* Flags that show as one access level; an observation may leave them open.
Sees(m, g, decisive) ==
  [f \in {"member", "guest"} |-> [value |-> IF f = "member" THEN m ELSE g, decisive |-> decisive]]
MCObservations == {Sees("yes", "no", TRUE), Sees("no", "yes", TRUE), Sees("unset", "yes", FALSE)}
Symmetric == Permutations(FCs) \cup Permutations(Tries)

VARIABLES
  part,
  recorded, status, lease, worker, channel, active, posts, skipped, faults,
  now, tried, since, failing, server, notices, recoveries,
  jobs, pool, asked, owner, rowFaults, pass, links, retried,
  time, req, slots, waiting, line, lastStart, coolUntil, strikes, lost,
  memberRow, joins, officers, effects, statusJob, teller, delivered, remembered, told, spent,
  hour, rows, used, cookie, signIn, signIns, instant, running, paused, rate, begged, begun,
  moment, member, request, memo, lastMember, changed
postVars == <<recorded, status, lease, worker, channel, active, posts, skipped, faults>>
outageVars == <<now, tried, since, failing, server, notices, recoveries>>
rowVars == <<jobs, pool, asked, owner, rowFaults, pass, links, retried>>
gateVars == <<time, req, slots, waiting, line, lastStart, coolUntil, strikes, lost>>
statusVars == <<memberRow, joins, officers, effects, statusJob, teller, delivered, remembered,
                told, spent>>
sessionVars == <<hour, rows, used, cookie, signIn, signIns>>
exchangeVars == <<instant, running, paused, rate, begged, begun>>
actorVars == <<moment, member, request, memo, lastMember, changed>>
webVars == <<sessionVars, exchangeVars, actorVars>>

Posts == INSTANCE LedgerPosts WITH
  Entries <- MaxEntries, Workers <- PostWorkers, MaxFaults <- PostFaults
ASSUME PostsAssumption == Posts!ConstantsOK
Outage == INSTANCE OutageNotices WITH guild <- server, Horizon <- OutageHorizon
ASSUME OutageAssumption == Outage!ConstantsOK

\* Rows of one key, a worker, and a pass for the statuses the callers name.
Rows == INSTANCE ParkedWork WITH
  Keys <- {"notice"}, GuildKeys <- {"notice"}, Fenced <- {}, Notices <- {}, Workers <- {"w"},
  NoWorker <- "no worker", Errors <- {"blocked", "disabled"}, MaxJobs <- 3, MaxInputs <- 3,
  MaxAttempts <- 1, MaxFaults <- 0, Resumes <- {{"disabled"}, {"disabled", "blocked"}},
  RequeueAttempts <- 2, worker <- pool, guildActive <- owner, faults <- rowFaults
ASSUME RowsAssumption == Rows!ParkedConstantsOK

\* Three requests for two slots; a 429 hints nothing or more than the limit.
Gate == INSTANCE LodestoneGate WITH
  Horizon <- GateHorizon, now <- time, active <- slots, failing <- lost
ASSUME GateAssumption == Gate!ConstantsOK

\* A member who may leave and come back, and two workers who tell the officers.
Status == INSTANCE StatusNotices WITH
  Workers <- PostWorkers, MaxFaults <- StatusFaults, row <- memberRow, channel <- officers,
  job <- statusJob, worker <- teller
ASSUME StatusAssumption == Status!ConstantsOK

\* Two browsers of one user, who may have two sessions and has one; two sign-ins at once.
Sessions == INSTANCE WebSessions WITH
  Calls <- Tries, Tokens <- SessionTokens, PerUser <- SessionsPerUser, Idle <- SessionIdle,
  Absolute <- SessionAbsolute, Touch <- SessionTouch, Horizon <- SessionHorizon,
  now <- hour, call <- signIn
ASSUME SessionsAssumption == Sessions!ConstantsOK

\* Three exchanges, two at a time and two in a window; a 429 names a short or a long delay.
Exchanges == INSTANCE ExchangeGate WITH
  Exchanges <- ExchangeIds, Limit <- ExchangeLimit, Window <- ExchangeWindow,
  Concurrency <- ExchangeConcurrency, Delays <- ExchangeDelays, Horizon <- ExchangeHorizon,
  now <- instant, asked <- begged
ASSUME ExchangesAssumption == Exchanges!ConstantsOK

\* Page requests of one user, whose access is lost and comes back.
Actors == INSTANCE WebActors WITH
  Requests <- Tries, Horizon <- ActorHorizon, MaxChanges <- ActorChanges,
  now <- moment, changes <- changed, req <- request
ASSUME ActorsAssumption == Actors!ConstantsOK

PartsInit ==
  /\ part \in {"ledger", "posts", "outages", "rows", "gate", "status", "sessions", "exchanges",
               "actors"}
  /\ Init /\ (part = "ledger" \/ \A k \in Keys : input[k].op = "deposit")
  /\ Posts!Init /\ Outage!Init /\ Rows!ParkedInit /\ Gate!Init
  /\ Status!Init /\ Sessions!Init /\ Exchanges!Init /\ Actors!Init
Moves(name, A) == part = name /\ A /\ UNCHANGED part
PartsNext ==
  \/ /\ Moves("ledger", Next)
     /\ UNCHANGED <<postVars, outageVars, rowVars, gateVars, statusVars, webVars>>
  \/ /\ Moves("posts", Posts!Next)
     /\ UNCHANGED <<vars, outageVars, rowVars, gateVars, statusVars, webVars>>
  \/ /\ Moves("outages", Outage!Next)
     /\ UNCHANGED <<vars, postVars, rowVars, gateVars, statusVars, webVars>>
  \/ /\ Moves("rows", Rows!ParkedNext)
     /\ UNCHANGED <<vars, postVars, outageVars, gateVars, statusVars, webVars>>
  \/ /\ Moves("gate", Gate!Next)
     /\ UNCHANGED <<vars, postVars, outageVars, rowVars, statusVars, webVars>>
  \/ /\ Moves("status", Status!Next)
     /\ UNCHANGED <<vars, postVars, outageVars, rowVars, gateVars, webVars>>
  \/ /\ Moves("sessions", Sessions!Next)
     /\ UNCHANGED <<vars, postVars, outageVars, rowVars, gateVars, statusVars, exchangeVars, actorVars>>
  \/ /\ Moves("exchanges", Exchanges!Next)
     /\ UNCHANGED <<vars, postVars, outageVars, rowVars, gateVars, statusVars, sessionVars, actorVars>>
  \/ /\ Moves("actors", Actors!Next)
     /\ UNCHANGED <<vars, postVars, outageVars, rowVars, gateVars, statusVars, sessionVars, exchangeVars>>
PartsSpec ==
  PartsInit
  /\ [][PartsNext]_<<part, vars, postVars, outageVars, rowVars, gateVars, statusVars, webVars>>

\* The channel keeps the account's order, loses no entry, and repeats one only after
\* a fault (LedgerPosts).
PostsFollowAccount ==
  part = "posts" => Posts!PostedInOrder /\ Posts!DoneIsPosted /\ Posts!RepeatedOnlyAfterFault
\* Officers are told once a day, of the outage of that moment, and of an end only
\* when they heard of a beginning (OutageNotices).
OutagesAreTold ==
  /\ [](part = "outages" => Outage!OneNoticeADay /\ Outage!RecoveryWasAnnounced)
  /\ Outage!NoStaleNotice
\* A row is closed only for newer work of its key (ParkedWork).
SupersededByNewer == part = "rows" => Rows!SupersededByNewer
\* What is recorded as announced was told, and nothing waits for a channel that is not
\* set (StatusNotices).
NoticesAreTrue == part = "status" => Status!AnnouncedIsTold /\ Status!NothingKeptUnset
\* Slots are bounded, no free one is left unused, and a request starts only when
\* spacing and cooldown allow it (LodestoneGate).
StartsAreAllowed ==
  /\ [](part = "gate" => Gate!TypeOK /\ Gate!ParsesBounded /\ Gate!NoWakeupLost)
  /\ Gate!StartsAreAllowed
\* A user's live sessions stay within the limit and never come back (WebSessions), and
\* exchanges keep to the delays that Discord names and to their rate (ExchangeGate).
SignInsAreBounded == Sessions!SessionsAreBounded /\ Exchanges!DiscordIsSpared
\* Nobody is let through on an older answer than the memo allows (WebActors).
AccessIsCurrent == part = "actors" => Actors!AccessIsCurrent
=============================================================================
