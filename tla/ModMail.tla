------------------------------- MODULE ModMail -------------------------------
(***************************************************************************)
(* Mod mail cases of src/application/modmail.ts: opening, replying, closing  *)
(* and reopening from forms that may be sent twice or from a stale page, the *)
(* pings and DMs that follow, and retention.                                *)
(*                                                                         *)
(* A request is sent (its transaction starts, which fixes now()), holds its  *)
(* locks, and commits.  A case and a message are named by the IDs minted     *)
(* with their forms; texts stand for what encryption stores.  The limit of   *)
(* five cases a day, signing, names and the coalescing delays are left out.  *)
(***************************************************************************)
EXTENDS Integers, Sequences, FiniteSets

CONSTANTS
  Members, Officers,
  Cases,        \* IDs minted with the opening forms
  Messages,     \* IDs minted with the reply forms
  Texts,
  Requests,     \* requests that run at the same time
  None,         \* no case, member or text
  MaxOpen,      \* MODMAIL_LIMITS.openCases
  MaxMessages,  \* MODMAIL_LIMITS.messagesPerCase
  MaxChanges    \* bound: requests, views, switches and faults, all together

ConstantsOK ==
  /\ None \notin Members \cup Officers
  /\ MaxOpen \in Nat \ {0} /\ MaxMessages \in Nat \ {0} /\ MaxChanges \in Nat
ASSUME ModMailAssumption == ConstantsOK

VARIABLES
  cases,     \* modmail_cases
  thread,    \* modmail_messages of each case, oldest first
  settings,  \* modmail_settings.enabled, and whether an officer channel is set
  requests,  \* requests in flight
  pages,     \* case pages people have open
  read,      \* when its opener last viewed each case, in modmail_reads
  jobs,      \* the ping and the DM of each case
  shown,     \* ghost: rows its opener has been shown
  told,      \* ghost: texts whose sender was told they are saved
  spent      \* changes so far, which also tells the time

vars == <<cases, thread, settings, requests, pages, read, jobs, shown, told, spent>>

Actors == Members \cup Officers
States == {"officers", "member", "closed"}
Spend == spent < MaxChanges /\ spent' = spent + 1
Now == spent + 1

NoRequest == [kind |-> "none", stage |-> "none", by |-> None, case |-> None, id |-> None,
              text |-> None, revision |-> 0, saw |-> 0, at |-> 0, open |-> 0]
NoPage == [stage |-> "none", revision |-> 0, rows |-> 0]
Unopened == [state |-> "none", opener |-> None, revision |-> 0, due |-> "never", own |-> FALSE]
\* lost is a ghost: the rows there when a row ended, or was dropped, without being sent.
NoJob == [status |-> "none", newer |-> FALSE, covers |-> 0, done |-> 0, lost |-> 0]

Exists(c) == cases[c].state \in States
Open(c) == cases[c].state \in {"officers", "member"}
\* counts(): the member's cases that are not closed.
OpenCases(m) == Cardinality({c \in Cases : Open(c) /\ cases[c].opener = m})
\* sideIn() and afterReply(): the opener is the member side, even an officer.
Side(c, by) == IF cases[c].opener = by THEN "member" ELSE "officer"
Row(kind, side, id, text, at) == [kind |-> kind, side |-> side, id |-> id, text |-> text, at |-> at]
Rows(c, P(_)) == {i \in 1 .. Len(thread[c]) : P(thread[c][i])}
Latest(c, P(_)) == LET at == Rows(c, P) IN IF at = {} THEN 0 ELSE CHOOSE i \in at : \A j \in at : j <= i
OfficerRow(r) == r.side = "officer" /\ r.kind # "reopened"
MemberRow(r) == r.side = "member" /\ r.kind = "message"

-----------------------------------------------------------------------------
(* Notifications *)

\* Mutant: a running job is left alone.
NotifyQueued(j) == IF j.status = "none" THEN [j EXCEPT !.status = "queued"] ELSE j

\* notify(): one active job per case and kind; a running one runs again, and one that
\* waits or is parked reads the case when it runs.
Notify(j) ==
  IF j.status = "none" THEN [j EXCEPT !.status = "queued"]
  ELSE IF j.status = "running" THEN [j EXCEPT !.newer = TRUE] ELSE j
Queue(kind, c) == jobs' = [jobs EXCEPT ![kind][c] = Notify(jobs[kind][c])]

\* skip(): a viewed case needs no DM, nor does one no officer wrote in; without an
\* officer channel no ping is saved for later.
Seen(c) == \A i \in Rows(c, LAMBDA r : r.side = "officer") : read[c] >= thread[c][i].at
NoChannel(kind) == kind = "ping" /\ ~settings.channel
Skipped(kind, c) == ~Exists(c) \/ (kind = "dm" /\ Seen(c)) \/ NoChannel(kind)

\* The dispatcher's two steps: skip() and the reads of ping() or dm(), then the send.
JobReads(kind, c) ==
  /\ jobs[kind][c].status = "queued"
  /\ jobs' = [jobs EXCEPT ![kind][c] =
       IF Skipped(kind, c)
       THEN [@ EXCEPT !.status = "none", !.lost = IF NoChannel(kind) THEN Len(thread[c]) ELSE @]
       ELSE [@ EXCEPT !.status = "running", !.newer = FALSE, !.covers = Len(thread[c])]]
  /\ UNCHANGED <<cases, thread, settings, requests, pages, read, shown, told, spent>>
JobSends(kind, c) ==
  /\ jobs[kind][c].status = "running"
  /\ jobs' = [jobs EXCEPT ![kind][c] =
       [@ EXCEPT !.status = IF jobs[kind][c].newer THEN "queued" ELSE "none", !.newer = FALSE,
                 !.covers = 0, !.done = jobs[kind][c].covers]]
  /\ UNCHANGED <<cases, thread, settings, requests, pages, read, shown, told, spent>>
\* The attempt fails and is retried, or its row is parked (a missing permission, effects
\* off); the update compares no generation, and the next attempt reads the case anew.
JobFails(kind, c) ==
  /\ jobs[kind][c].status = "running" /\ Spend
  /\ \E status \in {"queued", "parked"} :
       jobs' = [jobs EXCEPT ![kind][c] = [@ EXCEPT !.status = status, !.newer = FALSE, !.covers = 0]]
  /\ UNCHANGED <<cases, thread, settings, requests, pages, read, shown, told>>
\* A DM the member does not take or cannot get ends its row at once, and the eighth
\* failed attempt ends any: what was written while it ran goes with it.
JobGivesUp(kind, c) ==
  /\ jobs[kind][c].status = "running" /\ Spend
  /\ jobs' = [jobs EXCEPT ![kind][c] = [NoJob EXCEPT !.done = jobs[kind][c].done, !.lost = Len(thread[c])]]
  /\ UNCHANGED <<cases, thread, settings, requests, pages, read, shown, told>>
\* requeueParked()
Requeue(kind, c) ==
  /\ jobs[kind][c].status = "parked"
  /\ jobs' = [jobs EXCEPT ![kind][c].status = "queued"]
  /\ UNCHANGED <<cases, thread, settings, requests, pages, read, shown, told, spent>>

-----------------------------------------------------------------------------
(* Pages *)

\* mayAccess(): the opener and every officer.
MayAccess(a, c) == Exists(c) /\ (a \in Officers \/ cases[c].opener = a)

\* caseView(): the case is read and the view recorded - once a minute - before
\* the thread is read.
ViewReads(a, c) ==
  /\ MayAccess(a, c) /\ pages[a][c].stage # "loading" /\ Spend
  /\ pages' = [pages EXCEPT ![a][c] = [stage |-> "loading", revision |-> cases[c].revision, rows |-> 0]]
  /\ IF cases[c].opener = a
     THEN \/ read' = [read EXCEPT ![c] = Now]
          \/ read[c] > 0 /\ UNCHANGED read
     ELSE UNCHANGED read
  /\ UNCHANGED <<cases, thread, settings, requests, jobs, shown, told>>
ViewShows(a, c) ==
  /\ pages[a][c].stage = "loading"
  /\ pages' = [pages EXCEPT ![a][c] = [@ EXCEPT !.stage = "open", !.rows = Len(thread[c])]]
  /\ shown' = IF cases[c].opener = a THEN [shown EXCEPT ![c] = Len(thread[c])] ELSE shown
  /\ UNCHANGED <<cases, thread, settings, requests, read, jobs, told, spent>>

-----------------------------------------------------------------------------
(* Requests *)

Send(s, request) ==
  /\ requests[s].kind = "none" /\ Spend
  /\ requests' = [requests EXCEPT ![s] = [request EXCEPT !.stage = "sent", !.at = Now]]
  /\ UNCHANGED <<cases, thread, settings, pages, read, jobs, shown, told>>
SendOpen(s) ==
  \E m \in Members, c \in Cases, text \in Texts :
    Send(s, [NoRequest EXCEPT !.kind = "open", !.by = m, !.case = c, !.id = c, !.text = text])
SendReply(s) ==
  \E a \in Actors, c \in Cases, id \in Messages, text \in Texts :
    /\ MayAccess(a, c)
    /\ Send(s, [NoRequest EXCEPT !.kind = "reply", !.by = a, !.case = c, !.id = id, !.text = text])
\* A close or reopen form carries the revision of the page it was sent from
\* (saw is a ghost: the rows that page showed).
SendChange(s) ==
  \E a \in Actors, c \in Cases, kind \in {"close", "reopen"} :
    /\ MayAccess(a, c) /\ pages[a][c].stage = "open"
    /\ kind = "reopen" => Side(c, a) = "officer"
    /\ Send(s, [NoRequest EXCEPT !.kind = kind, !.by = a, !.case = c,
                                 !.revision = pages[a][c].revision, !.saw = pages[a][c].rows])

\* Mutant: a member's reply does not take their lock.
TakesMemberWhenOpening(q) == q.kind = "open"

\* The member's advisory lock, of openCase() and of a reply that may reopen.
TakesMember(q) == q.kind = "open" \/ (q.kind = "reply" /\ Side(q.case, q.by) = "member")
Holds(q, r) ==
  r.stage = "locked" /\ \/ TakesMember(q) /\ TakesMember(r) /\ q.by = r.by
                        \/ q.kind # "open" /\ r.kind # "open" /\ q.case = r.case
\* Both locks, and what is read under them: the member's open cases.
Lock(s) ==
  LET q == requests[s]
  IN /\ q.stage = "sent" /\ \A o \in Requests \ {s} : ~Holds(q, requests[o])
     /\ requests' = [requests EXCEPT ![s] = [q EXCEPT !.stage = "locked",
          !.open = IF q.by \in Members THEN OpenCases(q.by) ELSE 0]]
     /\ UNCHANGED <<cases, thread, settings, pages, read, jobs, shown, told, spent>>

\* The stored rows of a minted ID, in any case.
StoredAs(id) == {x \in Cases \X (1 .. MaxChanges + 2) : x[2] <= Len(thread[x[1]]) /\ thread[x[1]][x[2]].id = id}

\* Mutant: a form sent again is answered without comparing its text.
RepeatUncompared(q) ==
  \E x \in StoredAs(q.id) :
    x[1] = q.case /\ thread[x[1]][x[2]].side = (IF cases[x[1]].opener = q.by THEN "member" ELSE "officer")

\* openedBefore() and repeated(): a form sent again is told it is saved when the
\* stored text is the one it carries, and refused otherwise.
Repeat(q) ==
  \E x \in StoredAs(q.id) :
    /\ x[1] = q.case /\ thread[x[1]][x[2]].side = Side(x[1], q.by)
    /\ thread[x[1]][x[2]].text = q.text
Saved(q) == told' = told \cup {<<q.case, q.id, q.text>>}
Answered(s) == requests' = [requests EXCEPT ![s] = NoRequest]

\* Mutant: a reply that reopens a case leaves its deletion date.
WrittenDated(c, state, own) ==
  [cases EXCEPT ![c] = [cases[c] EXCEPT !.state = state, !.revision = cases[c].revision + 1, !.own = own]]

\* A reply, and an officer's reopen, write the state and clear the deletion date.
Written(c, state, own) ==
  [cases EXCEPT ![c] = [cases[c] EXCEPT !.state = state, !.revision = cases[c].revision + 1,
                                        !.due = "never", !.own = own]]
Appended(c, rows) == [thread EXCEPT ![c] = thread[c] \o rows]

\* openCase(): the repeat first, then the switch and the limit.
CommitOpen(s) ==
  LET q == requests[s] c == requests[s].case
  IN /\ q.stage = "locked" /\ q.kind = "open" /\ Answered(s)
     /\ IF cases[c].state # "none"
        THEN /\ IF Repeat(q) THEN Saved(q) ELSE UNCHANGED told
             /\ UNCHANGED <<cases, thread, jobs>>
        ELSE IF ~settings.on \/ q.open >= MaxOpen THEN UNCHANGED <<cases, thread, jobs, told>>
        ELSE /\ cases' = [cases EXCEPT ![c] = [state |-> "officers", opener |-> q.by, revision |-> 1,
                                              due |-> "never", own |-> TRUE]]
             /\ thread' = Appended(c, <<Row("message", "member", q.id, q.text, q.at)>>)
             /\ Saved(q) /\ Queue("ping", c)
     /\ UNCHANGED <<settings, pages, read, shown, spent>>

\* reply(): the reply of a closed case reopens it, for a member within the limit.
Refuses(q) ==
  \/ Cardinality(Rows(q.case, LAMBDA r : r.kind = "message")) >= MaxMessages
  \/ ~Open(q.case) /\ Side(q.case, q.by) = "member" /\ q.open >= MaxOpen
CommitReply(s) ==
  LET q == requests[s] c == requests[s].case side == Side(requests[s].case, requests[s].by)
      reopened == IF Open(c) THEN <<>> ELSE <<Row("reopened", side, None, None, q.at)>>
  IN /\ q.stage = "locked" /\ q.kind = "reply" /\ Answered(s)
     /\ IF ~Exists(c) THEN UNCHANGED <<cases, thread, jobs, told>>
        ELSE IF StoredAs(q.id) # {}
        THEN /\ IF Repeat(q) THEN Saved(q) ELSE UNCHANGED told
             /\ UNCHANGED <<cases, thread, jobs>>
        ELSE IF Refuses(q) THEN UNCHANGED <<cases, thread, jobs, told>>
        ELSE /\ cases' = Written(c, IF side = "member" THEN "officers" ELSE "member",
                                 IF Open(c) THEN cases[c].own ELSE side = "member")
             /\ thread' = Appended(c, Append(reopened, Row("message", side, q.id, q.text, q.at)))
             /\ Saved(q) /\ Queue(IF side = "member" THEN "ping" ELSE "dm", c)
     /\ UNCHANGED <<settings, pages, read, shown, spent>>

\* Mutant: a close is refused only when the case is already closed.
StaleNever(q) == ~Exists(q.case)

Stale(q) == cases[q.case].revision # q.revision

\* changeState(): already so changes nothing, a stale revision is a conflict.
CommitChange(s) ==
  LET q == requests[s] c == requests[s].case side == Side(requests[s].case, requests[s].by)
      row == Row(IF q.kind = "close" THEN "closed" ELSE "reopened", side, None, None, q.at)
  IN /\ q.stage = "locked" /\ q.kind \in {"close", "reopen"} /\ Answered(s)
     /\ IF ~Exists(c) \/ (q.kind = "close") = ~Open(c) \/ Stale(q)
        THEN UNCHANGED <<cases, thread, jobs>>
        ELSE /\ cases' = IF q.kind = "reopen" THEN Written(c, "officers", FALSE)
                         ELSE [cases EXCEPT ![c] =
                                [cases[c] EXCEPT !.state = "closed", !.revision = cases[c].revision + 1,
                                                 !.due = "set", !.own = FALSE]]
             /\ thread' = Appended(c, <<row>>)
             /\ IF q.kind = "close" /\ side = "officer" THEN Queue("dm", c) ELSE UNCHANGED jobs
     /\ UNCHANGED <<settings, pages, read, shown, told, spent>>

\* A refused connection, or a shutdown noticed before the commit: nothing is kept.
Abandon(s) ==
  /\ requests[s].stage # "none" /\ Answered(s) /\ Spend
  /\ UNCHANGED <<cases, thread, settings, pages, read, jobs, shown, told>>

\* toggle(): off stops new cases only, and on needs an officer channel.
Toggle ==
  /\ Spend /\ (settings.on \/ settings.channel)
  /\ settings' = [settings EXCEPT !.on = ~@]
  /\ UNCHANGED <<cases, thread, requests, pages, read, jobs, shown, told>>
\* configure() sets or clears the officers' channel, whether mod mail is on or off.
SetChannel ==
  /\ Spend /\ settings' = [settings EXCEPT !.channel = ~@]
  /\ UNCHANGED <<cases, thread, requests, pages, read, jobs, shown, told>>

-----------------------------------------------------------------------------
(* Retention *)

\* RETENTION_DAYS after a close.
Expires(c) ==
  /\ cases[c].due = "set" /\ Spend
  /\ cases' = [cases EXCEPT ![c].due = "past"]
  /\ UNCHANGED <<thread, settings, requests, pages, read, jobs, shown, told>>
\* pruneModMail(): a locked row is waited for, and looked at again.
Prune(c) ==
  /\ cases[c].due = "past"
  /\ ~\E s \in Requests : requests[s].stage = "locked" /\ requests[s].case = c
  /\ cases' = [cases EXCEPT ![c] = [@ EXCEPT !.state = "deleted", !.due = "never"]]
  /\ thread' = [thread EXCEPT ![c] = <<>>]
  /\ read' = [read EXCEPT ![c] = 0]
  /\ UNCHANGED <<settings, requests, pages, jobs, shown, told, spent>>

-----------------------------------------------------------------------------

\* Up to one case is there from before, its notifications done.
Init ==
  /\ \E m \in Members, c \in Cases, state \in States \cup {"none"} :
       /\ cases = [k \in Cases |-> IF k = c /\ state # "none"
                    THEN [state |-> state, opener |-> m, revision |-> 1, own |-> state # "closed",
                          due |-> IF state = "closed" THEN "set" ELSE "never"]
                    ELSE Unopened]
       /\ thread = [k \in Cases |-> IF k = c /\ state # "none"
                     THEN <<Row("message", "member", k, CHOOSE t \in Texts : TRUE, 0)>> ELSE <<>>]
       /\ jobs = [kind \in {"ping", "dm"} |-> [k \in Cases |-> [NoJob EXCEPT !.done = Len(thread[k])]]]
  /\ settings = [on |-> TRUE, channel |-> TRUE]
  /\ requests = [s \in Requests |-> NoRequest]
  /\ pages = [a \in Actors |-> [c \in Cases |-> NoPage]]
  /\ read = [c \in Cases |-> 0] /\ shown = [c \in Cases |-> 0]
  /\ told = {} /\ spent = 0

Sends(s) == SendOpen(s) \/ SendReply(s) \/ SendChange(s)
Commits(s) == CommitOpen(s) \/ CommitReply(s) \/ CommitChange(s)
Runs(kind, c) == JobReads(kind, c) \/ JobSends(kind, c)

Next ==
  \/ \E s \in Requests : Sends(s) \/ Lock(s) \/ Commits(s) \/ Abandon(s)
  \/ \E a \in Actors, c \in Cases : ViewReads(a, c) \/ ViewShows(a, c)
  \/ \E kind \in {"ping", "dm"}, c \in Cases :
       Runs(kind, c) \/ JobFails(kind, c) \/ JobGivesUp(kind, c) \/ Requeue(kind, c)
  \/ \E c \in Cases : Expires(c) \/ Prune(c)
  \/ Toggle \/ SetChannel

\* Nobody has to write; a request that was sent and a queued job are carried out.
Fairness ==
  /\ \A s \in Requests : WF_vars(Lock(s)) /\ WF_vars(Commits(s))
  /\ \A kind \in {"ping", "dm"}, c \in Cases : WF_vars(Runs(kind, c))
Spec == Init /\ [][Next]_vars /\ Fairness

-----------------------------------------------------------------------------

(* However a member's forms race - /modmail's, the web page's, a reply that    *)
(* reopens - their own acts never leave them more open cases than the limit;  *)
(* only officers go past it (modmail.ts:830, 1312).                           *)
OwnCasesBounded ==
  \A m \in Members :
    Cardinality({c \in Cases : Open(c) /\ cases[c].own /\ cases[c].opener = m}) <= MaxOpen

(* Whoever is told their text is saved, also when a form is sent again, has it *)
(* in the thread until retention deletes the case (modmail.ts:1375).          *)
NothingDropped ==
  \A t \in told : cases[t[1]].state = "deleted" \/ \E r \in Rows(t[1], LAMBDA r : r.id = t[2]) : thread[t[1]][r].text = t[3]

(* Nobody closes over a reply they were not shown: the page's revision is     *)
(* older than the thread it shows, never newer (modmail.ts:1149, 1454).       *)
CloseSeesThread ==
  [][\A s \in Requests :
       LET q == requests[s]
       IN /\ q.kind = "close" /\ requests'[s] = NoRequest
          /\ Open(q.case) /\ cases'[q.case].state = "closed"
          => q.saw >= Len(thread[q.case])]_vars

(* A case somebody reopened is not deleted by the date of its earlier close   *)
(* (modmail.ts:1360, 1740).                                                   *)
OpenCasesKept == [][\A c \in Cases : Open(c) => cases'[c].state # "deleted"]_vars

\* The member viewed the case since the officers' latest reply or close.
Viewed(c) == LET i == Latest(c, OfficerRow) IN i > 0 /\ read[c] >= thread[c][i].at
(* Whatever a job was doing when it happened - waiting, reading, sending,      *)
(* failing - what a member writes comes to be pinged, and what an officer      *)
(* writes to be sent by DM (modmail.ts:293), unless the member viewed the case *)
(* since the request began, or the row that was to carry it ended for good in  *)
(* an attempt that ran then or later, was dropped for want of an officer       *)
(* channel (queue.ts:445, 651; modmail.ts:1586), or is parked.                 *)
EventsReach ==
  LET Reached(kind, c, row) == \/ jobs[kind][c].done >= row \/ jobs[kind][c].lost >= row
                               \/ jobs[kind][c].status = "parked"
  IN <>[](\A c \in Cases : Exists(c) =>
            /\ Reached("ping", c, Latest(c, MemberRow))
            /\ Reached("dm", c, Latest(c, OfficerRow)) \/ Viewed(c))

(* Who is told a text is saved has it in the thread, and a member's own acts   *)
(* stay within the limit of open cases (modmail.ts:830, 1375).                *)
TextsAreKept == NothingDropped /\ OwnCasesBounded
(* Nobody closes over a reply they were not shown, and no open case is         *)
(* deleted (modmail.ts:1149, 1740).                                           *)
CasesEndInSight == CloseSeesThread /\ OpenCasesKept

(* A DM is skipped only when the member has been shown the officers' latest   *)
(* reply or close, or is being shown it (modmail.ts:1581).                    *)
SkippedWasSeen ==
  [][\A c \in Cases :
       jobs["dm"][c].status = "queued" /\ jobs'["dm"][c].status = "none" /\ Exists(c)
         => \/ shown[c] >= Latest(c, OfficerRow)
              \/ pages[cases[c].opener][c].stage = "loading"]_vars
=============================================================================
