---------------------------- MODULE IssueReports ----------------------------
(***************************************************************************)
(* Issue reports (application/issue-reports.ts): a report is saved under its *)
(* fingerprint, repeats are counted, and the job issue.report opens an issue *)
(* on GitHub, comments on it at most hourly, or opens another one once it was *)
(* closed.  Daily caps bound what automatic reports do.  One row of the queue *)
(* (JobQueue) is active per fingerprint.  Bodies, redaction, labels and /issue's *)
(* own limits are left out.                                                  *)
(***************************************************************************)
EXTENDS Naturals, FiniteSets, Sequences

CONSTANTS
  Prints,        \* fingerprints
  Automatic,     \* those of errors, failed jobs and trouble; the others are /issue's
  Workers, None,
  IssuesPerDay, CommentsPerDay,            \* AUTO_ISSUES_PER_DAY, AUTO_COMMENTS_PER_DAY
  MaxCount, MaxClosed, MaxFaults           \* bounds: occurrences, issues closed, faults

ConstantsOK == /\ Automatic \subseteq Prints
               /\ None \notin Workers \cup {"queued", "opened", "commented"} /\ "queued" \notin Workers
               /\ Workers # {} /\ IsFiniteSet(Workers)
               /\ {IssuesPerDay, CommentsPerDay, MaxCount, MaxClosed, MaxFaults} \subseteq Nat
ASSUME ReportsAssumption == ConstantsOK

VARIABLES
  report,    \* issue_reports: [count, posted, issue, recent]
  row,       \* the active row of each fingerprint: None, "queued", or the worker whose token it has
  worker,
  issues,    \* GitHub's issues: the fingerprint and whether it is open
  results,   \* succeeded rows of the last day that opened an issue or commented
  day,       \* history: issues opened and comments made automatically that day
  told,      \* history: occurrences GitHub was told of
  enabled,   \* a token is configured
  closed, faults

vars == <<report, row, worker, issues, results, day, told, enabled, closed, faults>>

Unsaved == [count |-> 0, posted |-> 0, issue |-> 0, recent |-> FALSE]
Idle == [step |-> "idle", key |-> None, count |-> 0, posted |-> 0, issue |-> 0, opening |-> FALSE, did |-> None]
Kinds == {"opened", "commented"}
Kind(opening) == IF opening THEN "opened" ELSE "commented"
Limit(kind) == IF kind = "opened" THEN IssuesPerDay ELSE CommentsPerDay
Spent == [k \in Kinds |-> 0]

-----------------------------------------------------------------------------
(* Saving *)

Due(r) == r.issue = 0 \/ ~r.recent
\* scheduleJob(): nothing while a row is active.
Queued(f) == [row EXCEPT ![f] = IF @ = None THEN "queued" ELSE @]

\* save(): the count and the delivery in one transaction.
Save(f) ==
  /\ report[f].count < MaxCount /\ (f \in Automatic \/ report[f].count = 0)
  /\ report' = [report EXCEPT ![f].count = @ + 1]
  /\ row' = IF Due(report[f]) /\ enabled THEN Queued(f) ELSE row
  /\ UNCHANGED <<worker, issues, results, day, told, enabled, closed, faults>>
\* counted(): in two statements; the process may die between them.
CountedOnly(f) ==
  /\ f \in Automatic /\ report[f].count \in 1..(MaxCount - 1) /\ faults < MaxFaults
  /\ report' = [report EXCEPT ![f].count = @ + 1] /\ faults' = faults + 1
  /\ UNCHANGED <<row, worker, issues, results, day, told, enabled, closed>>

\* A mutant: only reports that were never posted.
SweepNew(f) ==
  /\ enabled /\ row[f] = None /\ report[f].count > 0 /\ report[f].issue = 0
  /\ row' = [row EXCEPT ![f] = "queued"]
  /\ UNCHANGED <<report, worker, issues, results, day, told, enabled, closed, faults>>
Sweep(f) ==
  /\ enabled /\ row[f] = None /\ report[f].count > 0
  /\ report[f].issue = 0 \/ (report[f].count > report[f].posted /\ ~report[f].recent)
  /\ row' = [row EXCEPT ![f] = "queued"]
  /\ UNCHANGED <<report, worker, issues, results, day, told, enabled, closed, faults>>

-----------------------------------------------------------------------------
(* deliver(), by a worker of the queue *)

Go(w, step) == worker' = [worker EXCEPT ![w].step = step]
At(w, step) == worker[w].step = step
Owns(w) == row[worker[w].key] = w

Claim(w, f) ==
  /\ At(w, "idle") /\ row[f] = "queued"
  /\ row' = [row EXCEPT ![f] = w] /\ worker' = [worker EXCEPT ![w] = [Idle EXCEPT !.step = "read", !.key = f]]
  /\ UNCHANGED <<report, issues, results, day, told, enabled, closed, faults>>
\* No row, nothing new, or within the hour; without a token it throws.
Skips(r) == r.count = 0 \/ (r.issue # 0 /\ (r.count <= r.posted \/ r.recent))
Read(w) ==
  LET r == report[worker[w].key]
  IN  /\ At(w, "read") /\ enabled
      /\ IF Skips(r) THEN Go(w, "ending")
         ELSE worker' = [worker EXCEPT ![w].step = "look", ![w].count = r.count, ![w].posted = r.posted,
                                       ![w].issue = r.issue]
      /\ UNCHANGED <<report, row, issues, results, day, told, enabled, closed, faults>>
Look(w) ==
  /\ At(w, "look")
  /\ worker' = [worker EXCEPT ![w].step = "cap",
                              ![w].opening = worker[w].issue = 0 \/ ~issues[worker[w].issue].open]
  /\ UNCHANGED <<report, row, issues, results, day, told, enabled, closed, faults>>
Capped(opening) == results[Kind(opening)] >= Limit(Kind(opening))
\* A mutant: a repeat of a closed issue spends the allowance of comments.
CapByIssue(w) ==
  /\ At(w, "cap")
  /\ Go(w, IF worker[w].key \in Automatic /\ Capped(worker[w].issue = 0) THEN "ending" ELSE "post")
  /\ UNCHANGED <<report, row, issues, results, day, told, enabled, closed, faults>>
Cap(w) ==
  /\ At(w, "cap")
  /\ Go(w, IF worker[w].key \in Automatic /\ Capped(worker[w].opening) THEN "ending" ELSE "post")
  /\ UNCHANGED <<report, row, issues, results, day, told, enabled, closed, faults>>

\* GitHub opens the issue or takes the comment ...
Posted(w) ==
  LET f == worker[w].key
  IN  /\ issues' = IF worker[w].opening THEN Append(issues, [key |-> f, open |-> TRUE]) ELSE issues
      /\ told' = [told EXCEPT ![f] = @ + (worker[w].count - worker[w].posted)]
      /\ day' = IF f \in Automatic THEN [day EXCEPT ![Kind(worker[w].opening)] = @ + 1] ELSE day
Post(w) ==
  /\ At(w, "post") /\ Posted(w)
  /\ worker' = [worker EXCEPT ![w].step = "guard", ![w].did = Kind(worker[w].opening),
                              ![w].issue = IF worker[w].opening THEN Len(issues') ELSE @]
  /\ UNCHANGED <<report, row, results, enabled, closed, faults>>
\* ... but its answer may be lost: the attempt fails like one it refused.
Failed(w) == /\ row' = IF Owns(w) THEN [row EXCEPT ![worker[w].key] = "queued"] ELSE row
             /\ worker' = [worker EXCEPT ![w] = Idle]
AnswerLost(w) ==
  /\ At(w, "post") /\ Posted(w) /\ Failed(w) /\ faults < MaxFaults /\ faults' = faults + 1
  /\ UNCHANGED <<report, results, enabled, closed>>
\* Any throw: the row waits for its next attempt, or fails and is swept again.
Throws(w) ==
  /\ worker[w].step \in {"look", "cap", "post"} /\ faults < MaxFaults /\ faults' = faults + 1
  /\ worker' = [worker EXCEPT ![w] = Idle]
  /\ \E left \in {None, "queued"} : row' = IF Owns(w) THEN [row EXCEPT ![worker[w].key] = left] ELSE row
  /\ UNCHANGED <<report, issues, results, day, told, enabled, closed>>
Off(w) ==
  /\ At(w, "read") /\ ~enabled /\ worker' = [worker EXCEPT ![w] = Idle]
  /\ row' = IF Owns(w) THEN [row EXCEPT ![worker[w].key] = None] ELSE row
  /\ UNCHANGED <<report, issues, results, day, told, enabled, closed, faults>>

Guard(w) ==
  /\ At(w, "guard")
  /\ IF Owns(w) THEN Go(w, "update") ELSE worker' = [worker EXCEPT ![w] = Idle]
  /\ UNCHANGED <<report, row, issues, results, day, told, enabled, closed, faults>>
\* A mutant: everything counted so far is taken as posted.
UpdateAll(w) ==
  /\ At(w, "update") /\ Go(w, "ending")
  /\ report' = [report EXCEPT ![worker[w].key] =
       [report[worker[w].key] EXCEPT !.issue = worker[w].issue, !.posted = report[worker[w].key].count, !.recent = TRUE]]
  /\ UNCHANGED <<row, issues, results, day, told, enabled, closed, faults>>
Update(w) ==
  /\ At(w, "update") /\ Go(w, "ending")
  /\ report' = [report EXCEPT ![worker[w].key] =
       [report[worker[w].key] EXCEPT !.issue = worker[w].issue, !.posted = worker[w].count, !.recent = TRUE]]
  /\ UNCHANGED <<row, issues, results, day, told, enabled, closed, faults>>
\* perform(): the row succeeds, and its result counts against the day's allowance.
Ends(w) ==
  /\ At(w, "ending") /\ worker' = [worker EXCEPT ![w] = Idle]
  /\ row' = IF Owns(w) THEN [row EXCEPT ![worker[w].key] = None] ELSE row
  /\ results' = IF Owns(w) /\ worker[w].did # None /\ worker[w].key \in Automatic
                THEN [results EXCEPT ![worker[w].did] = @ + 1] ELSE results
  /\ UNCHANGED <<report, issues, day, told, enabled, closed, faults>>

-----------------------------------------------------------------------------
(* Everything else *)

\* A stalled worker's lease runs out; it may still go on.
Lapse(w) ==
  /\ worker[w].step # "idle" /\ Owns(w) /\ faults < MaxFaults /\ faults' = faults + 1
  /\ row' = [row EXCEPT ![worker[w].key] = "queued"]
  /\ UNCHANGED <<report, worker, issues, results, day, told, enabled, closed>>
\* The process ends between any two steps and starts with or without a token.
Restart ==
  /\ faults < MaxFaults /\ faults' = faults + 1 /\ enabled' \in BOOLEAN
  /\ worker' = [w \in Workers |-> Idle]
  /\ row' = [f \in Prints |-> IF row[f] \in Workers THEN "queued" ELSE row[f]]
  /\ UNCHANGED <<report, issues, results, day, told, closed>>
TokenSet == /\ ~enabled /\ enabled' = TRUE
            /\ UNCHANGED <<report, row, worker, issues, results, day, told, closed, faults>>
Close(n) ==
  /\ n \in DOMAIN issues /\ issues[n].open /\ closed < MaxClosed /\ closed' = closed + 1
  /\ issues' = [issues EXCEPT ![n].open = FALSE]
  /\ UNCHANGED <<report, row, worker, results, day, told, enabled, faults>>
HourPasses ==
  /\ \E f \in Prints : report[f].recent
  /\ report' = [f \in Prints |-> [report[f] EXCEPT !.recent = FALSE]]
  /\ UNCHANGED <<row, worker, issues, results, day, told, enabled, closed, faults>>
\* What happened the day before ages out together.
DayPasses ==
  /\ <<results, day>> # <<Spent, Spent>> /\ results' = Spent /\ day' = Spent
  /\ UNCHANGED <<report, row, worker, issues, told, enabled, closed, faults>>

-----------------------------------------------------------------------------
Init ==
  /\ report = [f \in Prints |-> Unsaved] /\ row = [f \in Prints |-> None]
  /\ worker = [w \in Workers |-> Idle] /\ issues = <<>> /\ results = Spent /\ day = Spent
  /\ told = [f \in Prints |-> 0] /\ enabled = TRUE /\ closed = 0 /\ faults = 0

Deliver(w) == Read(w) \/ Look(w) \/ Cap(w) \/ Post(w) \/ Off(w) \/ Guard(w) \/ Update(w) \/ Ends(w)
Next ==
  \/ \E f \in Prints : Save(f) \/ CountedOnly(f) \/ Sweep(f)
  \/ \E w \in Workers : \/ Deliver(w) \/ AnswerLost(w) \/ Throws(w) \/ Lapse(w)
                        \/ \E f \in Prints : Claim(w, f)
  \/ Restart \/ TokenSet \/ HourPasses \/ DayPasses
  \/ \E n \in DOMAIN issues : Close(n)
Fairness ==
  /\ \A f \in Prints : WF_vars(Sweep(f)) /\ SF_vars(\E w \in Workers : Claim(w, f))
  /\ \A w \in Workers : WF_vars(Deliver(w))
  /\ WF_vars(TokenSet) /\ WF_vars(HourPasses) /\ WF_vars(DayPasses)
Spec == Init /\ [][Next]_vars /\ Fairness

\* What the table counts as posted GitHub has been told, and without faults just
\* once: an occurrence that comes while an attempt is posting waits for the next.
RepeatsAddUp ==
  \A f \in Prints :
    /\ report[f].posted <= told[f] /\ report[f].posted <= report[f].count
    /\ faults = 0 =>
         /\ told[f] <= report[f].count
         /\ Cardinality({n \in DOMAIN issues : issues[n].key = f /\ issues[n].open}) <= 1

\* The caps are checked against finished rows, so what the other workers post at the
\* same time comes on top, and what a fault repeats: a restart forgets a post of every
\* worker at once.  Nothing else does.
CapsHold ==
  LET Over == (Cardinality(Workers) - 1) + Cardinality(Workers) * faults
  IN  \A k \in Kinds : day[k] <= Limit(k) + Over

\* Every saved occurrence reaches GitHub, whatever the caps, the hour and faults delay.
EveryReportArrives ==
  \A f \in Prints : \A n \in 1..MaxCount : report[f].count >= n ~> report[f].posted >= n

\* "Automatic reports open at most this many new issues per day, across every
\* fingerprint" (domain/reports.ts), even without a fault.
IssuesWithinCap == faults = 0 => day["opened"] <= IssuesPerDay
=============================================================================
