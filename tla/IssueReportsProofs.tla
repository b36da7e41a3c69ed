------------------------- MODULE IssueReportsProofs -------------------------
(***************************************************************************)
(* Proofs about issue reports, for any fingerprints, workers, limits and     *)
(* bounds: the caps are passed only by what the other workers post at once   *)
(* and what faults repeat, and GitHub is told of every occurrence that the    *)
(* table counts as posted.                                                   *)
(***************************************************************************)
EXTENDS IssueReports, FiniteSetTheorems, SequenceTheorems, TLAPS

Stored == [count : Nat, posted : Nat, issue : Nat, recent : BOOLEAN]
Reading == {"read", "look", "cap", "post"}
Done == {"guard", "update"}
Attempts == [step : {"idle", "ending"} \cup Reading \cup Done, key : Prints \cup {None}, count : Nat,
             posted : Nat, issue : Nat, opening : BOOLEAN, did : Kinds \cup {None}]
GitHubIssue == [key : Prints, open : BOOLEAN]

Typed ==
  /\ report \in [Prints -> Stored] /\ row \in [Prints -> Workers \cup {None, "queued"}]
  /\ worker \in [Workers -> Attempts] /\ issues \in Seq(GitHubIssue)
  /\ results \in [Kinds -> Nat] /\ day \in [Kinds -> Nat] /\ told \in [Prints -> Nat]
  /\ enabled \in BOOLEAN /\ closed \in Nat /\ faults \in Nat

Busy(w) == worker[w].step # "idle"

\* An attempt has a fingerprint, and a row only a fault takes away; what it did shows from
\* the post on.
AttemptOK(w) ==
  IF Busy(w)
  THEN /\ worker[w].key \in Prints
       /\ ~Owns(w) => faults > 0
       /\ worker[w].step \in Reading => worker[w].did = None
  ELSE worker[w] = Idle

-----------------------------------------------------------------------------
(* The caps *)

\* Let past the cap for this kind, and its row not finished.
Spends(w, k) ==
  worker[w].key \in Automatic
  /\ ((At(w, "post") /\ Kind(worker[w].opening) = k) \/ worker[w].did = k)
Spending(k) == {w \in Workers : Spends(w, k)}
\* Posted, and its row will count.
WillCount(w, k) == worker[w].key \in Automatic /\ worker[w].did = k /\ Owns(w)
Counting(k) == {w \in Workers : WillCount(w, k)}
\* May post, and its row will not count.
Strays(w) == worker[w].step \in Reading /\ ~Owns(w)
Stray == {w \in Workers : Strays(w)}

\* The allowance is spent by finished rows and by those let past the cap, of which all but
\* one may have come too late to see the others.
AllowanceOK(k) == results[k] + Cardinality(Spending(k)) + 1 <= Limit(k) + Cardinality(Workers)
\* What was posted is counted, will be, or was forgotten by a fault, which makes every
\* worker forget at most once.
PostsOK(k) ==
  day[k] + Cardinality(Stray) <= results[k] + Cardinality(Counting(k)) + Cardinality(Workers) * faults

-----------------------------------------------------------------------------
(* The count *)

SomeOpen(f, n) == n \in DOMAIN issues /\ issues[n].key = f /\ issues[n].open
AtDone(f) == \E w \in Workers : worker[w].step \in Done /\ worker[w].key = f

\* Posted occurrences were counted, and GitHub was told of them.
CountOK(f) == report[f].posted <= told[f] /\ report[f].posted <= report[f].count
\* What an attempt has read, and what it will write.
ReadOK(w) ==
  LET me == worker[w]  f == worker[w].key
  IN  /\ me.step \in {"look", "cap", "post"} =>
           me.posted <= me.count /\ me.posted <= told[f] /\ me.count <= report[f].count
      /\ me.step \in Done => me.count <= told[f] /\ me.count <= report[f].count
\* Without faults: between the post and the update GitHub is ahead of the table by that
\* attempt, else they agree, on the one issue that may be open too.
ToldOnce(f) ==
  ~AtDone(f) => told[f] = report[f].posted /\ \A n \in Nat : SomeOpen(f, n) => n = report[f].issue
ReadOnce(w) ==
  LET me == worker[w]  f == worker[w].key
  IN  /\ me.step \in {"look", "cap", "post"} => me.posted = report[f].posted /\ me.issue = report[f].issue
      /\ me.step \in {"cap", "post"} /\ me.opening => \A n \in Nat : ~SomeOpen(f, n)
      /\ me.step \in Done => told[f] = me.count /\ \A n \in Nat : SomeOpen(f, n) => n = me.issue
Once == faults = 0 => (\A f \in Prints : ToldOnce(f)) /\ (\A w \in Workers : ReadOnce(w))

IInv ==
  /\ Typed /\ \A w \in Workers : AttemptOK(w)
  /\ \A k \in Kinds : AllowanceOK(k) /\ PostsOK(k)
  /\ \A f \in Prints : CountOK(f)
  /\ \A w \in Workers : ReadOK(w)
  /\ Once

-----------------------------------------------------------------------------
(* Types *)

\* The types of what one worker's step writes.
Moves(w) == Deliver(w) \/ AnswerLost(w) \/ Throws(w) \/ Lapse(w) \/ \E f \in Prints : Claim(w, f)

LEMMA InitTyped == Init => Typed
  BY ReportsAssumption
  DEF Init, Typed, Stored, Attempts, GitHubIssue, Unsaved, Idle, Spent, Kinds, ConstantsOK

LEMMA TypedMoves ==
  ASSUME Typed, NEW w \in Workers, AttemptOK(w), ReadOK(w), Moves(w)
  PROVE  Typed'
  <1> DEFINE RowOK == row' \in [Prints -> Workers \cup {None, "queued"}]
             WorkerOK == worker' \in [Workers -> Attempts]
  <1>0. /\ worker \in [Workers -> Attempts] /\ row \in [Prints -> Workers \cup {None, "queued"}]
        /\ worker[w] \in Attempts /\ Idle \in Attempts
        /\ \A step \in {"idle", "ending"} \cup Reading \cup Done :
             Go(w, step) => worker' \in [Workers -> Attempts]
    <2>1. worker[w] \in Attempts
      BY DEF Typed
    <2>2. Idle \in Attempts
      BY DEF Attempts, Idle
    <2>3. \A step \in {"idle", "ending"} \cup Reading \cup Done : [worker[w] EXCEPT !.step = step] \in Attempts
      BY <2>1 DEF Attempts
    <2> QED
      BY <2>1, <2>2, <2>3 DEF Typed, Go
  <1>1. CASE \E f \in Prints : Claim(w, f)
    <2>1. PICK f \in Prints : Claim(w, f)
      BY <1>1
    <2>2. [Idle EXCEPT !.step = "read", !.key = f] \in Attempts
      BY DEF Attempts, Idle, Reading
    <2>3. RowOK /\ WorkerOK
      BY <1>0, <2>1, <2>2 DEF Claim
    <2> QED
      BY <2>1, <2>3 DEF Claim, Typed
  <1>2. CASE Read(w)
    <2>1. report[worker[w].key] \in Stored
      BY <1>2 DEF Typed, AttemptOK, Busy, Read, At
    <2>2. WorkerOK
      <3>1. CASE Go(w, "ending")
        BY <1>0, <3>1
      <3>2. CASE ~Go(w, "ending")
        BY <1>0, <1>2, <2>1, <3>2 DEF Read, Stored, Attempts, Reading
      <3> QED
        BY <3>1, <3>2
    <2> QED
      BY <1>2, <2>2 DEF Read, Typed
  <1>3. CASE Look(w) \/ Cap(w)
    <2>1. WorkerOK
      BY <1>0, <1>3 DEF Look, Cap, Attempts, Reading, Go
    <2> QED
      BY <1>3, <2>1 DEF Look, Cap, Typed
  <1>4. ASSUME Posted(w), At(w, "post")
        PROVE  issues' \in Seq(GitHubIssue) /\ told' \in [Prints -> Nat] /\ day' \in [Kinds -> Nat]
    <2>1. worker[w].key \in Prints /\ worker[w].opening \in BOOLEAN
      BY <1>0, <1>4 DEF AttemptOK, Busy, At, Attempts
    <2>2. issues' \in Seq(GitHubIssue)
      <3>1. [key |-> worker[w].key, open |-> TRUE] \in GitHubIssue
        BY <2>1 DEF GitHubIssue
      <3>2. Append(issues, [key |-> worker[w].key, open |-> TRUE]) \in Seq(GitHubIssue)
        BY <3>1, AppendProperties DEF Typed
      <3> QED
        BY <1>4, <3>2 DEF Posted, Typed
    <2>3. day' \in [Kinds -> Nat]
      BY <1>4, <2>1 DEF Posted, Typed, Kinds, Kind
    <2>4. told' \in [Prints -> Nat]
      <3>1. worker[w].count - worker[w].posted \in Nat
        BY <1>0, <1>4 DEF ReadOK, At, Attempts
      <3> QED
        BY <1>4, <2>1, <3>1 DEF Posted, Typed
    <2> QED
      BY <2>2, <2>3, <2>4
  <1>5. CASE Post(w)
    <2>1. Len(issues') \in Nat
      BY <1>4, <1>5 DEF Post, GitHubIssue
    <2>2. WorkerOK
      BY <1>0, <1>5, <2>1 DEF Post, Attempts, Done, Kind, Kinds
    <2> QED
      BY <1>4, <1>5, <2>2 DEF Post, Typed
  <1>6. CASE AnswerLost(w)
    <2>1. RowOK /\ WorkerOK
      BY <1>0, <1>6 DEF AnswerLost, Failed
    <2> QED
      BY <1>4, <1>6, <2>1 DEF AnswerLost, Typed
  <1>7. CASE Throws(w) \/ Off(w)
    <2>1. RowOK /\ WorkerOK
      BY <1>0, <1>7 DEF Throws, Off
    <2> QED
      BY <1>7, <2>1 DEF Throws, Off, Typed
  <1>8. CASE Guard(w)
    <2>1. WorkerOK
      BY <1>0, <1>8 DEF Guard, Done
    <2> QED
      BY <1>8, <2>1 DEF Guard, Typed
  <1>9. CASE Update(w)
    <2>1. worker[w].key \in Prints /\ worker[w].issue \in Nat /\ worker[w].count \in Nat
      BY <1>0, <1>9 DEF AttemptOK, Busy, Update, At, Attempts
    <2>2. report' \in [Prints -> Stored] /\ WorkerOK
      BY <1>0, <1>9, <2>1 DEF Update, Typed, Stored
    <2> QED
      BY <1>9, <2>2 DEF Update, Typed
  <1>10. CASE Ends(w)
    <2>1. RowOK /\ WorkerOK
      BY <1>0, <1>10 DEF Ends
    <2>2. results' \in [Kinds -> Nat]
      BY <1>0, <1>10 DEF Ends, Typed, Attempts
    <2> QED
      BY <1>10, <2>1, <2>2 DEF Ends, Typed
  <1>11. CASE Lapse(w)
    <2>1. RowOK
      BY <1>0, <1>11 DEF Lapse
    <2> QED
      BY <1>11, <2>1 DEF Lapse, Typed
  <1> QED
    BY <1>1, <1>2, <1>3, <1>5, <1>6, <1>7, <1>8, <1>9, <1>10, <1>11 DEF Moves, Deliver

\* What is left of Next, once the workers' own steps are set aside.
Around ==
  \/ \E f \in Prints : Save(f) \/ CountedOnly(f) \/ Sweep(f)
  \/ Restart \/ TokenSet \/ HourPasses \/ DayPasses
  \/ \E n \in DOMAIN issues : Close(n)

LEMMA TypedAround == ASSUME Typed, Around PROVE Typed'
  <1> USE DEF Typed
  <1>1. CASE \E f \in Prints : Save(f) \/ CountedOnly(f) \/ Sweep(f)
    <2>1. PICK f \in Prints : Save(f) \/ CountedOnly(f) \/ Sweep(f)
      BY <1>1
    <2>2. report' \in [Prints -> Stored]
      <3>1. report[f].count + 1 \in Nat
        BY DEF Stored
      <3>2. \A r \in Stored, n \in Nat : [r EXCEPT !.count = n] \in Stored
        BY DEF Stored
      <3>3. [report[f] EXCEPT !.count = report[f].count + 1] \in Stored
        BY <3>1, <3>2
      <3> QED
        BY <2>1, <3>3 DEF Save, CountedOnly, Sweep
    <2>3. row' \in [Prints -> Workers \cup {None, "queued"}]
      BY <2>1 DEF Save, CountedOnly, Sweep, Queued
    <2>4. faults' \in Nat
      BY <2>1 DEF Save, CountedOnly, Sweep
    <2> QED
      BY <2>1, <2>2, <2>3, <2>4 DEF Save, CountedOnly, Sweep
  <1>2. CASE Restart
    <2>1. Idle \in Attempts
      BY DEF Idle, Attempts
    <2>2. worker' \in [Workers -> Attempts] /\ row' \in [Prints -> Workers \cup {None, "queued"}]
      BY <1>2, <2>1 DEF Restart
    <2> QED
      BY <1>2, <2>2 DEF Restart
  <1>3. CASE TokenSet \/ HourPasses \/ DayPasses
    <2>1. ASSUME HourPasses PROVE report' \in [Prints -> Stored]
      <3>1. \A f \in Prints : [report[f] EXCEPT !.recent = FALSE] \in Stored
        BY DEF Stored
      <3> QED
        BY <2>1, <3>1 DEF HourPasses
    <2>2. CASE HourPasses
      <3>1. UNCHANGED <<row, worker, issues, results, day, told, enabled, closed, faults>>
        BY <2>2 DEF HourPasses
      <3> QED
        BY <2>1, <2>2, <3>1
    <2>3. CASE TokenSet
      BY <2>3 DEF TokenSet
    <2>4. CASE DayPasses
      BY <2>4 DEF DayPasses, Spent
    <2> QED
      BY <1>3, <2>2, <2>3, <2>4
  <1>4. CASE \E n \in DOMAIN issues : Close(n)
    <2>1. PICK n \in DOMAIN issues : Close(n)
      BY <1>4
    <2>2. n \in 1..Len(issues) /\ issues[n] \in GitHubIssue
      BY LenProperties, ElementOfSeq DEF Typed
    <2>3. [issues[n] EXCEPT !.open = FALSE] \in GitHubIssue
      BY <2>2 DEF GitHubIssue
    <2>4. [issues EXCEPT ![n] = [issues[n] EXCEPT !.open = FALSE]] \in Seq(GitHubIssue)
      BY <2>2, <2>3, ExceptSeq DEF Typed
    <2>5. issues' \in Seq(GitHubIssue)
      BY <2>1, <2>4 DEF Close
    <2> QED
      BY <2>1, <2>5 DEF Close
  <1> QED
    BY <1>1, <1>2, <1>3, <1>4 DEF Around

-----------------------------------------------------------------------------
(* Who has which row *)

\* One worker's step leaves the others' attempts and rows alone.
LEMMA OthersStay ==
  ASSUME Typed, \A v \in Workers : AttemptOK(v), NEW w \in Workers, Moves(w), NEW c \in Workers \ {w}
  PROVE  /\ worker'[c] = worker[c] /\ Busy(c)' = Busy(c)
         /\ Busy(c) => Owns(c)' = Owns(c)
  <1> DEFINE f == worker[w].key
             Same == worker'[c] = worker[c]
             RowSame == row' = row \/ \E v \in {None, "queued"} : row[f] = w /\ row' = [row EXCEPT ![f] = v]
  <1>1. worker \in [Workers -> Attempts] /\ row \in [Prints -> Workers \cup {None, "queued"}]
        /\ c # None /\ c # "queued" /\ (Busy(c) => worker[c].key \in Prints)
    BY ReportsAssumption DEF Typed, ConstantsOK, AttemptOK
  <1>2. CASE \E g \in Prints : Claim(w, g)
    BY <1>1, <1>2 DEF Claim, Owns, Busy
  <1>3. CASE Read(w) \/ Look(w) \/ Cap(w)
    <2>1. Same /\ row' = row
      BY <1>1, <1>3 DEF Read, Look, Cap, Go
    <2> QED
      BY <2>1 DEF Busy, Owns
  <1>4. CASE Post(w) \/ Guard(w) \/ Update(w)
    <2>1. Same /\ row' = row
      BY <1>1, <1>4 DEF Post, Guard, Update, Go
    <2> QED
      BY <2>1 DEF Busy, Owns
  <1>5. CASE Off(w) \/ Ends(w) \/ AnswerLost(w) \/ Throws(w) \/ Lapse(w)
    <2>1. Same /\ RowSame
      BY <1>1, <1>5 DEF Off, Ends, AnswerLost, Throws, Lapse, Failed, Owns
    <2>2. Busy(c) => Owns(c)' = Owns(c)
      BY <1>1, <2>1 DEF Owns
    <2> QED
      BY <2>1, <2>2 DEF Busy
  <1> QED
    BY <1>2, <1>3, <1>4, <1>5 DEF Moves, Deliver

\* Faults are never undone.
LEMMA FaultsGrow == ASSUME Typed, [Next]_vars PROVE faults' = faults \/ faults' = faults + 1
  BY DEF Typed, Next, vars, Save, CountedOnly, Sweep, Deliver, Read, Look, Cap, Post, Off, Guard, Update,
     Ends, AnswerLost, Throws, Lapse, Claim, Restart, TokenSet, HourPasses, DayPasses, Close

\* A worker loses its row to a fault, never to another worker.
LEMMA AttemptMoves ==
  ASSUME Typed, \A v \in Workers : AttemptOK(v), NEW w \in Workers, Moves(w), [Next]_vars
  PROVE  \A v \in Workers : AttemptOK(v)'
  <1>0. /\ worker \in [Workers -> Attempts] /\ row \in [Prints -> Workers \cup {None, "queued"}]
        /\ worker[w] \in Attempts /\ faults \in Nat /\ faults' \in Nat /\ faults' >= faults /\ AttemptOK(w)
    BY FaultsGrow DEF Typed
  <1>1. ASSUME NEW c \in Workers \ {w} PROVE AttemptOK(c)'
    <2>1. worker'[c] = worker[c] /\ Busy(c)' = Busy(c) /\ (Busy(c) => Owns(c)' = Owns(c))
      BY <1>1, OthersStay
    <2> QED
      BY <1>0, <2>1 DEF AttemptOK, At
  <1> SUFFICES AttemptOK(w)'
    BY <1>1
  <1>2. CASE \E f \in Prints : Claim(w, f)
    <2>1. PICK f \in Prints : Claim(w, f)
      BY <1>2
    <2>2. worker'[w].step = "read" /\ worker'[w].key = f /\ worker'[w].did = None /\ row'[f] = w
      BY <1>0, <2>1 DEF Claim, Idle
    <2> QED
      BY <2>2 DEF AttemptOK, Busy, Owns
  <1>3. CASE Read(w) \/ Look(w) \/ Cap(w)
    <2>1. worker'[w].key = worker[w].key /\ worker'[w].did = worker[w].did /\ worker'[w].step # "idle"
          /\ row' = row
      BY <1>0, <1>3 DEF Read, Look, Cap, Go, Attempts
    <2>2. Busy(w) /\ worker[w].did = None
      BY <1>0, <1>3 DEF AttemptOK, Read, Look, Cap, At, Reading, Busy
    <2> QED
      BY <1>0, <2>1, <2>2 DEF AttemptOK, Busy, Owns
  <1>4. CASE Post(w) \/ Guard(w) \/ Update(w)
    <2>1. \/ worker'[w] = Idle
          \/ /\ worker'[w].key = worker[w].key /\ worker'[w].step \in Done \cup {"ending"}
             /\ row' = row
      BY <1>0, <1>4 DEF Post, Guard, Update, Go, Attempts, Done
    <2>2. Busy(w)
      BY <1>4 DEF Post, Guard, Update, At, Busy
    <2>3. CASE worker'[w] = Idle
      BY <2>3 DEF AttemptOK, Busy, Idle
    <2>4. CASE worker'[w] # Idle
      BY <1>0, <2>1, <2>2, <2>4 DEF AttemptOK, Busy, Owns, Reading, Done
    <2> QED
      BY <2>3, <2>4
  <1>5. CASE Off(w) \/ Ends(w) \/ AnswerLost(w) \/ Throws(w)
    <2>1. worker'[w] = Idle
      BY <1>0, <1>5 DEF Off, Ends, AnswerLost, Throws, Failed
    <2> QED
      BY <2>1 DEF AttemptOK, Busy, Idle
  <1>6. CASE Lapse(w)
    BY <1>0, <1>6 DEF Lapse, AttemptOK, Busy
  <1> QED
    BY <1>2, <1>3, <1>4, <1>5, <1>6 DEF Moves, Deliver

LEMMA AttemptAround ==
  ASSUME Typed, \A v \in Workers : AttemptOK(v), Around, [Next]_vars
  PROVE  \A v \in Workers : AttemptOK(v)'
  <1>0. /\ worker \in [Workers -> Attempts] /\ row \in [Prints -> Workers \cup {None, "queued"}]
        /\ faults \in Nat /\ faults' \in Nat /\ faults' >= faults
    BY FaultsGrow DEF Typed
  <1>1. CASE Restart
    BY <1>1 DEF Restart, AttemptOK, Busy, Idle
  <1>2. CASE ~Restart
    <2>1. worker' = worker /\ \A f \in Prints : row[f] \in Workers => row'[f] = row[f]
      BY ReportsAssumption, <1>0, <1>2
      DEF Around, Save, CountedOnly, Sweep, Queued, TokenSet, HourPasses, DayPasses, Close, ConstantsOK
    <2> QED
      BY <1>0, <2>1 DEF AttemptOK, Busy, Owns, At
  <1> QED
    BY <1>1, <1>2

-----------------------------------------------------------------------------
(* The caps, step by step *)

Mark(yes) == IF yes THEN 1 ELSE 0

\* Sets that differ by one element at most.
LEMMA Differ ==
  ASSUME NEW S, NEW T, IsFiniteSet(S), IsFiniteSet(T), NEW x, S \ {x} = T \ {x}
  PROVE  Cardinality(T) + Mark(x \in S) = Cardinality(S) + Mark(x \in T)
  <1>1. Cardinality(S \ {x}) = IF x \in S THEN Cardinality(S) - 1 ELSE Cardinality(S)
    BY FS_RemoveElement
  <1>2. Cardinality(T \ {x}) = IF x \in T THEN Cardinality(T) - 1 ELSE Cardinality(T)
    BY FS_RemoveElement
  <1>3. Cardinality(S) \in Nat /\ Cardinality(T) \in Nat
    BY FS_CardinalityType
  <1> QED
    BY <1>1, <1>2, <1>3 DEF Mark

LEMMA Crew == Workers # {} /\ IsFiniteSet(Workers) /\ Cardinality(Workers) \in Nat \ {0}
  BY ReportsAssumption, FS_CardinalityType, FS_EmptySet DEF ConstantsOK

\* The sets of workers that the caps are about.
LEMMA Counted ==
  ASSUME NEW S \in SUBSET Workers
  PROVE  IsFiniteSet(S) /\ Cardinality(S) \in Nat /\ Cardinality(S) <= Cardinality(Workers)
  BY Crew, FS_Subset, FS_CardinalityType

\* What one worker's step may do to its own marks, the finished rows, the day and the faults.
LEMMA CapMove ==
  ASSUME Typed, Typed', \A v \in Workers : AttemptOK(v), NEW w \in Workers, Moves(w), [Next]_vars,
         NEW k \in Kinds, AllowanceOK(k), PostsOK(k),
         \/ results'[k] + Mark(Spends(w, k)') <= results[k] + Mark(Spends(w, k))
         \/ results'[k] < Limit(k),
         day'[k] + Mark(Strays(w)') + results[k] + Mark(WillCount(w, k)) + faults
           <= day[k] + Mark(Strays(w)) + results'[k] + Mark(WillCount(w, k)') + faults'
  PROVE  AllowanceOK(k)' /\ PostsOK(k)'
  <1> DEFINE W == Cardinality(Workers)
             Others == Workers \ {w}
  <1>0. /\ results[k] \in Nat /\ results'[k] \in Nat /\ day[k] \in Nat /\ day'[k] \in Nat
        /\ faults \in Nat /\ (faults' = faults \/ faults' = faults + 1)
        /\ W \in Nat \ {0} /\ Limit(k) \in Nat
    BY ReportsAssumption, Crew, FaultsGrow DEF Typed, ConstantsOK, Limit
  <1>1. \A c \in Others : /\ worker'[c] = worker[c] /\ Busy(c)' = Busy(c)
                          /\ Busy(c) => Owns(c)' = Owns(c)
    BY OthersStay
  <1>2. \A c \in Others : /\ Spends(c, k)' = Spends(c, k) /\ Strays(c)' = Strays(c)
                          /\ WillCount(c, k)' = WillCount(c, k)
    <2>1. TAKE c \in Others
    <2>2. worker'[c] = worker[c] /\ (Busy(c) => Owns(c)' = Owns(c)) /\ AttemptOK(c) /\ None \notin Kinds
      BY <1>1, ReportsAssumption DEF ConstantsOK, Kinds
    <2>3. CASE Busy(c)
      BY <2>2, <2>3 DEF Spends, Strays, WillCount, At, Busy
    <2>4. CASE ~Busy(c)
      BY <2>2, <2>4 DEF AttemptOK, Spends, Strays, WillCount, At, Busy, Reading, Idle
    <2> QED
      BY <2>3, <2>4
  <1>3. /\ Cardinality(Spending(k)') + Mark(Spends(w, k)) = Cardinality(Spending(k)) + Mark(Spends(w, k)')
        /\ Cardinality(Stray') + Mark(Strays(w)) = Cardinality(Stray) + Mark(Strays(w)')
        /\ Cardinality(Counting(k)') + Mark(WillCount(w, k))
             = Cardinality(Counting(k)) + Mark(WillCount(w, k)')
    <2>1. /\ Spending(k) \in SUBSET Workers /\ Spending(k)' \in SUBSET Workers
          /\ Stray \in SUBSET Workers /\ Stray' \in SUBSET Workers
          /\ Counting(k) \in SUBSET Workers /\ Counting(k)' \in SUBSET Workers
      BY DEF Spending, Stray, Counting
    <2>2. Spending(k) \ {w} = Spending(k)' \ {w} /\ Stray \ {w} = Stray' \ {w}
          /\ Counting(k) \ {w} = Counting(k)' \ {w}
      BY <1>2 DEF Spending, Stray, Counting
    <2>3. /\ w \in Spending(k) <=> Spends(w, k)
          /\ w \in Spending(k)' <=> Spends(w, k)'
          /\ w \in Stray <=> Strays(w)
          /\ w \in Stray' <=> Strays(w)'
          /\ w \in Counting(k) <=> WillCount(w, k)
          /\ w \in Counting(k)' <=> WillCount(w, k)'
      BY DEF Spending, Stray, Counting
    <2>4. Cardinality(Spending(k)') + Mark(w \in Spending(k)) = Cardinality(Spending(k)) + Mark(w \in Spending(k)')
      BY <2>1, <2>2, Counted, Differ
    <2>5. Cardinality(Stray') + Mark(w \in Stray) = Cardinality(Stray) + Mark(w \in Stray')
      BY <2>1, <2>2, Counted, Differ
    <2>6. Cardinality(Counting(k)') + Mark(w \in Counting(k)) = Cardinality(Counting(k)) + Mark(w \in Counting(k)')
      BY <2>1, <2>2, Counted, Differ
    <2> QED
      BY <2>3, <2>4, <2>5, <2>6 DEF Mark
  <1>4. /\ Cardinality(Spending(k)) \in Nat /\ Cardinality(Spending(k)') \in Nat
        /\ Cardinality(Spending(k)') <= W
        /\ Cardinality(Stray) \in Nat /\ Cardinality(Stray') \in Nat
        /\ Cardinality(Counting(k)) \in Nat /\ Cardinality(Counting(k)') \in Nat
    BY Counted DEF Spending, Stray, Counting
  <1>5. \A yes : Mark(yes) \in {0, 1}
    BY DEF Mark
  <1>6. AllowanceOK(k)'
    <2>1. results'[k] + Cardinality(Spending(k)') + 1 <= Limit(k) + W
      <3> HIDE DEF W
      <3> QED
        BY <1>0, <1>3, <1>4, <1>5 DEF AllowanceOK, W
    <2> QED
      BY <2>1 DEF AllowanceOK, Limit
  <1>7. PostsOK(k)'
    <2>1. W * (faults + 1) = W * faults + W /\ W * faults \in Nat
      BY <1>0
    <2>2. W * faults + faults' <= W * faults' + faults
      BY <1>0, <2>1
    <2>3. day'[k] + Cardinality(Stray') <= results'[k] + Cardinality(Counting(k)') + W * faults'
      BY <1>0, <1>3, <1>4, <1>5, <2>1, <2>2 DEF PostsOK
    <2> QED
      BY <2>3 DEF PostsOK
  <1> QED
    BY <1>6, <1>7

\* Only the cap lets a worker spend, when the day's finished rows are below the limit; and a
\* post is either going to count, or was a stray's, or a fault is to blame.
LEMMA CapMoves ==
  ASSUME Typed, Typed', \A v \in Workers : AttemptOK(v), NEW w \in Workers, Moves(w), [Next]_vars,
         \A k \in Kinds : AllowanceOK(k) /\ PostsOK(k)
  PROVE  \A k \in Kinds : AllowanceOK(k)' /\ PostsOK(k)'
  <1> TAKE k \in Kinds
  <1> DEFINE SpendOK == \/ results'[k] + Mark(Spends(w, k)') <= results[k] + Mark(Spends(w, k))
                        \/ results'[k] < Limit(k)
             BalanceOK == day'[k] + Mark(Strays(w)') + results[k] + Mark(WillCount(w, k)) + faults
                            <= day[k] + Mark(Strays(w)) + results'[k] + Mark(WillCount(w, k)') + faults'
  <1>1. SUFFICES SpendOK /\ BalanceOK
    BY CapMove
  <1>0. /\ results[k] \in Nat /\ results'[k] \in Nat /\ day[k] \in Nat /\ day'[k] \in Nat
        /\ faults \in Nat /\ faults' \in Nat
        /\ worker \in [Workers -> Attempts] /\ row \in [Prints -> Workers \cup {None, "queued"}]
        /\ worker[w] \in Attempts /\ AttemptOK(w) /\ k # None /\ k \in Kinds
        /\ worker[w].did \in Kinds \cup {None}
    BY ReportsAssumption DEF Typed, ConstantsOK, Kinds, Attempts
  <1>2. \A yes : Mark(yes) \in {0, 1} /\ (yes => Mark(yes) = 1) /\ (~yes => Mark(yes) = 0)
    BY DEF Mark
  \* Nothing was posted or finished, and the worker keeps what it had or is done.
  <1>3. ASSUME results' = results, day' = day, faults' = faults \/ faults' = faults + 1,
               Spends(w, k)' => Spends(w, k), Strays(w)' => Strays(w),
               faults' = faults => (WillCount(w, k) => WillCount(w, k)')
        PROVE  SpendOK /\ BalanceOK
    BY <1>0, <1>2, <1>3
  <1>4. worker'[w] = Idle => ~Spends(w, k)' /\ ~Strays(w)' /\ ~WillCount(w, k)'
    BY <1>0 DEF Idle, Spends, Strays, WillCount, Reading, At
  <1>5. worker[w].step \in Reading => worker[w].did = None /\ ~WillCount(w, k)
    BY <1>0 DEF AttemptOK, Busy, Reading, WillCount
  <1>6. CASE \E f \in Prints : Claim(w, f)
    <2>1. PICK f \in Prints : Claim(w, f)
      BY <1>6
    <2>2. worker[w] = Idle /\ ~WillCount(w, k)
      BY <1>0, <2>1 DEF Claim, AttemptOK, Busy, At, Idle, WillCount
    <2>3. worker'[w].step = "read" /\ worker'[w].key = f /\ worker'[w].did = None /\ row'[f] = w
      BY <1>0, <2>1 DEF Claim, Idle
    <2>4. ~Spends(w, k)' /\ ~Strays(w)'
      BY <1>0, <2>3 DEF Spends, Strays, Owns, At
    <2> QED
      BY <1>3, <2>1, <2>2, <2>4 DEF Claim
  <1>7. CASE Read(w) \/ Look(w)
    <2>1. worker[w].step \in Reading
      BY <1>7 DEF Read, Look, At, Reading
    <2>2. worker'[w].key = worker[w].key /\ worker'[w].did = worker[w].did /\ worker'[w].step # "post"
          /\ row' = row
      BY <1>0, <1>7 DEF Read, Look, Go, Attempts
    <2>3. ~Spends(w, k)' /\ (Strays(w)' => Strays(w))
      BY <1>0, <1>5, <2>1, <2>2 DEF Spends, Strays, Owns, At
    <2> QED
      BY <1>3, <1>5, <1>7, <2>1, <2>3 DEF Read, Look
  <1>8. CASE Cap(w)
    <2>1. worker[w].step \in Reading /\ worker[w].step = "cap"
      BY <1>8 DEF Cap, At, Reading
    <2>2. /\ worker'[w].key = worker[w].key /\ worker'[w].did = worker[w].did
          /\ worker'[w].opening = worker[w].opening /\ row' = row
          /\ worker'[w].step = "post" /\ worker[w].key \in Automatic =>
               results[Kind(worker[w].opening)] < Limit(Kind(worker[w].opening))
      <3>1. results[Kind(worker[w].opening)] \in Nat /\ Limit(Kind(worker[w].opening)) \in Nat
        BY ReportsAssumption DEF Typed, Kind, Kinds, Limit, ConstantsOK
      <3> QED
        BY <1>0, <1>8, <3>1 DEF Cap, Go, Attempts, Capped
    <2>3. Spends(w, k)' => results'[k] < Limit(k)
      BY <1>0, <1>5, <1>8, <2>1, <2>2 DEF Spends, At, Cap
    <2>4. Strays(w)' => Strays(w)
      BY <2>1, <2>2 DEF Strays, Owns
    <2>5. results' = results /\ day' = day /\ faults' = faults
      BY <1>8 DEF Cap
    <2> QED
      BY <1>0, <1>2, <1>5, <2>1, <2>3, <2>4, <2>5
  <1>9. CASE Post(w)
    <2>1. worker[w].step = "post" /\ worker[w].step \in Reading /\ worker[w].key \in Prints
      BY <1>0, <1>9 DEF Post, At, Reading, AttemptOK, Busy
    <2>2. /\ worker'[w].step = "guard" /\ worker'[w].key = worker[w].key
          /\ worker'[w].did = Kind(worker[w].opening) /\ row' = row
      BY <1>0, <1>9 DEF Post, Attempts
    <2>3. results' = results /\ faults' = faults
      BY <1>9 DEF Post
    <2>4. day'[k] = IF worker[w].key \in Automatic /\ Kind(worker[w].opening) = k THEN day[k] + 1 ELSE day[k]
      BY <1>0, <1>9 DEF Post, Posted, Typed, Kind, Kinds
    <2>5. Spends(w, k)' = Spends(w, k)
      BY <1>0, <1>5, <2>1, <2>2 DEF Spends, At
    <2>6. ~Strays(w)'
      BY <2>2 DEF Strays, Reading
    <2>7. SpendOK /\ results'[k] = results[k] /\ ~WillCount(w, k)
      BY <1>0, <1>2, <1>5, <2>1, <2>3, <2>5
    <2>8. CASE Owns(w)
      <3>1. WillCount(w, k)' <=> (worker[w].key \in Automatic /\ Kind(worker[w].opening) = k)
        BY <2>2, <2>8 DEF WillCount, Owns
      <3>2. day'[k] <= day[k] + Mark(WillCount(w, k)')
        BY <1>0, <1>2, <2>4, <3>1
      <3>3. BalanceOK
        BY <1>0, <1>2, <2>3, <2>6, <2>7, <3>2
      <3> QED
        BY <2>7, <3>3
    <2>9. CASE ~Owns(w)
      <3>1. Mark(Strays(w)) = 1
        BY <1>2, <2>1, <2>9 DEF Strays
      <3>2. day'[k] <= day[k] + 1
        BY <1>0, <2>4
      <3>3. BalanceOK
        BY <1>0, <1>2, <2>3, <2>6, <2>7, <3>1, <3>2
      <3> QED
        BY <2>7, <3>3
    <2> QED
      BY <2>8, <2>9
  <1>10. CASE AnswerLost(w)
    <2>1. worker[w].step = "post" /\ worker[w].step \in Reading /\ worker'[w] = Idle
      BY <1>0, <1>10 DEF AnswerLost, Failed, At, Reading
    <2>2. results' = results /\ faults' = faults + 1
      BY <1>10 DEF AnswerLost
    <2>3. day'[k] <= day[k] + 1
      BY <1>0, <1>10 DEF AnswerLost, Posted, Typed, Kind, Kinds
    <2> QED
      BY <1>0, <1>2, <1>4, <1>5, <2>1, <2>2, <2>3
  <1>11. CASE Off(w) \/ Throws(w)
    <2>1. worker[w].step \in Reading /\ worker'[w] = Idle
      BY <1>0, <1>11 DEF Off, Throws, At, Reading
    <2> QED
      BY <1>3, <1>4, <1>5, <1>11, <2>1 DEF Off, Throws
  <1>12. CASE Guard(w) \/ Update(w)
    <2>1. /\ worker[w].step \in Done /\ UNCHANGED <<row, results, day, faults>>
          /\ \/ worker'[w] = Idle /\ ~Owns(w)
             \/ /\ worker'[w].step \in {"update", "ending"} /\ worker'[w].key = worker[w].key
                /\ worker'[w].did = worker[w].did
      BY <1>0, <1>12 DEF Guard, Update, Go, At, Done, Attempts
    <2>2. CASE worker'[w] = Idle /\ ~Owns(w)
      BY <1>3, <1>4, <2>1, <2>2 DEF WillCount
    <2>3. CASE ~(worker'[w] = Idle /\ ~Owns(w))
      <3>1. (Spends(w, k)' => Spends(w, k)) /\ ~Strays(w)' /\ (WillCount(w, k) => WillCount(w, k)')
        BY <2>1, <2>3 DEF Spends, Strays, WillCount, Owns, At, Reading
      <3> QED
        BY <1>3, <2>1, <3>1
    <2> QED
      BY <2>2, <2>3
  <1>13. CASE Ends(w)
    <2>1. worker'[w] = Idle /\ UNCHANGED <<day, faults>>
      BY <1>0, <1>13 DEF Ends
    <2>2. results'[k] = IF WillCount(w, k) THEN results[k] + 1 ELSE results[k]
      BY <1>0, <1>13 DEF Ends, WillCount, Typed
    <2>3. WillCount(w, k) => Spends(w, k)
      BY DEF WillCount, Spends
    <2> QED
      BY <1>0, <1>2, <1>4, <2>1, <2>2, <2>3
  <1>14. CASE Lapse(w)
    <2>1. worker' = worker /\ results' = results /\ day' = day /\ faults' = faults + 1
      BY <1>14 DEF Lapse
    <2>2. Spends(w, k)' = Spends(w, k)
      BY <2>1 DEF Spends, At
    <2>3. Owns(w) /\ ~(WillCount(w, k) /\ Strays(w)')
      BY <1>5, <1>14, <2>1 DEF Lapse, Strays
    <2> QED
      BY <1>0, <1>2, <2>1, <2>2, <2>3
  <1> QED
    BY <1>6, <1>7, <1>8, <1>9, <1>10, <1>11, <1>12, <1>13, <1>14 DEF Moves, Deliver

\* Nothing else spends; the day's end forgets both sides, and a restart makes every worker
\* forget a post at most.
LEMMA CapAround ==
  ASSUME Typed, Typed', \A v \in Workers : AttemptOK(v), Around, [Next]_vars,
         \A k \in Kinds : AllowanceOK(k) /\ PostsOK(k)
  PROVE  \A k \in Kinds : AllowanceOK(k)' /\ PostsOK(k)'
  <1> TAKE k \in Kinds
  <1> DEFINE W == Cardinality(Workers)
  <1>0. /\ results[k] \in Nat /\ results'[k] \in Nat /\ day[k] \in Nat /\ day'[k] \in Nat
        /\ faults \in Nat /\ (faults' = faults \/ faults' = faults + 1)
        /\ W \in Nat \ {0} /\ Limit(k) \in Nat /\ k # None
    BY ReportsAssumption, Crew, FaultsGrow DEF Typed, ConstantsOK, Limit, Kinds
  <1>1. /\ Cardinality(Spending(k)) \in Nat /\ Cardinality(Stray) \in Nat /\ Cardinality(Stray) <= W
        /\ Cardinality(Counting(k)) \in Nat /\ Cardinality(Counting(k)) <= W
    BY Counted DEF Spending, Stray, Counting
  <1>2. W * faults \in Nat /\ W * (faults + 1) = W * faults + W /\ W * faults <= W * faults'
    BY <1>0
  <1>3. CASE Restart
    <2>1. /\ \A v \in Workers : worker'[v] = Idle
          /\ results' = results /\ day' = day /\ faults' = faults + 1
      BY <1>3 DEF Restart
    <2>2. \A v \in Workers : ~Spends(v, k)' /\ ~Strays(v)'
      BY <1>0, <2>1 DEF Spends, Strays, Idle, Reading, At
    <2>3. \A v \in Workers : ~WillCount(v, k)'
      BY <1>0, <2>1 DEF WillCount, Idle
    <2>4. Spending(k)' = {} /\ Stray' = {} /\ Counting(k)' = {}
      BY <2>2, <2>3 DEF Spending, Stray, Counting
    <2>5. Cardinality(Spending(k)') = 0 /\ Cardinality(Stray') = 0 /\ Cardinality(Counting(k)') = 0
      BY <2>4, FS_EmptySet
    <2>6. results'[k] + Cardinality(Spending(k)') + 1 <= Limit(k) + W
      BY <1>0, <1>1, <2>1, <2>5 DEF AllowanceOK
    <2>7. day'[k] + Cardinality(Stray') <= results'[k] + Cardinality(Counting(k)') + W * faults'
      BY <1>0, <1>1, <1>2, <2>1, <2>5 DEF PostsOK
    <2> QED
      BY <2>6, <2>7 DEF AllowanceOK, PostsOK, Limit
  <1>4. ASSUME ~Restart
        PROVE  Spending(k)' = Spending(k) /\ Stray' = Stray /\ Counting(k)' = Counting(k)
    <2>1. worker' = worker /\ \A f \in Prints : \A v \in Workers : row'[f] = v <=> row[f] = v
      BY ReportsAssumption, <1>4
      DEF Around, Save, CountedOnly, Sweep, Queued, TokenSet, HourPasses, DayPasses, Close, ConstantsOK, Typed
    <2>2. \A v \in Workers : Spends(v, k)' = Spends(v, k)
      BY <2>1 DEF Spends, At
    <2>3. \A v \in Workers : Strays(v)' = Strays(v) /\ WillCount(v, k)' = WillCount(v, k)
      <3>1. TAKE v \in Workers
      <3>2. CASE Busy(v)
        BY <2>1, <3>2 DEF Strays, WillCount, Owns, AttemptOK, Busy
      <3>3. CASE ~Busy(v)
        BY <1>0, <2>1, <3>3 DEF Strays, WillCount, AttemptOK, Busy, Idle, Reading
      <3> QED
        BY <3>2, <3>3
    <2> QED
      BY <2>2, <2>3 DEF Spending, Stray, Counting
  <1>5. CASE DayPasses
    <2>1. ~Restart /\ results'[k] = 0 /\ day'[k] = 0 /\ faults' = faults
      BY <1>0, <1>5 DEF DayPasses, Restart, Spent
    <2>2. Spending(k)' = Spending(k) /\ Stray' = Stray /\ Counting(k)' = Counting(k)
      BY <1>4, <2>1
    <2>3. Cardinality(Stray) <= W * faults
      <3>1. CASE faults = 0
        <4>1. Stray = {}
          BY <3>1 DEF Stray, Strays, AttemptOK, Busy, Reading
        <4> QED
          BY <1>2, <4>1, FS_EmptySet
      <3>2. CASE faults # 0
        <4>1. PICK n \in Nat : faults = n + 1
          BY <1>0, <3>2
        <4>2. W * (n + 1) = W * n + W /\ W * n \in Nat
          BY <1>0, <4>1
        <4> QED
          BY <1>0, <1>1, <4>1, <4>2
      <3> QED
        BY <3>1, <3>2
    <2>4. results'[k] + Cardinality(Spending(k)') + 1 <= Limit(k) + W
      BY <1>0, <1>1, <2>1, <2>2 DEF AllowanceOK
    <2>5. day'[k] + Cardinality(Stray') <= results'[k] + Cardinality(Counting(k)') + W * faults'
      BY <1>0, <1>1, <1>2, <2>1, <2>2, <2>3
    <2> QED
      BY <2>4, <2>5 DEF AllowanceOK, PostsOK, Limit
  <1>6. CASE ~Restart /\ ~DayPasses
    <2>1. results' = results /\ day' = day
      BY <1>6 DEF Around, Save, CountedOnly, Sweep, TokenSet, HourPasses, Close
    <2>2. results'[k] + Cardinality(Spending(k)') + 1 <= Limit(k) + W
      BY <1>4, <1>6, <2>1 DEF AllowanceOK
    <2>3. day'[k] + Cardinality(Stray') <= results'[k] + Cardinality(Counting(k)') + W * faults'
      BY <1>0, <1>1, <1>2, <1>4, <1>6, <2>1 DEF PostsOK
    <2> QED
      BY <2>2, <2>3 DEF AllowanceOK, PostsOK, Limit
  <1> QED
    BY <1>3, <1>5, <1>6

\* What was posted is counted or spends, so the invariant gives the caps.
LEMMA CapsFollow ==
  ASSUME Typed, \A k \in Kinds : AllowanceOK(k) /\ PostsOK(k)
  PROVE  CapsHold
  <1> DEFINE W == Cardinality(Workers)
  <1>1. ASSUME NEW k \in Kinds PROVE day[k] <= Limit(k) + ((W - 1) + W * faults)
    <2>1. Counting(k) \in SUBSET Spending(k) /\ Spending(k) \in SUBSET Workers
      BY DEF Counting, Spending, WillCount, Spends
    <2>2. Cardinality(Counting(k)) <= Cardinality(Spending(k))
      BY <2>1, Counted, FS_Subset
    <2>3. /\ Cardinality(Spending(k)) \in Nat /\ Cardinality(Counting(k)) \in Nat /\ Cardinality(Stray) \in Nat
          /\ W \in Nat \ {0} /\ Limit(k) \in Nat /\ results[k] \in Nat /\ day[k] \in Nat /\ faults \in Nat
      BY ReportsAssumption, Crew, Counted DEF Counting, Spending, Stray, Typed, ConstantsOK, Limit
    <2>4. W * faults \in Nat
      BY <2>3
    <2> QED
      BY <1>1, <2>2, <2>3, <2>4 DEF AllowanceOK, PostsOK
  <1> QED
    BY <1>1 DEF CapsHold

-----------------------------------------------------------------------------
(* The count, step by step *)

\* Occurrences are never forgotten, and only the update writes what was posted.
Grow(f) ==
  /\ told'[f] >= told[f] /\ report'[f].count >= report[f].count
  /\ report'[f].posted = report[f].posted /\ report'[f].issue = report[f].issue

LEMMA Keys ==
  ASSUME Typed, NEW w \in Workers, AttemptOK(w), Busy(w)
  PROVE  /\ worker[w].key \in Prints /\ worker[w].count \in Nat /\ worker[w].posted \in Nat
         /\ worker[w].issue \in Nat /\ worker[w].opening \in BOOLEAN
         /\ report[worker[w].key].count \in Nat /\ report[worker[w].key].posted \in Nat
         /\ report[worker[w].key].issue \in Nat /\ told[worker[w].key] \in Nat
  BY DEF Typed, AttemptOK, Attempts, Stored

LEMMA CountAround ==
  ASSUME Typed, Around
  PROVE  \A f \in Prints : Grow(f) /\ told'[f] = told[f]
  <1>1. CASE \E f \in Prints : Save(f) \/ CountedOnly(f)
    <2>1. PICK f \in Prints : report' = [report EXCEPT ![f].count = @ + 1] /\ told' = told
      BY <1>1 DEF Save, CountedOnly
    <2>2. \A g \in Prints : /\ report[g].count \in Nat /\ told[g] \in Nat
                            /\ report'[g].count \in {report[g].count, report[g].count + 1}
                            /\ report'[g].posted = report[g].posted /\ report'[g].issue = report[g].issue
      BY <2>1 DEF Typed, Stored
    <2> QED
      BY <2>1, <2>2 DEF Grow
  <1>2. CASE HourPasses
    <2>1. \A g \in Prints : /\ report[g].count \in Nat /\ told'[g] = told[g] /\ told[g] \in Nat
                            /\ report'[g].count = report[g].count
                            /\ report'[g].posted = report[g].posted /\ report'[g].issue = report[g].issue
      BY <1>2 DEF HourPasses, Typed, Stored
    <2> QED
      BY <2>1 DEF Grow
  <1>3. CASE (\E f \in Prints : Sweep(f)) \/ Restart \/ TokenSet \/ DayPasses \/ (\E n \in DOMAIN issues : Close(n))
    <2>1. report' = report /\ told' = told
      BY <1>3 DEF Sweep, Restart, TokenSet, DayPasses, Close
    <2>2. \A g \in Prints : report[g].count \in Nat /\ told[g] \in Nat
      BY DEF Typed, Stored
    <2> QED
      BY <2>1, <2>2 DEF Grow
  <1> QED
    BY <1>1, <1>2, <1>3 DEF Around

\* A post tells GitHub what was counted since the last one.
LEMMA CountPosted ==
  ASSUME Typed, NEW w \in Workers, AttemptOK(w), ReadOK(w), At(w, "post"), Posted(w)
  PROVE  /\ \A f \in Prints \ {worker[w].key} : told'[f] = told[f]
         /\ told'[worker[w].key] = told[worker[w].key] + (worker[w].count - worker[w].posted)
         /\ worker[w].posted <= worker[w].count
  <1>1. Busy(w)
    BY DEF Busy, At
  <1> QED
    BY <1>1, Keys DEF Typed, Posted, ReadOK, At

LEMMA CountMoves ==
  ASSUME Typed, NEW w \in Workers, AttemptOK(w), ReadOK(w), Moves(w)
  PROVE  \/ (\A f \in Prints : Grow(f)) /\ (At(w, "post") \/ told' = told)
         \/ Update(w) /\ told' = told
            /\ (\A f \in Prints : report'[f].count = report[f].count)
            /\ (\A f \in Prints \ {worker[w].key} : report'[f] = report[f])
            /\ report'[worker[w].key].posted = worker[w].count
            /\ report'[worker[w].key].issue = worker[w].issue
  <1>0. \A g \in Prints : report[g].count \in Nat /\ told[g] \in Nat
    BY DEF Typed, Stored
  <1>1. CASE Update(w)
    <2>1. worker[w].key \in Prints
      BY <1>1, Keys DEF Busy, Update, At
    <2> QED
      BY <1>1, <2>1 DEF Update, Typed, Stored
  <1>2. CASE Post(w) \/ AnswerLost(w)
    <2>1. At(w, "post") /\ Posted(w) /\ report' = report
      BY <1>2 DEF Post, AnswerLost
    <2>2. \A f \in Prints : told'[f] >= told[f]
      <3>1. worker[w].count \in Nat /\ worker[w].posted \in Nat
        BY <2>1, Keys DEF At, Busy
      <3> QED
        BY <1>0, <2>1, <3>1, CountPosted
    <2> QED
      BY <1>0, <2>1, <2>2 DEF Grow
  <1>3. CASE ~Update(w) /\ ~Post(w) /\ ~AnswerLost(w)
    <2>1. report' = report /\ told' = told
      BY <1>3 DEF Moves, Deliver, Read, Look, Cap, Off, Guard, Ends, Throws, Lapse, Claim
    <2> QED
      BY <1>0, <2>1 DEF Grow
  <1> QED
    BY <1>1, <1>2, <1>3

\* What is read was counted and told, and what is written too.
LEMMA CountKeeps ==
  ASSUME Typed, Typed', [Next]_vars, \A v \in Workers : AttemptOK(v), \A v \in Workers : ReadOK(v),
         \A f \in Prints : CountOK(f), Around \/ \E w \in Workers : Moves(w)
  PROVE  (\A f \in Prints : CountOK(f)') /\ (\A v \in Workers : ReadOK(v)')
  <1>0. \A f \in Prints : /\ report[f].count \in Nat /\ report[f].posted \in Nat /\ told[f] \in Nat
                          /\ report'[f].count \in Nat /\ report'[f].posted \in Nat /\ told'[f] \in Nat
    BY DEF Typed, Stored
  <1>1. CASE Around
    <2>1. \A f \in Prints : Grow(f)
      BY <1>1, CountAround
    <2>2. \A f \in Prints : CountOK(f)'
      BY <1>0, <2>1 DEF Grow, CountOK
    <2>3. \A v \in Workers : worker'[v] = worker[v] \/ worker'[v] = Idle
      BY <1>1 DEF Around, Save, CountedOnly, Sweep, Restart, TokenSet, HourPasses, DayPasses, Close
    <2>4. \A v \in Workers : ReadOK(v)'
      <3>1. TAKE v \in Workers
      <3>2. CASE worker'[v] = worker[v] /\ Busy(v)
        <4>1. worker[v].key \in Prints /\ worker[v].count \in Nat /\ worker[v].posted \in Nat
          BY <3>2, Keys
        <4> QED
          BY <1>0, <2>1, <3>2, <4>1 DEF ReadOK, Grow
      <3>3. CASE worker'[v].step = "idle"
        BY <3>3 DEF ReadOK, Done
      <3> QED
        BY <2>3, <3>2, <3>3 DEF Busy, Idle
    <2> QED
      BY <2>2, <2>4
  <1>2. ASSUME NEW w \in Workers, Moves(w)
        PROVE  (\A f \in Prints : CountOK(f)') /\ (\A v \in Workers : ReadOK(v)')
    <2>1. \A f \in Prints : told'[f] >= told[f] /\ report'[f].count >= report[f].count
      BY <1>0, <1>2, CountMoves DEF Grow
    <2>2. \A f \in Prints : CountOK(f)'
      <3>1. TAKE f \in Prints
      <3>2. CASE report'[f].posted = report[f].posted
        BY <1>0, <2>1, <3>2 DEF CountOK
      <3>3. CASE report'[f].posted # report[f].posted
        <4>1. Update(w) /\ worker[w].key = f /\ report'[f].posted = worker[w].count
          BY <1>2, <3>3, CountMoves DEF Grow
        <4>2. worker[w].count \in Nat /\ worker[w].count <= told[f] /\ worker[w].count <= report[f].count
          BY <4>1, Keys DEF Update, At, Busy, ReadOK, Done
        <4> QED
          BY <1>0, <2>1, <4>1, <4>2 DEF CountOK
      <3> QED
        BY <3>2, <3>3
    <2>3. ASSUME NEW c \in Workers \ {w} PROVE ReadOK(c)'
      <3>1. worker'[c] = worker[c]
        BY <1>2, <2>3, OthersStay
      <3>2. CASE Busy(c)
        <4>1. worker[c].key \in Prints /\ worker[c].count \in Nat /\ worker[c].posted \in Nat
          BY <3>2, Keys
        <4> QED
          BY <1>0, <2>1, <3>1, <4>1 DEF ReadOK
      <3>3. CASE ~Busy(c)
        BY <3>1, <3>3 DEF ReadOK, Busy, Done
      <3> QED
        BY <3>2, <3>3
    <2>4. ReadOK(w)'
      <3>0. worker \in [Workers -> Attempts] /\ worker[w] \in Attempts /\ worker'[w] \in Attempts
        BY DEF Typed
      <3>1. CASE worker'[w].step \notin Done \cup {"look", "cap", "post"}
        BY <3>1 DEF ReadOK
      <3>2. CASE Read(w) /\ worker'[w].step \in Done \cup {"look", "cap", "post"}
        <4>1. Busy(w) /\ report' = report /\ told' = told
          BY <3>2 DEF Read, At, Busy
        <4>2. ~Go(w, "ending")
          <5>1. Go(w, "ending") => worker'[w].step = "ending"
            BY <3>0 DEF Go, Attempts
          <5> QED
            BY <3>2, <5>1 DEF Done
        <4>3. /\ worker'[w].step = "look" /\ worker'[w].key = worker[w].key
              /\ worker'[w].count = report[worker[w].key].count /\ worker'[w].posted = report[worker[w].key].posted
          BY <3>0, <3>2, <4>2 DEF Read, Attempts
        <4>4. /\ worker[w].key \in Prints /\ CountOK(worker[w].key)
              /\ report[worker[w].key].count \in Nat /\ report[worker[w].key].posted \in Nat
          BY <4>1, Keys
        <4> QED
          BY <4>1, <4>3, <4>4 DEF ReadOK, CountOK, Done
      <3>3. CASE (Look(w) \/ Cap(w) \/ Lapse(w)) /\ worker'[w].step \in Done \cup {"look", "cap", "post"}
        <4>1. Busy(w) /\ report' = report /\ told' = told
          BY <3>3 DEF Look, Cap, Lapse, At, Busy
        <4>2. /\ worker'[w].key = worker[w].key /\ worker'[w].count = worker[w].count
              /\ worker'[w].posted = worker[w].posted
              /\ worker'[w].step \in Done <=> worker[w].step \in Done
              /\ worker'[w].step \in {"look", "cap", "post"} <=> worker[w].step \in {"look", "cap", "post"}
          BY <3>0, <3>3 DEF Look, Cap, Lapse, Go, At, Done, Attempts
        <4> QED
          BY <4>1, <4>2 DEF ReadOK
      <3>4. CASE Post(w)
        <4>1. At(w, "post") /\ Posted(w) /\ Busy(w) /\ report' = report
          BY <3>4 DEF Post, At, Busy
        <4>2. /\ worker'[w].step = "guard" /\ worker'[w].key = worker[w].key
              /\ worker'[w].count = worker[w].count /\ worker'[w].posted = worker[w].posted
          BY <3>0, <3>4 DEF Post, Attempts
        <4>3. told'[worker[w].key] = told[worker[w].key] + (worker[w].count - worker[w].posted)
          BY <4>1, CountPosted
        <4>4. /\ worker[w].key \in Prints /\ worker[w].count \in Nat /\ worker[w].posted \in Nat
              /\ worker[w].posted <= told[worker[w].key] /\ worker[w].count <= report[worker[w].key].count
          BY <4>1, Keys DEF ReadOK, At
        <4>5. told'[worker[w].key] >= worker[w].count
          BY <1>0, <4>3, <4>4
        <4> QED
          BY <4>1, <4>2, <4>4, <4>5 DEF ReadOK
      <3>5. CASE Guard(w) /\ worker'[w].step \in Done \cup {"look", "cap", "post"}
        <4>1. /\ report' = report /\ told' = told /\ worker[w].step \in Done
              /\ worker'[w].step = "update" /\ worker'[w].key = worker[w].key /\ worker'[w].count = worker[w].count
          BY <3>0, <3>5 DEF Guard, At, Go, Done, Idle, Attempts
        <4> QED
          BY <4>1 DEF ReadOK, Done
      <3>6. ~Read(w) /\ ~Look(w) /\ ~Cap(w) /\ ~Lapse(w) /\ ~Post(w) /\ ~Guard(w)
            => worker'[w].step \in {"idle", "read", "ending"}
        <4>1. Update(w) => worker'[w].step = "ending"
          BY <3>0 DEF Update, Go, Attempts
        <4>2. (\E f \in Prints : Claim(w, f)) => worker'[w].step = "read"
          BY <3>0 DEF Claim, Idle
        <4>3. Off(w) \/ Ends(w) \/ Throws(w) \/ AnswerLost(w) => worker'[w].step = "idle"
          BY <3>0 DEF Off, Ends, Throws, AnswerLost, Failed, Idle
        <4> QED
          BY <1>2, <4>1, <4>2, <4>3 DEF Moves, Deliver
      <3> QED
        BY <3>1, <3>2, <3>3, <3>4, <3>5, <3>6 DEF Done
    <2> QED
      BY <2>2, <2>3, <2>4
  <1> QED
    BY <1>1, <1>2

-----------------------------------------------------------------------------
(* Without faults *)

\* Then the workers have the rows of their fingerprints, and no two the same.
LEMMA OneEach ==
  ASSUME faults = 0, \A v \in Workers : AttemptOK(v), NEW w \in Workers, Busy(w)
  PROVE  /\ Owns(w)
         /\ \A c \in Workers \ {w} : Busy(c) => worker[c].key # worker[w].key
         /\ worker[w].step \notin Done => ~AtDone(worker[w].key)
  <1>1. \A c \in Workers : Busy(c) => row[worker[c].key] = c
    BY DEF AttemptOK, Owns
  <1>2. \A c \in Workers : worker[c].step \in Done => Busy(c)
    BY DEF Done, Busy
  <1> QED
    BY <1>1, <1>2 DEF Owns, AtDone

LEMMA OnceAround ==
  ASSUME Typed, Typed', [Next]_vars, \A v \in Workers : AttemptOK(v), Around, Once
  PROVE  Once'
  <1> SUFFICES ASSUME faults' = 0
               PROVE  (\A f \in Prints : ToldOnce(f)') /\ (\A v \in Workers : ReadOnce(v)')
    BY DEF Once
  <1>1. faults = 0 /\ ~Restart
    BY FaultsGrow DEF Typed, Restart
  <1>2. worker' = worker /\ \A f \in Prints : told'[f] = told[f] /\ report'[f].posted = report[f].posted
                                             /\ report'[f].issue = report[f].issue
    BY <1>1, CountAround
    DEF Grow, Around, Save, CountedOnly, Sweep, TokenSet, HourPasses, DayPasses, Close
  <1>3. \A f \in Prints : \A n \in Nat : SomeOpen(f, n)' => SomeOpen(f, n)
    <2>1. CASE \E m \in DOMAIN issues : Close(m)
      <3>1. PICK m \in DOMAIN issues : issues' = [issues EXCEPT ![m].open = FALSE]
        BY <2>1 DEF Close
      <3>2. DOMAIN issues' = DOMAIN issues
            /\ \A n \in DOMAIN issues : issues'[n].key = issues[n].key /\ (issues'[n].open => issues[n].open)
        <4>1. DOMAIN issues = 1..Len(issues) /\ \A n \in 1..Len(issues) : issues[n] \in GitHubIssue
          BY LenProperties, ElementOfSeq DEF Typed
        <4> QED
          BY <3>1, <4>1 DEF GitHubIssue
      <3> QED
        BY <3>2 DEF SomeOpen
    <2>2. CASE ~\E m \in DOMAIN issues : Close(m)
      <3>1. issues' = issues
        BY <1>1, <2>2 DEF Around, Save, CountedOnly, Sweep, TokenSet, HourPasses, DayPasses
      <3> QED
        BY <3>1 DEF SomeOpen
    <2> QED
      BY <2>1, <2>2
  <1>4. \A f \in Prints : ToldOnce(f)'
    BY <1>1, <1>2, <1>3 DEF Once, ToldOnce, AtDone
  <1>5. \A v \in Workers : ReadOnce(v)'
    <2>1. TAKE v \in Workers
    <2>2. CASE Busy(v)
      <3>1. worker[v].key \in Prints /\ ReadOnce(v)
        BY <1>1, <2>2 DEF AttemptOK, Once
      <3> QED
        BY <1>2, <1>3, <3>1 DEF ReadOnce
    <2>3. CASE ~Busy(v)
      BY <1>2, <2>3 DEF ReadOnce, Busy, Done
    <2> QED
      BY <2>2, <2>3
  <1> QED
    BY <1>4, <1>5

\* A step of a busy worker says nothing of the other fingerprints: what is left to show is
\* its own.
LEMMA OnceOwn ==
  ASSUME Typed, Typed', [Next]_vars, \A v \in Workers : AttemptOK(v), NEW w \in Workers, Busy(w),
         Moves(w), Once, faults' = 0, NEW f \in Prints, worker[w].key = f, ToldOnce(f)', ReadOnce(w)',
         worker'[w].key = f \/ worker'[w] = Idle,
         \A g \in Prints \ {f} : told'[g] = told[g] /\ report'[g] = report[g],
         \A g \in Prints \ {f} : \A n \in Nat : SomeOpen(g, n)' => SomeOpen(g, n)
  PROVE  Once'
  <1>1. faults = 0
    BY FaultsGrow DEF Typed
  <1>2. \A c \in Workers \ {w} : worker'[c] = worker[c]
    BY OthersStay
  <1>3. \A g \in Prints \ {f} : ToldOnce(g)'
    <2>1. TAKE g \in Prints \ {f}
    <2>2. ~AtDone(g)' => ~AtDone(g)
      BY <1>2 DEF AtDone
    <2> QED
      BY <1>1, <2>2 DEF Once, ToldOnce
  <1>4. \A c \in Workers \ {w} : ReadOnce(c)'
    <2>1. TAKE c \in Workers \ {w}
    <2>2. CASE Busy(c)
      <3>1. worker[c].key \in Prints \ {f} /\ ReadOnce(c) /\ worker'[c] = worker[c]
        BY <1>1, <1>2, <2>2, OneEach DEF AttemptOK, Once
      <3> QED
        BY <3>1 DEF ReadOnce
    <2>3. CASE ~Busy(c)
      BY <1>2, <2>3 DEF ReadOnce, Busy, Done
    <2> QED
      BY <2>2, <2>3
  <1> QED
    BY <1>3, <1>4 DEF Once

\* GitHub is told of an occurrence by the one attempt that has read it, and an issue is
\* opened only when none of the fingerprint's is open.
LEMMA OnceMoves ==
  ASSUME Typed, Typed', [Next]_vars, \A v \in Workers : AttemptOK(v), \A v \in Workers : ReadOK(v),
         NEW w \in Workers, Moves(w), Once
  PROVE  Once'
  <1> SUFFICES ASSUME faults' = 0
               PROVE  Once'
    BY DEF Once
  <1>0. /\ faults = 0 /\ worker \in [Workers -> Attempts] /\ worker[w] \in Attempts
        /\ ~Throws(w) /\ ~AnswerLost(w) /\ ~Lapse(w)
    BY FaultsGrow DEF Typed, Throws, AnswerLost, Lapse
  <1>1. CASE \E f \in Prints : Claim(w, f)
    <2>1. PICK f \in Prints : Claim(w, f)
      BY <1>1
    <2>2. /\ told' = told /\ report' = report /\ issues' = issues
          /\ worker[w].step = "idle" /\ worker'[w].step = "read"
          /\ \A c \in Workers \ {w} : worker'[c] = worker[c]
      BY <1>0, <2>1 DEF Claim, At, Idle
    <2>3. \A g \in Prints : AtDone(g)' = AtDone(g)
      BY <2>2 DEF AtDone, Done
    <2>4. \A g \in Prints : ToldOnce(g)'
      BY <1>0, <2>2, <2>3 DEF Once, ToldOnce, SomeOpen
    <2>5. \A c \in Workers : ReadOnce(c)'
      BY <1>0, <2>2 DEF Once, ReadOnce, SomeOpen, Done
    <2> QED
      BY <2>4, <2>5 DEF Once
  <1> SUFFICES ASSUME Deliver(w)
               PROVE  Once'
    BY <1>0, <1>1 DEF Moves
  <1>2. Busy(w) /\ worker[w].key \in Prints
    <2>1. Busy(w)
      BY DEF Deliver, Read, Look, Cap, Post, Off, Guard, Update, Ends, At, Busy
    <2> QED
      BY <2>1, Keys
  <1> DEFINE f == worker[w].key
  <1>3. /\ Owns(w) /\ ToldOnce(f) /\ ReadOnce(w) /\ (worker[w].step \notin Done => ~AtDone(f))
        /\ \A c \in Workers \ {w} : worker'[c] = worker[c] /\ (Busy(c) => worker[c].key # f)
    BY <1>0, <1>2, OneEach, OthersStay DEF Once
  \* Before the post, or after the update, nothing that GitHub or the table has changes.
  <1>4. ASSUME told' = told, report' = report, issues' = issues, worker[w].step \notin Done,
               worker'[w].step \notin Done, worker'[w].key = f \/ worker'[w] = Idle, ReadOnce(w)'
        PROVE  Once'
    <2>1. PICK g \in Prints : g = f
      BY <1>2
    <2>2. ~AtDone(g)
      BY <1>3, <1>4, <2>1
    <2>3. ToldOnce(g)'
      BY <1>3, <1>4, <2>1, <2>2 DEF ToldOnce, SomeOpen
    <2> QED
      BY <1>2, <1>4, <2>1, <2>3, OnceOwn DEF SomeOpen
  <1>5. CASE Read(w)
    <2>1. /\ told' = told /\ report' = report /\ issues' = issues /\ worker[w].step \notin Done
          /\ worker'[w].step \in {"look", "ending"} /\ worker'[w].key = f
          /\ worker'[w].step = "look" => worker'[w].posted = report[f].posted /\ worker'[w].issue = report[f].issue
      BY <1>0, <1>5 DEF Read, Go, At, Done, Attempts
    <2>2. ReadOnce(w)'
      BY <2>1 DEF ReadOnce, Done
    <2> QED
      BY <1>4, <2>1, <2>2 DEF Done
  <1>6. CASE Look(w)
    <2>1. /\ told' = told /\ report' = report /\ issues' = issues /\ worker[w].step = "look"
          /\ worker'[w].step = "cap" /\ worker'[w].key = f /\ worker'[w].posted = worker[w].posted
          /\ worker'[w].issue = worker[w].issue
          /\ worker'[w].opening = (worker[w].issue = 0 \/ ~issues[worker[w].issue].open)
      BY <1>0, <1>6 DEF Look, At, Attempts
    <2>2. ASSUME worker'[w].opening, NEW n \in Nat, SomeOpen(f, n) PROVE FALSE
      <3>1. n = report[f].issue /\ report[f].issue = worker[w].issue
        BY <1>3, <2>1, <2>2 DEF ToldOnce, ReadOnce, Done
      <3>2. n \in 1..Len(issues) /\ Len(issues) \in Nat
        BY <2>2, LenProperties DEF SomeOpen, Typed
      <3>3. worker[w].issue = 0 \/ ~issues[worker[w].issue].open
        BY <2>1, <2>2
      <3>4. issues[n].open /\ n # 0
        BY <2>2, <3>2 DEF SomeOpen
      <3> QED
        BY <3>1, <3>3, <3>4
    <2>3. ReadOnce(w)'
      BY <1>3, <2>1, <2>2 DEF ReadOnce, SomeOpen, Done
    <2> QED
      BY <1>4, <2>1, <2>3 DEF Done
  <1>7. CASE Cap(w)
    <2>1. /\ told' = told /\ report' = report /\ issues' = issues /\ worker[w].step = "cap"
          /\ worker'[w].step \in {"post", "ending"} /\ worker'[w].key = f /\ worker'[w].posted = worker[w].posted
          /\ worker'[w].issue = worker[w].issue /\ worker'[w].opening = worker[w].opening
      BY <1>0, <1>7 DEF Cap, Go, At, Attempts
    <2>2. ReadOnce(w)'
      BY <1>3, <2>1 DEF ReadOnce, SomeOpen, Done
    <2> QED
      BY <1>4, <2>1, <2>2 DEF Done
  <1>8. CASE Off(w) \/ Ends(w)
    <2>1. /\ told' = told /\ report' = report /\ issues' = issues /\ worker[w].step \notin Done
          /\ worker'[w] = Idle
      BY <1>0, <1>8 DEF Off, Ends, At, Done
    <2>2. ReadOnce(w)'
      BY <2>1 DEF ReadOnce, Done, Idle
    <2> QED
      BY <1>4, <2>1, <2>2 DEF Done, Idle
  <1>9. CASE Guard(w)
    <2>1. /\ told' = told /\ report' = report /\ issues' = issues /\ worker[w].step \in Done
          /\ worker'[w].step = "update" /\ worker'[w].key = f /\ worker'[w].count = worker[w].count
          /\ worker'[w].issue = worker[w].issue
      BY <1>0, <1>3, <1>9 DEF Guard, Go, At, Done, Attempts
    <2>2. PICK g \in Prints : g = f
      BY <1>2
    <2>3. ReadOnce(w)'
      BY <1>3, <2>1 DEF ReadOnce, SomeOpen, Done
    <2>4. AtDone(g)'
      BY <2>1, <2>2 DEF AtDone, Done
    <2>5. ToldOnce(g)'
      BY <2>4 DEF ToldOnce
    <2> QED
      BY <1>2, <2>1, <2>2, <2>3, <2>5, OnceOwn DEF SomeOpen
  <1>10. CASE Post(w)
    <2>1. /\ report' = report /\ worker[w].step = "post" /\ Posted(w)
          /\ worker'[w].step = "guard" /\ worker'[w].key = f /\ worker'[w].count = worker[w].count
          /\ worker'[w].issue = IF worker[w].opening THEN Len(issues') ELSE worker[w].issue
      BY <1>0, <1>10 DEF Post, At, Attempts
    <2>2. PICK g \in Prints : g = f
      BY <1>2
    <2>3. told'[g] = worker[w].count /\ \A h \in Prints \ {g} : told'[h] = told[h]
      <3>1. told[g] = worker[w].posted
        BY <1>3, <2>1, <2>2 DEF ToldOnce, ReadOnce, Done
      <3>2. worker[w].count \in Nat /\ worker[w].posted \in Nat
        BY <1>2, Keys
      <3>3. told'[g] = told[g] + (worker[w].count - worker[w].posted) /\ \A h \in Prints \ {g} : told'[h] = told[h]
        BY <2>1, <2>2, CountPosted DEF At
      <3> QED
        BY <3>1, <3>2, <3>3
    <2>4. /\ \A h \in Prints \ {g} : \A n \in Nat : SomeOpen(h, n)' => SomeOpen(h, n)
          /\ \A n \in Nat : SomeOpen(g, n)' => n = worker'[w].issue
      <3>1. CASE worker[w].opening
        <4>1. [key |-> g, open |-> TRUE] \in GitHubIssue /\ issues' = Append(issues, [key |-> g, open |-> TRUE])
          BY <2>1, <2>2, <3>1 DEF Posted, GitHubIssue
        <4>2. /\ Len(issues') = Len(issues) + 1 /\ Len(issues) \in Nat
              /\ DOMAIN issues = 1..Len(issues) /\ DOMAIN issues' = 1..Len(issues')
              /\ \A n \in 1..Len(issues) : issues'[n] = issues[n]
              /\ issues'[Len(issues) + 1].key = g
          BY <4>1, AppendProperties, LenProperties DEF Typed
        <4>3. \A n \in Nat : ~SomeOpen(g, n)
          BY <1>3, <2>1, <2>2, <3>1 DEF ReadOnce
        <4> QED
          BY <2>1, <3>1, <4>2, <4>3 DEF SomeOpen
      <3>2. CASE ~worker[w].opening
        <4>1. issues' = issues /\ worker'[w].issue = worker[w].issue
          BY <2>1, <3>2 DEF Posted
        <4>2. \A n \in Nat : SomeOpen(g, n) => n = worker[w].issue
          BY <1>3, <2>1, <2>2 DEF ToldOnce, ReadOnce, Done
        <4> QED
          BY <4>1, <4>2 DEF SomeOpen
      <3> QED
        BY <3>1, <3>2
    <2>5. ReadOnce(w)'
      BY <2>1, <2>2, <2>3, <2>4 DEF ReadOnce, Done
    <2>6. AtDone(g)'
      BY <2>1, <2>2 DEF AtDone, Done
    <2>7. ToldOnce(g)'
      BY <2>6 DEF ToldOnce
    <2> QED
      BY <1>2, <2>1, <2>2, <2>3, <2>4, <2>5, <2>7, OnceOwn
  <1>11. CASE Update(w)
    <2>1. /\ told' = told /\ issues' = issues /\ worker[w].step = "update"
          /\ worker'[w].step = "ending" /\ worker'[w].key = f
          /\ report' = [report EXCEPT ![f] = [report[f] EXCEPT
                          !.issue = worker[w].issue, !.posted = worker[w].count, !.recent = TRUE]]
      BY <1>0, <1>11 DEF Update, Go, At, Attempts
    <2>2. PICK g \in Prints : g = f
      BY <1>2
    <2>3. /\ report'[g].posted = worker[w].count /\ report'[g].issue = worker[w].issue
          /\ \A h \in Prints \ {g} : report'[h] = report[h]
      BY <2>1, <2>2 DEF Typed, Stored
    <2>4. told[g] = worker[w].count /\ \A n \in Nat : SomeOpen(g, n) => n = worker[w].issue
      BY <1>3, <2>1, <2>2 DEF ReadOnce, Done
    <2>5. ToldOnce(g)'
      BY <2>1, <2>3, <2>4 DEF ToldOnce, SomeOpen
    <2>6. ReadOnce(w)'
      BY <2>1 DEF ReadOnce, Done
    <2> QED
      BY <1>2, <2>1, <2>2, <2>3, <2>5, <2>6, OnceOwn DEF SomeOpen
  <1> QED
    BY <1>5, <1>6, <1>7, <1>8, <1>9, <1>10, <1>11 DEF Deliver

-----------------------------------------------------------------------------
(* The theorems *)

LEMMA InitInv == Init => IInv
  <1> SUFFICES ASSUME Init PROVE IInv
    OBVIOUS
  <1>1. Typed
    BY InitTyped
  <1>2. \A w \in Workers : worker[w] = Idle /\ ~Busy(w) /\ AttemptOK(w) /\ ReadOK(w) /\ ReadOnce(w)
    BY DEF Init, Busy, AttemptOK, ReadOK, ReadOnce, Idle, Done
  <1>3. \A f \in Prints : CountOK(f) /\ ToldOnce(f)
    BY DEF Init, CountOK, ToldOnce, SomeOpen, Unsaved
  <1>4. ASSUME NEW k \in Kinds PROVE AllowanceOK(k) /\ PostsOK(k)
    <2>1. \A w \in Workers : ~Spends(w, k) /\ ~Strays(w)
      BY <1>2, ReportsAssumption DEF Spends, Strays, Idle, At, Reading, Kinds, ConstantsOK
    <2>2. Spending(k) = {} /\ Stray = {}
      BY <2>1 DEF Spending, Stray
    <2>3. Cardinality(Spending(k)) = 0 /\ Cardinality(Stray) = 0 /\ Cardinality(Counting(k)) \in Nat
      BY <2>2, FS_EmptySet, Counted DEF Counting
    <2>4. results[k] = 0 /\ day[k] = 0 /\ faults = 0 /\ Limit(k) \in Nat /\ Cardinality(Workers) \in Nat \ {0}
      BY Crew, ReportsAssumption DEF Init, Spent, Limit, ConstantsOK
    <2>5. AllowanceOK(k)
      BY <2>3, <2>4 DEF AllowanceOK
    <2>6. PostsOK(k)
      BY <2>3, <2>4 DEF PostsOK
    <2> QED
      BY <2>5, <2>6
  <1> QED
    BY <1>1, <1>2, <1>3, <1>4 DEF IInv, Once

LEMMA NextInv == IInv /\ [Next]_vars => IInv'
  <1> SUFFICES ASSUME IInv, [Next]_vars PROVE IInv'
    OBVIOUS
  <1> USE DEF IInv
  <1>1. CASE Around
    <2>1. Typed'
      BY <1>1, TypedAround
    <2>2. \A w \in Workers : AttemptOK(w)'
      BY <1>1, AttemptAround
    <2>3. \A k \in Kinds : AllowanceOK(k)' /\ PostsOK(k)'
      BY <1>1, <2>1, CapAround
    <2>4. (\A f \in Prints : CountOK(f)') /\ (\A w \in Workers : ReadOK(w)')
      BY <1>1, <2>1, CountKeeps
    <2>5. Once'
      BY <1>1, <2>1, OnceAround
    <2> QED
      BY <2>1, <2>2, <2>3, <2>4, <2>5
  <1>2. CASE \E w \in Workers : Moves(w)
    <2>0. PICK w \in Workers : Moves(w)
      BY <1>2
    <2>1. Typed'
      BY <2>0, TypedMoves
    <2>2. \A v \in Workers : AttemptOK(v)'
      BY <2>0, AttemptMoves
    <2>3. \A k \in Kinds : AllowanceOK(k)' /\ PostsOK(k)'
      BY <2>0, <2>1, CapMoves
    <2>4. (\A f \in Prints : CountOK(f)') /\ (\A v \in Workers : ReadOK(v)')
      BY <1>2, <2>1, CountKeeps
    <2>5. Once'
      BY <2>0, <2>1, OnceMoves
    <2> QED
      BY <2>1, <2>2, <2>3, <2>4, <2>5
  <1>3. CASE UNCHANGED vars
    BY <1>3
    DEF vars, Typed, AttemptOK, Busy, Owns, AllowanceOK, PostsOK, Spending, Spends, Counting, WillCount,
        Stray, Strays, At, CountOK, ReadOK, Once, ToldOnce, ReadOnce, AtDone, SomeOpen
  <1> QED
    BY <1>1, <1>2, <1>3 DEF Next, Moves, Around

\* Without faults the table and GitHub agree up to the attempt that is posting, on at most
\* one open issue.
LEMMA CountFollows == IInv => RepeatsAddUp
  <1> SUFFICES ASSUME IInv, NEW f \in Prints
               PROVE  /\ report[f].posted <= told[f] /\ report[f].posted <= report[f].count
                      /\ faults = 0 =>
                           /\ told[f] <= report[f].count
                           /\ Cardinality({n \in DOMAIN issues : issues[n].key = f /\ issues[n].open}) <= 1
    BY DEF RepeatsAddUp
  <1>1. report[f].posted <= told[f] /\ report[f].posted <= report[f].count
    BY DEF IInv, CountOK
  <1>2. ASSUME faults = 0
        PROVE  told[f] <= report[f].count /\ \E m \in Nat : \A n \in Nat : SomeOpen(f, n) => n = m
    <2>1. CASE AtDone(f)
      <3>1. PICK w \in Workers : worker[w].step \in Done /\ worker[w].key = f
        BY <2>1 DEF AtDone
      <3>2. worker[w].issue \in Nat /\ worker[w].count <= report[f].count
        BY <3>1 DEF IInv, Typed, Attempts, ReadOK
      <3>3. ReadOnce(w)
        BY <1>2 DEF IInv, Once
      <3> QED
        BY <3>1, <3>2, <3>3 DEF ReadOnce
    <2>2. CASE ~AtDone(f)
      <3>1. ToldOnce(f) /\ report[f].issue \in Nat
        BY <1>2 DEF IInv, Once, Typed, Stored
      <3> QED
        BY <1>1, <2>2, <3>1 DEF ToldOnce
    <2> QED
      BY <2>1, <2>2
  <1>3. ASSUME faults = 0
        PROVE  Cardinality({n \in DOMAIN issues : issues[n].key = f /\ issues[n].open}) <= 1
    <2> DEFINE open == {n \in DOMAIN issues : issues[n].key = f /\ issues[n].open}
    <2>1. DOMAIN issues \subseteq Nat
      BY LenProperties DEF IInv, Typed
    <2>2. PICK m \in Nat : open \subseteq {m}
      BY <1>2, <1>3, <2>1 DEF SomeOpen
    <2>3. IsFiniteSet({m}) /\ Cardinality({m}) = 1
      BY FS_Singleton
    <2>4. Cardinality(open) <= 1
      BY <2>2, <2>3, FS_Subset
    <2> QED
      BY <2>4
  <1> QED
    BY <1>1, <1>2, <1>3

\* Whatever the interleaving, the restarts and the lapsed leases, automatic reports open at
\* most as many issues a day, and comment at most as often, as the limits allow, but for what
\* the other workers post at the same time and what faults make the queue forget.
THEOREM CapsAreKept == Spec => []CapsHold
  <1>1. IInv => CapsHold
    BY CapsFollow DEF IInv
  <1> QED
    BY <1>1, InitInv, NextInv, PTL DEF Spec

\* GitHub was told of whatever the table counts as posted, and without faults of every
\* occurrence once, on one open issue of the fingerprint.
THEOREM OccurrencesAddUp == Spec => []RepeatsAddUp
  BY CountFollows, InitInv, NextInv, PTL DEF Spec
=============================================================================
