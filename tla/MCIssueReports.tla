--------------------------- MODULE MCIssueReports ---------------------------
(***************************************************************************)
(* IssueReports from three kinds of start: nothing is saved and no fault    *)
(* happens any more, so that two fingerprints meet at the daily caps; e2's  *)
(* reports are all posted, so that one fingerprint meets the faults; or     *)
(* both fingerprints' issues were closed, one report of each waits, and the *)
(* day's issue was opened, so that faults meet the caps.                    *)
(***************************************************************************)
EXTENDS IssueReports
CONSTANTS e1, e2

Settled == [count |-> MaxCount, posted |-> MaxCount, issue |-> 1, recent |-> FALSE]
Rest == row = [f \in Prints |-> None] /\ worker = [w \in Workers |-> Idle] /\ enabled = TRUE
Together == Rest /\ results = Spent /\ day = Spent /\ closed = 0 /\ faults = MaxFaults /\ issues = <<>>
            /\ report = [f \in Prints |-> Unsaved] /\ told = [f \in Prints |-> 0]
Alone == Rest /\ results = Spent /\ day = Spent /\ closed = 0 /\ faults = 0
         /\ issues = <<[key |-> e2, open |-> TRUE]>>
         /\ report = [f \in Prints |-> IF f = e2 THEN Settled ELSE Unsaved]
         /\ told = [f \in Prints |-> IF f = e2 THEN MaxCount ELSE 0]
Backlog == Rest /\ results = [Spent EXCEPT !["opened"] = 1] /\ day = results
           /\ closed = 2 /\ faults = 0
           /\ issues = <<[key |-> e1, open |-> FALSE], [key |-> e2, open |-> FALSE]>>
           /\ report = [f \in Prints |-> [Settled EXCEPT !.posted = 1, !.issue = IF f = e1 THEN 1 ELSE 2]]
           /\ told = [f \in Prints |-> 1]
MCSpec == (Together \/ Alone \/ Backlog) /\ [][Next]_vars /\ Fairness
=============================================================================
