---------------------------- MODULE ModMailProofs ----------------------------
(***************************************************************************)
(* Proofs about mod mail, for any members, forms, texts, requests and        *)
(* limits: who is told that a text is saved has it in the thread, a member's *)
(* own acts stay within the limit of open cases, nobody closes over a reply  *)
(* they were not shown, and retention deletes no case that is open.          *)
(***************************************************************************)
EXTENDS ModMail, FiniteSetTheorems, SequenceTheorems, TLAPS

Case == [state : States \cup {"none", "deleted"}, opener : Members \cup {None},
         revision : Nat, due : {"never", "set", "past"}, own : BOOLEAN]
\* The text of the case that is there at the start is of no interest.
Stored == [kind : {"message", "reopened", "closed"}, side : {"member", "officer"},
           id : Cases \cup Messages \cup {None},
           text : Texts \cup {None, CHOOSE t \in Texts : TRUE}, at : Nat]
Request == [kind : {"none", "open", "reply", "close", "reopen"}, stage : {"none", "sent", "locked"},
            by : Actors \cup {None}, case : Cases \cup {None}, id : Cases \cup Messages \cup {None},
            text : Texts \cup {None}, revision : Nat, saw : Nat, at : Nat, open : Nat]
Page == [stage : {"none", "loading", "open"}, revision : Nat, rows : Nat]

Typed ==
  /\ cases \in [Cases -> Case] /\ thread \in [Cases -> Seq(Stored)]
  /\ requests \in [Requests -> Request] /\ pages \in [Actors -> [Cases -> Page]]
  /\ told \subseteq Cases \X (Cases \cup Messages \cup {None}) \X (Texts \cup {None})
  /\ spent \in Nat

Minted == {c \in Cases : cases[c].state # "none"}
\* The open cases that are a member's own doing.
Own(m) == {c \in Cases : Open(c) /\ cases[c].own /\ cases[c].opener = m}

\* Only a closed case has a deletion date, a case has a member who opened it, and
\* what is not yet a case has no revision.
CaseOK(c) ==
  /\ cases[c].due # "never" => cases[c].state = "closed"
  /\ cases[c].state # "none" => cases[c].opener \in Members
  /\ cases[c].state = "none" => cases[c].revision = 0

\* A revision that someone was shown is never newer than the case, and as long as it is
\* the case's, so are the rows they were shown with it.
Current(c, revision, rows) ==
  /\ revision <= cases[c].revision
  /\ revision = cases[c].revision => rows >= Len(thread[c])
PageOK(a, c) ==
  /\ pages[a][c].revision <= cases[c].revision
  /\ pages[a][c].stage = "open" => Current(c, pages[a][c].revision, pages[a][c].rows)

\* What a request in flight names.
RequestOK(s) ==
  IF requests[s].stage = "none" THEN requests[s] = NoRequest
  ELSE /\ requests[s].by \in Actors /\ requests[s].case \in Cases
       /\ requests[s].kind \in {"open", "reply", "close", "reopen"}
       /\ requests[s].kind = "open" => requests[s].by \in Members
       /\ requests[s].kind # "open" => requests[s].case \in Minted
       /\ requests[s].kind \in {"close", "reopen"} =>
            Current(requests[s].case, requests[s].revision, requests[s].saw)

LocksMember(s) == requests[s].stage = "locked" /\ TakesMember(requests[s])
\* Nobody else adds to the open cases that were counted under the member's lock.
LockOK(s) ==
  LocksMember(s) => /\ Cardinality(Own(requests[s].by)) <= requests[s].open
                    /\ \A o \in Requests \ {s} : LocksMember(o) => requests[o].by # requests[s].by

Kept(t) == cases[t[1]].state = "deleted"
           \/ \E i \in 1 .. Len(thread[t[1]]) : thread[t[1]][i].id = t[2] /\ thread[t[1]][i].text = t[3]

Inv ==
  /\ Typed /\ IsFiniteSet(Minted)
  /\ \A c \in Cases : CaseOK(c)
  /\ \A a \in Actors, c \in Cases : PageOK(a, c)
  /\ \A s \in Requests : RequestOK(s) /\ LockOK(s)
  /\ \A t \in told : Kept(t)
  /\ \A m \in Members : Cardinality(Own(m)) <= MaxOpen

-----------------------------------------------------------------------------
(* What steps have in common *)

LEMMA OwnIsMinted ==
  ASSUME Inv, NEW m
  PROVE  /\ Own(m) \subseteq Minted /\ IsFiniteSet(Own(m)) /\ Cardinality(Own(m)) \in Nat
         /\ \A S \in SUBSET Own(m) : Cardinality(S) <= Cardinality(Own(m))
<1>1. Own(m) \subseteq Minted
  BY DEF Own, Minted, Open
<1>2. IsFiniteSet(Own(m))
  BY <1>1, FS_Subset DEF Inv
<1>. QED
  BY <1>1, <1>2, FS_Subset, FS_CardinalityType

\* A case keeps its opener, and a page or a form of it only grows older.
Grows(c) ==
  /\ cases[c].state # "none" => cases'[c].state # "none" /\ cases'[c].opener = cases[c].opener
  /\ \/ cases'[c].revision > cases[c].revision
     \/ cases'[c].revision = cases[c].revision /\ Len(thread'[c]) <= Len(thread[c])

LEMMA StillCurrent ==
  ASSUME Inv, Typed', NEW c \in Cases, Grows(c), NEW revision \in Nat, NEW rows \in Nat
  PROVE  /\ revision <= cases[c].revision => revision <= cases'[c].revision
         /\ Current(c, revision, rows) => Current(c, revision, rows)'
<1>1. cases[c].revision \in Nat /\ cases'[c].revision \in Nat
  BY DEF Inv, Typed, Case
<1>2. Len(thread[c]) \in Nat /\ Len(thread'[c]) \in Nat
  BY LenProperties DEF Inv, Typed
<1>. QED
  BY <1>1, <1>2 DEF Grows, Current

LEMMA OlderPages ==
  ASSUME Inv, Typed', \A c \in Cases : Grows(c), UNCHANGED pages
  PROVE  \A a \in Actors, c \in Cases : PageOK(a, c)'
<1>. SUFFICES ASSUME NEW a \in Actors, NEW c \in Cases PROVE PageOK(a, c)'
  OBVIOUS
<1>1. pages[a][c].revision \in Nat /\ pages[a][c].rows \in Nat
  BY DEF Inv, Typed, Page
<1>2. PageOK(a, c)
  BY DEF Inv
<1>. QED
  BY <1>1, <1>2, StillCurrent DEF PageOK

LEMMA OlderRequest ==
  ASSUME Inv, Typed', \A c \in Cases : Grows(c), NEW s \in Requests, requests'[s] = requests[s]
  PROVE  RequestOK(s)' /\ (LocksMember(s)' => LocksMember(s))
<1>1. requests[s].revision \in Nat /\ requests[s].saw \in Nat
  BY DEF Inv, Typed, Request
<1>2. RequestOK(s)
  BY DEF Inv
<1>3. CASE requests[s].stage = "none"
  BY <1>2, <1>3 DEF RequestOK, LocksMember
<1>4. CASE requests[s].stage # "none"
  <2>. DEFINE c == requests[s].case
  <2>1. c \in Cases
    BY <1>2, <1>4 DEF RequestOK
  <2>2. c \in Minted => c \in Minted' /\ cases'[c].opener = cases[c].opener
    BY <2>1 DEF Grows, Minted
  <2>3. Current(c, requests[s].revision, requests[s].saw)
        => Current(c, requests[s].revision, requests[s].saw)'
    BY <1>1, <2>1, StillCurrent
  <2>4. RequestOK(s)'
    BY <1>2, <1>4, <2>1, <2>2, <2>3 DEF RequestOK
  <2>5. LocksMember(s)' => LocksMember(s)
    BY <1>2, <1>4, <2>2 DEF LocksMember, TakesMember, Side, RequestOK
  <2>. QED
    BY <2>4, <2>5
<1>. QED
  BY <1>3, <1>4

\* A step that answers one request, and adds to the open cases of a member's own doing
\* only under that member's lock and below the limit.
LEMMA AnswerKeepsInv ==
  ASSUME Inv, Typed', UNCHANGED pages, NEW s \in Requests, Answered(s),
         NEW c \in Cases, Minted' \subseteq Minted \cup {c},
         \A k \in Cases : Grows(k) /\ CaseOK(k)', \A t \in told' : Kept(t)',
         \A m \in Members : Own(m)' \subseteq Own(m)
           \/ /\ LocksMember(s) /\ requests[s].by = m /\ requests[s].open < MaxOpen
              /\ Own(m)' \subseteq Own(m) \cup {c}
  PROVE  Inv'
<1>1. IsFiniteSet(Minted')
  BY FS_AddElement, FS_Subset DEF Inv
<1>2. \A a \in Actors, k \in Cases : PageOK(a, k)'
  BY OlderPages
<1>3. /\ requests'[s] = NoRequest /\ RequestOK(s)' /\ LockOK(s)'
      /\ \A o \in Requests \ {s} : requests'[o] = requests[o]
  BY DEF Answered, Inv, Typed, RequestOK, LockOK, LocksMember, NoRequest
<1>4. ASSUME NEW o \in Requests \ {s} PROVE RequestOK(o)' /\ LockOK(o)'
  <2>1. RequestOK(o)' /\ (LocksMember(o)' => LocksMember(o))
    BY <1>3, <1>4, OlderRequest
  <2>. SUFFICES ASSUME LocksMember(o)' PROVE LockOK(o)'
    BY <2>1 DEF LockOK
  <2>2. LocksMember(o) /\ LockOK(o) /\ RequestOK(o)
    BY <2>1 DEF Inv
  <2>. PICK m \in Members : m = requests[o].by
    BY <2>2 DEF LocksMember, TakesMember, RequestOK, Side, Minted, Inv, CaseOK
  <2>3. \A p \in Requests \ {o} : LocksMember(p)' => LocksMember(p) /\ p # s
    BY <1>3, OlderRequest DEF LocksMember, NoRequest
  <2>4. \A p \in Requests \ {o} : LocksMember(p)' => requests'[p].by # m
    BY <1>3, <2>2, <2>3 DEF LockOK
  <2>5. Own(m)' \subseteq Own(m)
    <3>1. ~(LocksMember(s) /\ requests[s].by = m)
      BY <2>2 DEF LockOK
    <3>. QED
      BY <3>1
  <2>6. Cardinality(Own(m)') <= Cardinality(Own(m)) /\ Cardinality(Own(m)') \in Nat
        /\ Cardinality(Own(m)) \in Nat
    BY <2>5, OwnIsMinted, FS_Subset, FS_CardinalityType
  <2>7. requests[o].open \in Nat
    BY DEF Inv, Typed, Request
  <2>. QED
    BY <1>3, <1>4, <2>1, <2>2, <2>4, <2>6, <2>7 DEF LockOK
<1>5. ASSUME NEW m \in Members PROVE Cardinality(Own(m)') <= MaxOpen
  <2>0. MaxOpen \in Nat /\ Cardinality(Own(m)) <= MaxOpen
    BY ModMailAssumption DEF ConstantsOK, Inv
  <2>1. CASE Own(m)' \subseteq Own(m)
    BY <2>0, <2>1, OwnIsMinted, FS_Subset, FS_CardinalityType
  <2>2. CASE LocksMember(s) /\ requests[s].by = m /\ requests[s].open < MaxOpen
             /\ Own(m)' \subseteq Own(m) \cup {c}
    <3>1. Cardinality(Own(m)) <= requests[s].open /\ requests[s].open \in Nat
      BY <2>2 DEF Inv, LockOK, Typed, Request
    <3>2. IsFiniteSet(Own(m) \cup {c}) /\ Cardinality(Own(m) \cup {c}) <= Cardinality(Own(m)) + 1
      <4>1. IsFiniteSet(Own(m)) /\ Cardinality(Own(m)) \in Nat
        BY OwnIsMinted
      <4>2. /\ IsFiniteSet(Own(m) \cup {c})
            /\ Cardinality(Own(m) \cup {c})
               = IF c \in Own(m) THEN Cardinality(Own(m)) ELSE Cardinality(Own(m)) + 1
        BY <4>1, FS_AddElement
      <4>. QED
        BY <4>1, <4>2
    <3>3. Cardinality(Own(m)') <= Cardinality(Own(m) \cup {c}) /\ Cardinality(Own(m)') \in Nat
          /\ Cardinality(Own(m) \cup {c}) \in Nat /\ Cardinality(Own(m)) \in Nat
      BY <2>2, <3>2, OwnIsMinted, FS_Subset, FS_CardinalityType
    <3>. QED
      BY <2>0, <2>2, <3>1, <3>2, <3>3
  <2>. QED
    BY <2>1, <2>2
<1>. QED
  BY <1>1, <1>2, <1>3, <1>4, <1>5 DEF Inv

\* A step that changes no case and answers nobody.
LEMMA QuietKeepsInv ==
  ASSUME Inv, Typed', UNCHANGED <<cases, thread, told>>,
         \A a \in Actors, c \in Cases : PageOK(a, c)',
         \A s \in Requests : RequestOK(s)' /\ LockOK(s)'
  PROVE  Inv'
<1>1. UNCHANGED Minted /\ (\A m \in Members : UNCHANGED Own(m)) /\ \A c \in Cases : CaseOK(c)'
  BY DEF Minted, Own, Open, CaseOK, Inv
<1>2. \A t \in told' : Kept(t)'
  BY DEF Kept, Inv
<1>. QED
  BY <1>1, <1>2 DEF Inv

-----------------------------------------------------------------------------
(* The steps that change no case *)

LEMMA JobKeepsInv ==
  ASSUME Inv, NEW kind \in {"ping", "dm"}, NEW c \in Cases,
         Runs(kind, c) \/ JobFails(kind, c) \/ JobGivesUp(kind, c) \/ Requeue(kind, c)
  PROVE  Inv'
<1>1. UNCHANGED <<cases, thread, told, pages, requests>> /\ spent' \in Nat
  BY DEF Runs, JobReads, JobSends, JobFails, JobGivesUp, Requeue, Spend, Inv, Typed
<1>2. Typed'
  BY <1>1 DEF Inv, Typed
<1>3. \A k \in Cases : Grows(k)
  BY <1>1 DEF Grows
<1>4. (\A s \in Requests : RequestOK(s)' /\ LockOK(s)') /\ \A a \in Actors, k \in Cases : PageOK(a, k)'
  BY <1>1 DEF Inv, RequestOK, LockOK, LocksMember, TakesMember, Side, Own, Open, Minted, Current, PageOK
<1>. QED
  BY <1>1, <1>2, <1>4, QuietKeepsInv

LEMMA ToggleKeepsInv ==
  ASSUME Inv, Toggle \/ SetChannel
  PROVE  Inv'
<1>1. UNCHANGED <<cases, thread, told, pages, requests>> /\ spent' \in Nat
  BY DEF Toggle, SetChannel, Spend, Inv, Typed
<1>2. Typed'
  BY <1>1 DEF Inv, Typed
<1>4. (\A s \in Requests : RequestOK(s)' /\ LockOK(s)') /\ \A a \in Actors, k \in Cases : PageOK(a, k)'
  BY <1>1 DEF Inv, RequestOK, LockOK, LocksMember, TakesMember, Side, Own, Open, Minted, Current, PageOK
<1>. QED
  BY <1>1, <1>2, <1>4, QuietKeepsInv

LEMMA ViewKeepsInv ==
  ASSUME Inv, NEW a \in Actors, NEW c \in Cases, ViewReads(a, c) \/ ViewShows(a, c)
  PROVE  Inv'
<1>1. UNCHANGED <<cases, thread, told, requests>> /\ spent' \in Nat
  BY DEF ViewReads, ViewShows, Spend, Inv, Typed
<1>2. cases[c].revision \in Nat /\ Len(thread[c]) \in Nat /\ pages[a][c] \in Page
  BY LenProperties DEF Inv, Typed, Case
<1>3. \E page \in Page :
        /\ pages' = [pages EXCEPT ![a][c] = page]
        /\ page.revision <= cases[c].revision
        /\ page.stage = "open" => Current(c, page.revision, page.rows)
  <2>1. CASE ViewReads(a, c)
    <3>. DEFINE page == [stage |-> "loading", revision |-> cases[c].revision, rows |-> 0]
    <3>1. pages' = [pages EXCEPT ![a][c] = page]
      BY <2>1 DEF ViewReads
    <3>2. page \in Page /\ page.stage = "loading" /\ page.revision <= cases[c].revision
      BY <1>2 DEF Page
    <3>. HIDE DEF page
    <3>. QED
      BY <3>1, <3>2
  <2>2. CASE ViewShows(a, c)
    <3>2. pages[a][c].revision <= cases[c].revision
      BY DEF Inv, PageOK
    <3>. DEFINE page == [pages[a][c] EXCEPT !.stage = "open", !.rows = Len(thread[c])]
    <3>1. pages' = [pages EXCEPT ![a][c] = page]
      BY <2>2 DEF ViewShows
    <3>3. page \in Page /\ page.revision = pages[a][c].revision /\ page.rows = Len(thread[c])
      BY <1>2 DEF Page
    <3>4. Current(c, page.revision, page.rows)
      BY <1>2, <3>2, <3>3 DEF Current
    <3>. HIDE DEF page
    <3>. QED
      BY <3>1, <3>2, <3>3, <3>4
  <2>. QED
    BY <2>1, <2>2
<1>4. Typed'
  BY <1>1, <1>3 DEF Inv, Typed
<1>5. \A b \in Actors, k \in Cases : PageOK(b, k)'
  <2>. SUFFICES ASSUME NEW b \in Actors, NEW k \in Cases PROVE PageOK(b, k)'
    OBVIOUS
  <2>1. PageOK(b, k)
    BY DEF Inv
  <2>2. pages \in [Actors -> [Cases -> Page]]
    BY DEF Inv, Typed
  <2>3. CASE b = a /\ k = c
    BY <1>1, <1>3, <2>2, <2>3 DEF PageOK, Current
  <2>4. CASE ~(b = a /\ k = c)
    <3>1. pages'[b][k] = pages[b][k]
      BY <1>3, <2>2, <2>4
    <3>. QED
      BY <1>1, <2>1, <3>1 DEF PageOK, Current
  <2>. QED
    BY <2>3, <2>4
<1>6. \A s \in Requests : RequestOK(s)' /\ LockOK(s)'
  BY <1>1 DEF Inv, RequestOK, LockOK, LocksMember, TakesMember, Side, Own, Open, Minted, Current
<1>. QED
  BY <1>1, <1>4, <1>5, <1>6, QuietKeepsInv

\* One request changes and is not locked then.
LEMMA RequestKeepsInv ==
  ASSUME Inv, UNCHANGED <<cases, thread, told, pages>>, spent' \in Nat,
         NEW s \in Requests, NEW q \in Request, requests' = [requests EXCEPT ![s] = q],
         q.stage # "locked", RequestOK(s)'
  PROVE  Inv'
<1>1. Typed'
  BY DEF Inv, Typed
<1>2. requests'[s] = q /\ \A o \in Requests \ {s} : requests'[o] = requests[o]
  BY DEF Inv, Typed
<1>3. ~LocksMember(s)' /\ \A o \in Requests \ {s} : LocksMember(o)' = LocksMember(o)
  BY <1>2 DEF LocksMember, TakesMember, Side
<1>4. ASSUME NEW o \in Requests PROVE RequestOK(o)' /\ LockOK(o)'
  <2>1. CASE o = s
    BY <1>3, <2>1 DEF LockOK
  <2>2. CASE o # s
    <3>1. RequestOK(o)'
      BY <1>2, <2>2 DEF Inv, RequestOK, Current, Minted
    <3>. PICK m : m = requests[o].by
      OBVIOUS
    <3>2. Own(m)' = Own(m)
      BY DEF Own, Open
    <3>3. LockOK(o)
      BY DEF Inv
    <3>4. \A p \in Requests \ {o} : LocksMember(p)' => LocksMember(p) /\ requests'[p] = requests[p]
      BY <1>2, <1>3
    <3>5. requests'[o] = requests[o] /\ LocksMember(o)' = LocksMember(o)
      BY <1>2, <1>3, <2>2
    <3>6. LocksMember(o) => Cardinality(Own(m)') <= requests'[o].open
      BY <3>2, <3>3, <3>5 DEF LockOK
    <3>7. LockOK(o)'
      BY <3>3, <3>4, <3>5, <3>6 DEF LockOK
    <3>. QED
      BY <3>1, <3>7
  <2>. QED
    BY <2>1, <2>2
<1>5. \A a \in Actors, k \in Cases : PageOK(a, k)'
  BY DEF Inv, PageOK, Current
<1>. QED
  BY <1>1, <1>4, <1>5, QuietKeepsInv

\* What is sent is a request.
LEMMA SentIsRequest ==
  ASSUME NEW q \in Request
  PROVE  /\ \A at \in Nat : [q EXCEPT !.stage = "sent", !.at = at] \in Request
         /\ \A kind \in {"open", "reply", "close", "reopen"}, a \in Actors, c \in Cases :
              [q EXCEPT !.kind = kind, !.by = a, !.case = c] \in Request
         /\ \A id \in Cases \cup Messages, text \in Texts :
              [q EXCEPT !.id = id, !.text = text] \in Request
         /\ \A revision \in Nat, saw \in Nat :
              [q EXCEPT !.revision = revision, !.saw = saw] \in Request
  BY DEF Request

LEMMA SendKeepsInv ==
  ASSUME Inv, NEW s \in Requests, Sends(s)
  PROVE  Inv'
<1>1. NoRequest \in Request /\ Now \in Nat
  BY DEF NoRequest, Request, Now, Inv, Typed
<1>2. CASE SendOpen(s)
  <2>1. PICK m \in Members, c \in Cases, text \in Texts :
          Send(s, [NoRequest EXCEPT !.kind = "open", !.by = m, !.case = c, !.id = c, !.text = text])
    BY <1>2 DEF SendOpen
  <2>. DEFINE q == [[NoRequest EXCEPT !.kind = "open", !.by = m, !.case = c, !.id = c, !.text = text]
                    EXCEPT !.stage = "sent", !.at = Now]
  <2>2. /\ requests' = [requests EXCEPT ![s] = q]
        /\ UNCHANGED <<cases, thread, told, pages>> /\ spent' \in Nat
    BY <2>1 DEF Send, Spend, Inv, Typed
  <2>3. /\ q.stage = "sent"
        /\ q.kind = "open" /\ q.by = m /\ q.case = c
    BY DEF NoRequest
  <2>4. q \in Request
    <3>1. [NoRequest EXCEPT !.kind = "open", !.by = m, !.case = c] \in Request
      BY <1>1, SentIsRequest DEF Actors
    <3>2. [[NoRequest EXCEPT !.kind = "open", !.by = m, !.case = c]
             EXCEPT !.id = c, !.text = text] \in Request
      BY <3>1, SentIsRequest
    <3>. QED
      BY <1>1, <3>2, SentIsRequest
  <2>. HIDE DEF q
  <2>5. RequestOK(s)'
    BY <2>2, <2>3 DEF RequestOK, Actors, Inv, Typed
  <2>. QED
    BY <2>2, <2>3, <2>4, <2>5, RequestKeepsInv
<1>3. CASE SendReply(s)
  <2>1. PICK a \in Actors, c \in Cases, id \in Messages, text \in Texts :
          /\ MayAccess(a, c)
          /\ Send(s, [NoRequest EXCEPT !.kind = "reply", !.by = a, !.case = c, !.id = id, !.text = text])
    BY <1>3 DEF SendReply
  <2>. DEFINE q == [[NoRequest EXCEPT !.kind = "reply", !.by = a, !.case = c, !.id = id, !.text = text]
                    EXCEPT !.stage = "sent", !.at = Now]
  <2>2. /\ requests' = [requests EXCEPT ![s] = q]
        /\ UNCHANGED <<cases, thread, told, pages>> /\ spent' \in Nat
    BY <2>1 DEF Send, Spend, Inv, Typed
  <2>3. /\ q.stage = "sent"
        /\ q.kind = "reply" /\ q.by = a /\ q.case = c
    BY DEF NoRequest
  <2>4. q \in Request
    <3>1. [NoRequest EXCEPT !.kind = "reply", !.by = a, !.case = c] \in Request
      BY <1>1, SentIsRequest
    <3>2. [[NoRequest EXCEPT !.kind = "reply", !.by = a, !.case = c]
             EXCEPT !.id = id, !.text = text] \in Request
      BY <3>1, SentIsRequest
    <3>. QED
      BY <1>1, <3>2, SentIsRequest
  <2>. HIDE DEF q
  <2>5. RequestOK(s)'
    BY <2>1, <2>2, <2>3 DEF RequestOK, Inv, Typed, Minted, MayAccess, Exists, States
  <2>. QED
    BY <2>2, <2>3, <2>4, <2>5, RequestKeepsInv
<1>4. CASE SendChange(s)
  <2>1. PICK a \in Actors, c \in Cases, kind \in {"close", "reopen"} :
          /\ MayAccess(a, c) /\ pages[a][c].stage = "open"
          /\ Send(s, [NoRequest EXCEPT !.kind = kind, !.by = a, !.case = c,
                                       !.revision = pages[a][c].revision, !.saw = pages[a][c].rows])
    BY <1>4 DEF SendChange
  <2>. DEFINE q == [[NoRequest EXCEPT !.kind = kind, !.by = a, !.case = c,
                                              !.revision = pages[a][c].revision, !.saw = pages[a][c].rows]
                    EXCEPT !.stage = "sent", !.at = Now]
  <2>2. /\ requests' = [requests EXCEPT ![s] = q]
        /\ UNCHANGED <<cases, thread, told, pages>> /\ spent' \in Nat
    BY <2>1 DEF Send, Spend, Inv, Typed
  <2>5. PageOK(a, c) /\ pages[a][c].revision \in Nat /\ pages[a][c].rows \in Nat
    BY DEF Inv, Typed, Page
  <2>3. /\ q.stage = "sent"
        /\ q.kind = kind /\ q.by = a /\ q.case = c
        /\ q.revision = pages[a][c].revision /\ q.saw = pages[a][c].rows
    BY DEF NoRequest
  <2>4. q \in Request
    <3>1. [NoRequest EXCEPT !.kind = kind, !.by = a, !.case = c] \in Request
      BY <1>1, SentIsRequest
    <3>2. [[NoRequest EXCEPT !.kind = kind, !.by = a, !.case = c]
             EXCEPT !.revision = pages[a][c].revision, !.saw = pages[a][c].rows] \in Request
      BY <3>1, SentIsRequest, <2>5
    <3>. QED
      BY <1>1, <3>2, SentIsRequest
  <2>. HIDE DEF q
  <2>6. RequestOK(s)'
    BY <2>1, <2>2, <2>3, <2>5 DEF RequestOK, Inv, Typed, Minted, MayAccess, Exists, States, PageOK, Current
  <2>. QED
    BY <2>2, <2>3, <2>4, <2>6, RequestKeepsInv
<1>. QED
  BY <1>2, <1>3, <1>4 DEF Sends

LEMMA AbandonKeepsInv ==
  ASSUME Inv, NEW s \in Requests, Abandon(s)
  PROVE  Inv'
<1>1. /\ requests' = [requests EXCEPT ![s] = NoRequest]
      /\ UNCHANGED <<cases, thread, told, pages>> /\ spent' \in Nat
  BY DEF Abandon, Answered, Spend, Inv, Typed
<1>2. NoRequest \in Request /\ NoRequest.stage # "locked"
  BY DEF NoRequest, Request
<1>3. RequestOK(s)'
  BY <1>1 DEF RequestOK, Inv, Typed, NoRequest
<1>. QED
  BY <1>1, <1>2, <1>3, RequestKeepsInv

-----------------------------------------------------------------------------
(* The commits *)

LEMMA SentNames ==
  ASSUME Inv, NEW s \in Requests, requests[s].stage = "locked"
  PROVE  /\ requests[s].case \in Cases /\ requests[s].by \in Actors /\ requests[s].open \in Nat
         /\ requests[s].id \in Cases \cup Messages \cup {None}
         /\ requests[s].text \in Texts \cup {None} /\ requests[s].at \in Nat
         /\ <<requests[s].case, requests[s].id, requests[s].text>>
              \in Cases \X (Cases \cup Messages \cup {None}) \X (Texts \cup {None})
         /\ NoRequest \in Request
<1>1. requests[s] \in Request /\ RequestOK(s)
  BY DEF Inv, Typed
<1>2. NoRequest \in Request
  BY DEF Request, NoRequest
<1>. QED
  BY <1>1, <1>2 DEF Request, RequestOK

\* A text that is told to be saved again is there.
LEMMA RepeatIsThere ==
  ASSUME Inv, NEW s \in Requests, requests[s].stage = "locked", Repeat(requests[s])
  PROVE  Kept(<<requests[s].case, requests[s].id, requests[s].text>>)
<1>1. PICK x \in Cases \X (1 .. MaxChanges + 2) :
        /\ x[2] <= Len(thread[x[1]]) /\ thread[x[1]][x[2]].id = requests[s].id
        /\ x[1] = requests[s].case /\ thread[x[1]][x[2]].text = requests[s].text
  BY DEF Repeat, StoredAs
<1>2. x[2] \in 1 .. Len(thread[x[1]])
  BY <1>1, ModMailAssumption, LenProperties DEF ConstantsOK, Inv, Typed
<1>. QED
  BY <1>1, <1>2 DEF Kept

LEMMA NothingWritten ==
  ASSUME Inv, NEW s \in Requests, requests[s].stage = "locked", Answered(s),
         UNCHANGED <<cases, thread, pages, spent>>,
         told' = told \/ (Repeat(requests[s]) /\ Saved(requests[s]))
  PROVE  Inv'
<1>. DEFINE c == requests[s].case
<1>1. Typed'
  BY SentNames DEF Inv, Typed, Answered, Saved
<1>2. c \in Cases /\ Minted' = Minted /\ \A k \in Cases : CaseOK(k)'
  BY SentNames DEF Inv, Minted, CaseOK
<1>5. ASSUME NEW k \in Cases PROVE Grows(k)
  <2>1. Len(thread[k]) \in Nat /\ thread' = thread /\ cases' = cases
    BY LenProperties DEF Inv, Typed
  <2>. QED
    BY <2>1 DEF Grows
<1>3. ASSUME NEW m \in Members PROVE Own(m)' = Own(m)
  BY DEF Own, Open
<1>4. ASSUME NEW t \in told' PROVE Kept(t)'
  <2>1. Kept(t)
    BY RepeatIsThere DEF Inv, Saved
  <2>. QED
    BY <2>1 DEF Kept
<1>. QED
  BY <1>1, <1>2, <1>3, <1>4, <1>5, AnswerKeepsInv

\* Rows are only ever added at the end.
LEMMA AppendKeeps ==
  ASSUME Inv, NEW c \in Cases, NEW rows \in Seq(Stored), thread' = Appended(c, rows),
         \A k \in Cases : cases[k].state = "deleted" => cases'[k].state = "deleted"
  PROVE  /\ thread' \in [Cases -> Seq(Stored)]
         /\ \A t \in told : Kept(t)'
         /\ \A i \in 1 .. Len(rows) : /\ Len(thread[c]) + i \in 1 .. Len(thread'[c])
                                     /\ thread'[c][Len(thread[c]) + i] = rows[i]
<1>1. thread \in [Cases -> Seq(Stored)] /\ thread[c] \in Seq(Stored)
  BY DEF Inv, Typed
<1>2. /\ thread'[c] = thread[c] \o rows /\ thread[c] \o rows \in Seq(Stored)
      /\ \A k \in Cases \ {c} : thread'[k] = thread[k]
  BY <1>1, ConcatProperties DEF Appended
<1>3. /\ Len(thread'[c]) = Len(thread[c]) + Len(rows) /\ Len(thread[c]) \in Nat /\ Len(rows) \in Nat
      /\ \A i \in 1 .. Len(thread[c]) + Len(rows) :
            thread'[c][i] = IF i <= Len(thread[c]) THEN thread[c][i] ELSE rows[i - Len(thread[c])]
  BY <1>1, <1>2, ConcatProperties, LenProperties
<1>4. ASSUME NEW t \in told PROVE Kept(t)'
  <2>1. t[1] \in Cases /\ Kept(t)
    BY DEF Inv, Typed
  <2>2. CASE t[1] = c
    BY <1>3, <2>1, <2>2 DEF Kept
  <2>3. CASE t[1] # c
    BY <1>2, <2>1, <2>3 DEF Kept
  <2>. QED
    BY <2>2, <2>3
<1>5. thread' \in [Cases -> Seq(Stored)]
  BY <1>1, <1>2 DEF Appended
<1>6. ASSUME NEW i \in 1 .. Len(rows)
      PROVE  Len(thread[c]) + i \in 1 .. Len(thread'[c]) /\ thread'[c][Len(thread[c]) + i] = rows[i]
  <2>. DEFINE j == Len(thread[c]) + i
  <2>1. j \in 1 .. Len(thread[c]) + Len(rows) /\ ~(j <= Len(thread[c])) /\ j - Len(thread[c]) = i
    BY <1>3
  <2>2. thread'[c][j] = IF j <= Len(thread[c]) THEN thread[c][j] ELSE rows[j - Len(thread[c])]
    BY <1>3, <2>1
  <2>. QED
    BY <1>3, <2>1, <2>2
<1>. QED
  BY <1>4, <1>5, <1>6

LEMMA OpenKeepsInv ==
  ASSUME Inv, NEW s \in Requests, CommitOpen(s)
  PROVE  Inv'
<1>. DEFINE q == requests[s]
            c == requests[s].case
            row == Row("message", "member", q.id, q.text, q.at)
<1>1. /\ q.stage = "locked" /\ q.kind = "open" /\ Answered(s) /\ UNCHANGED <<pages, spent>>
      /\ c \in Cases /\ q.by \in Members
  BY SentNames DEF CommitOpen, Inv, RequestOK
<1>5. /\ q.open \in Nat /\ q.id \in Cases \cup Messages \cup {None} /\ q.text \in Texts \cup {None}
      /\ q.at \in Nat /\ NoRequest \in Request
      /\ <<c, q.id, q.text>> \in Cases \X (Cases \cup Messages \cup {None}) \X (Texts \cup {None})
  BY <1>1, SentNames
<1>2. CASE UNCHANGED <<cases, thread>> /\ (told' = told \/ (Repeat(q) /\ Saved(q)))
  BY <1>1, <1>2, NothingWritten
<1>3. CASE /\ cases[c].state = "none" /\ q.open < MaxOpen
           /\ cases' = [cases EXCEPT ![c] = [state |-> "officers", opener |-> q.by, revision |-> 1,
                                             due |-> "never", own |-> TRUE]]
           /\ thread' = Appended(c, <<row>>) /\ Saved(q)
  <2>0. cases \in [Cases -> Case] /\ cases[c].revision = 0
    BY <1>1, <1>3 DEF Inv, Typed, CaseOK
  <2>1. /\ cases'[c] = [state |-> "officers", opener |-> q.by, revision |-> 1,
                        due |-> "never", own |-> TRUE]
        /\ cases' \in [Cases -> Case]
        /\ \A k \in Cases \ {c} : cases'[k] = cases[k]
    BY <1>1, <1>3, <2>0 DEF Case, States
  <2>2. row \in Stored /\ row.id = q.id /\ row.text = q.text
    BY <1>5 DEF Row, Stored
  <2>3. \A k \in Cases : cases[k].state = "deleted" => cases'[k].state = "deleted"
    BY <1>3, <2>1
  <2>. HIDE DEF row
  <2>4. /\ thread' \in [Cases -> Seq(Stored)] /\ \A t \in told : Kept(t)'
        /\ Len(thread[c]) + 1 \in 1 .. Len(thread'[c]) /\ thread'[c][Len(thread[c]) + 1] = row
    <3>1. <<row>> \in Seq(Stored) /\ Len(<<row>>) = 1 /\ <<row>>[1] = row
      BY <2>2
    <3>. DEFINE rows == <<row>>
    <3>. HIDE DEF rows
    <3>2. rows \in Seq(Stored) /\ thread' = Appended(c, rows) /\ 1 \in 1 .. Len(rows) /\ rows[1] = row
      BY <1>3, <3>1 DEF rows
    <3>3. /\ thread' \in [Cases -> Seq(Stored)] /\ \A t \in told : Kept(t)'
          /\ \A i \in 1 .. Len(rows) : /\ Len(thread[c]) + i \in 1 .. Len(thread'[c])
                                      /\ thread'[c][Len(thread[c]) + i] = rows[i]
      BY <1>1, <2>3, <3>2, AppendKeeps
    <3>. QED
      BY <3>2, <3>3
  <2>5. Typed'
    BY <1>1, <1>3, <1>5, <2>1, <2>4 DEF Inv, Typed, Answered, Saved
  <2>6. ASSUME NEW k \in Cases PROVE Grows(k) /\ CaseOK(k)'
    <3>1. CASE k = c
      BY <1>1, <1>3, <2>0, <2>1, <3>1 DEF Grows, CaseOK
    <3>2. CASE k # c
      <4>1. thread'[k] = thread[k] /\ Len(thread[k]) \in Nat
        BY <1>3, <3>2, LenProperties DEF Appended, Inv, Typed
      <4>. QED
        BY <2>1, <3>2, <4>1 DEF Grows, CaseOK, Inv
    <3>. QED
      BY <3>1, <3>2
  <2>7. ASSUME NEW t \in told' PROVE Kept(t)'
    <3>1. CASE t = <<c, q.id, q.text>>
      <4>1. /\ t[1] = c /\ t[2] = q.id /\ t[3] = q.text
        BY <3>1
      <4>. QED
        BY <2>2, <2>4, <4>1 DEF Kept
    <3>. QED
      BY <1>3, <2>4, <3>1 DEF Saved
  <2>8. Minted' \subseteq Minted \cup {c}
    BY <2>1 DEF Minted
  <2>9. ASSUME NEW m \in Members
        PROVE  Own(m)' \subseteq Own(m) \/ (q.by = m /\ Own(m)' \subseteq Own(m) \cup {c})
    BY <2>1 DEF Own, Open
  <2>10. LocksMember(s)
    BY <1>1 DEF LocksMember, TakesMember
  <2>. QED
    BY <1>1, <1>3, <2>5, <2>6, <2>7, <2>8, <2>9, <2>10, AnswerKeepsInv
<1>4. q.open < MaxOpen <=> ~(q.open >= MaxOpen)
  BY <1>5, ModMailAssumption DEF ConstantsOK
<1>. QED
  BY <1>2, <1>3, <1>4 DEF CommitOpen

\* A request that writes a case that is there, and tells its sender what it wrote.
LEMMA WriteKeepsInv ==
  ASSUME Inv, NEW s \in Requests, requests[s].stage = "locked", Answered(s),
         UNCHANGED <<pages, spent>>, NEW c \in Cases, c = requests[s].case, Exists(c),
         NEW new \in Case, cases' = [cases EXCEPT ![c] = new],
         new.state \in States, new.opener = cases[c].opener, new.revision = cases[c].revision + 1,
         new.due # "never" => new.state = "closed",
         new.own => \/ Open(c) /\ cases[c].own
                    \/ LocksMember(s) /\ cases[c].opener = requests[s].by /\ requests[s].open < MaxOpen,
         NEW rows \in Seq(Stored), thread' = Appended(c, rows),
         \/ told' = told
         \/ Saved(requests[s]) /\ \E i \in 1 .. Len(rows) :
              rows[i].id = requests[s].id /\ rows[i].text = requests[s].text
  PROVE  Inv'
<1>. DEFINE q == requests[s]
<1>0. /\ q.id \in Cases \cup Messages \cup {None} /\ q.text \in Texts \cup {None}
      /\ NoRequest \in Request
      /\ <<c, q.id, q.text>> \in Cases \X (Cases \cup Messages \cup {None}) \X (Texts \cup {None})
  BY SentNames
<1>1. /\ cases'[c] = new /\ cases' \in [Cases -> Case] /\ cases[c].revision \in Nat
      /\ \A k \in Cases \ {c} : cases'[k] = cases[k]
  BY DEF Inv, Typed, Case
<1>2. \A k \in Cases : cases[k].state = "deleted" => cases'[k].state = "deleted"
  BY <1>1 DEF Exists, States
<1>3. /\ thread' \in [Cases -> Seq(Stored)] /\ \A t \in told : Kept(t)'
      /\ \A i \in 1 .. Len(rows) : /\ Len(thread[c]) + i \in 1 .. Len(thread'[c])
                                  /\ thread'[c][Len(thread[c]) + i] = rows[i]
  BY <1>2, AppendKeeps
<1>4. Typed'
  BY <1>0, <1>1, <1>3 DEF Inv, Typed, Answered, Saved
<1>5. ASSUME NEW k \in Cases PROVE Grows(k) /\ CaseOK(k)'
  <2>1. CASE k = c
    <3>1. CaseOK(c) /\ cases[c].state # "none"
      BY DEF Inv, Exists, States
    <3>. QED
      BY <1>1, <2>1, <3>1 DEF Grows, CaseOK, States
  <2>2. CASE k # c
    <3>1. thread'[k] = thread[k] /\ Len(thread[k]) \in Nat
      BY <2>2, LenProperties DEF Appended, Inv, Typed
    <3>. QED
      BY <1>1, <2>2, <3>1 DEF Grows, CaseOK, Inv
  <2>. QED
    BY <2>1, <2>2
<1>6. ASSUME NEW t \in told' PROVE Kept(t)'
  <2>1. CASE t \in told
    BY <1>3, <2>1
  <2>2. CASE t \notin told
    <3>1. t[1] = c /\ t[2] = q.id /\ t[3] = q.text
      BY <2>2 DEF Saved
    <3>2. PICK i \in 1 .. Len(rows) : rows[i].id = q.id /\ rows[i].text = q.text
      BY <2>2
    <3>3. /\ Len(thread[c]) + i \in 1 .. Len(thread'[c])
          /\ thread'[c][Len(thread[c]) + i].id = q.id /\ thread'[c][Len(thread[c]) + i].text = q.text
      BY <1>3, <3>2
    <3>. QED
      BY <3>1, <3>3 DEF Kept
  <2>. QED
    BY <2>1, <2>2
<1>7. Minted' \subseteq Minted \cup {c}
  BY <1>1 DEF Minted
<1>8. ASSUME NEW m \in Members
      PROVE  \/ Own(m)' \subseteq Own(m)
             \/ /\ LocksMember(s) /\ q.by = m /\ q.open < MaxOpen
                /\ Own(m)' \subseteq Own(m) \cup {c}
  BY <1>1 DEF Own, Open
<1>. QED
  BY <1>4, <1>5, <1>6, <1>7, <1>8, AnswerKeepsInv

LEMMA ReplyKeepsInv ==
  ASSUME Inv, NEW s \in Requests, CommitReply(s)
  PROVE  Inv'
<1>. DEFINE q == requests[s]
            c == requests[s].case
            side == Side(c, q.by)
            row == Row("message", side, q.id, q.text, q.at)
            again == Row("reopened", side, None, None, q.at)
            reopened == IF Open(c) THEN <<>> ELSE <<again>>
            rows == Append(reopened, row)
            new == [cases[c] EXCEPT !.state = IF side = "member" THEN "officers" ELSE "member",
                                    !.revision = cases[c].revision + 1, !.due = "never",
                                    !.own = IF Open(c) THEN cases[c].own ELSE side = "member"]
<1>1. q.stage = "locked" /\ q.kind = "reply" /\ Answered(s) /\ UNCHANGED <<pages, spent>>
  BY DEF CommitReply
<1>2. /\ c \in Cases /\ q.open \in Nat /\ q.at \in Nat
      /\ q.id \in Cases \cup Messages \cup {None} /\ q.text \in Texts \cup {None}
  BY <1>1, SentNames
<1>3. CASE UNCHANGED <<cases, thread>> /\ (told' = told \/ (Repeat(q) /\ Saved(q)))
  BY <1>1, <1>3, NothingWritten
<1>4. CASE /\ Exists(c) /\ ~Refuses(q) /\ cases' = [cases EXCEPT ![c] = new]
           /\ thread' = Appended(c, rows) /\ Saved(q)
  <2>1. cases[c] \in Case /\ cases[c].revision + 1 \in Nat
    BY <1>2 DEF Inv, Typed, Case
  <2>2. /\ new.state \in {"officers", "member"} /\ new.opener = cases[c].opener
        /\ new.revision = cases[c].revision + 1 /\ new.due = "never"
        /\ new.own = IF Open(c) THEN cases[c].own ELSE side = "member"
    BY <2>1 DEF Case
  <2>3. new \in Case
    BY <2>1 DEF Case, States
  <2>4. new.own => \/ Open(c) /\ cases[c].own
                   \/ LocksMember(s) /\ cases[c].opener = q.by /\ q.open < MaxOpen
    <3>. SUFFICES ASSUME ~Open(c), side = "member"
                  PROVE  LocksMember(s) /\ cases[c].opener = q.by /\ q.open < MaxOpen
      BY <2>2
    <3>1. ~(q.open >= MaxOpen)
      BY <1>4 DEF Refuses
    <3>. QED
      BY <1>1, <1>2, <3>1, ModMailAssumption DEF ConstantsOK, LocksMember, TakesMember, Side
  <2>5. row \in Stored /\ again \in Stored /\ row.id = q.id /\ row.text = q.text
    <3>1. side \in {"member", "officer"}
      BY DEF Side
    <3>. QED
      BY <1>2, <3>1 DEF Row, Stored
  <2>6. /\ rows \in Seq(Stored) /\ Len(rows) \in 1 .. Len(rows) /\ rows[Len(rows)] = row
    <3>. HIDE DEF row, again
    <3>1. reopened \in Seq(Stored) /\ Len(reopened) \in Nat
      BY <2>5
    <3>. HIDE DEF reopened
    <3>2. Append(reopened, row) \in Seq(Stored) /\ Len(Append(reopened, row)) = Len(reopened) + 1
          /\ Append(reopened, row)[Len(reopened) + 1] = row
      BY <2>5, <3>1, AppendProperties
    <3>. QED
      BY <3>1, <3>2
  <2>7. new.state \in States /\ (new.due # "never" => new.state = "closed")
    BY <2>2 DEF States
  <2>. HIDE DEF new, rows, row
  <2>8. \E i \in 1 .. Len(rows) : rows[i].id = q.id /\ rows[i].text = q.text
    BY <2>5, <2>6
  <2>. QED
    BY <1>1, <1>2, <1>4, <2>2, <2>3, <2>4, <2>6, <2>7, <2>8, WriteKeepsInv
<1>. QED
  BY <1>3, <1>4 DEF CommitReply, Written

LEMMA ChangeKeepsInv ==
  ASSUME Inv, NEW s \in Requests, CommitChange(s)
  PROVE  Inv'
<1>. DEFINE q == requests[s]
            c == requests[s].case
            row == Row(IF q.kind = "close" THEN "closed" ELSE "reopened", Side(c, q.by), None, None, q.at)
            reopened == [cases[c] EXCEPT !.state = "officers", !.revision = cases[c].revision + 1,
                                         !.due = "never", !.own = FALSE]
            closed == [cases[c] EXCEPT !.state = "closed", !.revision = cases[c].revision + 1,
                                       !.due = "set", !.own = FALSE]
            new == IF q.kind = "reopen" THEN reopened ELSE closed
            rows == <<row>>
<1>1. q.stage = "locked" /\ Answered(s) /\ UNCHANGED <<pages, spent, told>>
  BY DEF CommitChange
<1>2. c \in Cases /\ q.at \in Nat
  BY <1>1, SentNames
<1>3. CASE UNCHANGED <<cases, thread>>
  BY <1>1, <1>3, NothingWritten
<1>4. CASE Exists(c) /\ cases' = [cases EXCEPT ![c] = new] /\ thread' = Appended(c, rows)
  <2>1. cases[c] \in Case /\ cases[c].revision + 1 \in Nat
    BY <1>2 DEF Inv, Typed, Case
  <2>2. /\ new.state \in States /\ new.opener = cases[c].opener
        /\ new.revision = cases[c].revision + 1 /\ (new.due # "never" => new.state = "closed")
        /\ new.own = FALSE
    BY <2>1 DEF Case, States
  <2>3. new \in Case
    BY <2>1 DEF Case, States
  <2>4. rows \in Seq(Stored)
    <3>1. row \in Stored
      BY <1>2 DEF Row, Stored, Side
    <3>. QED
      BY <3>1
  <2>. HIDE DEF new, rows
  <2>. QED
    BY <1>1, <1>2, <1>4, <2>2, <2>3, <2>4, WriteKeepsInv
<1>. QED
  BY <1>3, <1>4 DEF CommitChange, Written

-----------------------------------------------------------------------------
(* Retention *)

LEMMA RetentionKeepsInv ==
  ASSUME Inv, NEW c \in Cases, Expires(c) \/ Prune(c)
  PROVE  Inv'
<1>1. /\ UNCHANGED <<told, pages, requests>> /\ spent' \in Nat
      /\ cases[c].state = "closed" /\ cases[c].due \in {"set", "past"} /\ cases[c] \in Case
  BY DEF Expires, Prune, Spend, Inv, Typed, CaseOK
<1>2. PICK new \in Case :
        /\ cases' = [cases EXCEPT ![c] = new]
        /\ new.state \in {"closed", "deleted"} /\ new.opener = cases[c].opener
        /\ new.revision = cases[c].revision /\ (new.due # "never" => new.state = "closed")
        /\ new.state = "closed" => thread' = thread
        /\ new.state = "deleted" => thread' = [thread EXCEPT ![c] = <<>>]
  <2>1. CASE Expires(c)
    <3>. DEFINE new == [cases[c] EXCEPT !.due = "past"]
    <3>1. cases' = [cases EXCEPT ![c] = new] /\ thread' = thread
      BY <2>1 DEF Expires, Inv, Typed
    <3>2. /\ new \in Case /\ new.state = "closed" /\ new.opener = cases[c].opener
          /\ new.revision = cases[c].revision
      BY <1>1 DEF Case, States
    <3>. HIDE DEF new
    <3>. QED
      BY <3>1, <3>2
  <2>2. CASE Prune(c)
    <3>. DEFINE new == [cases[c] EXCEPT !.state = "deleted", !.due = "never"]
    <3>1. cases' = [cases EXCEPT ![c] = new] /\ thread' = [thread EXCEPT ![c] = <<>>]
      BY <2>2 DEF Prune, Inv, Typed
    <3>2. /\ new \in Case /\ new.state = "deleted" /\ new.opener = cases[c].opener
          /\ new.revision = cases[c].revision /\ new.due = "never"
      BY <1>1 DEF Case, States
    <3>. HIDE DEF new
    <3>. QED
      BY <3>1, <3>2
  <2>. QED
    BY <2>1, <2>2
<1>3. /\ cases'[c] = new /\ cases' \in [Cases -> Case] /\ cases[c].revision \in Nat
      /\ \A k \in Cases \ {c} : cases'[k] = cases[k]
  BY <1>1, <1>2 DEF Inv, Typed, Case
<1>4. /\ thread' \in [Cases -> Seq(Stored)]
      /\ \A k \in Cases \ {c} : thread'[k] = thread[k]
      /\ thread'[c] = thread[c] \/ (new.state = "deleted" /\ thread'[c] = <<>>)
  <2>1. thread \in [Cases -> Seq(Stored)] /\ <<>> \in Seq(Stored)
    BY DEF Inv, Typed
  <2>. QED
    BY <1>2, <2>1
<1>5. Typed'
  BY <1>1, <1>3, <1>4 DEF Inv, Typed
<1>6. ASSUME NEW k \in Cases PROVE Grows(k) /\ CaseOK(k)'
  <2>1. Len(thread[k]) \in Nat
    BY LenProperties DEF Inv, Typed
  <2>2. CASE k = c
    <3>1. Len(thread'[c]) <= Len(thread[c])
      <4>1. CASE thread'[c] = thread[c]
        BY <2>1, <2>2, <4>1
      <4>2. CASE thread'[c] = <<>>
        BY <2>1, <2>2, <4>2, Len(<<>>) = 0
      <4>. QED
        BY <1>4, <4>1, <4>2
    <3>2. CaseOK(c)
      BY DEF Inv
    <3>. QED
      BY <1>1, <1>2, <1>3, <2>2, <3>1, <3>2 DEF Grows, CaseOK
  <2>3. CASE k # c
    BY <1>3, <1>4, <2>1, <2>3 DEF Grows, CaseOK, Inv
  <2>. QED
    BY <2>2, <2>3
<1>7. \A a \in Actors, k \in Cases : PageOK(a, k)'
  BY <1>1, <1>5, <1>6, OlderPages
<1>8. \A m : Own(m)' \subseteq Own(m)
  BY <1>2, <1>3 DEF Own, Open
<1>9. \A m : Cardinality(Own(m)') <= Cardinality(Own(m)) /\ Cardinality(Own(m)') \in Nat
             /\ Cardinality(Own(m)) \in Nat
  BY <1>8, OwnIsMinted, FS_Subset, FS_CardinalityType
<1>10. ASSUME NEW s \in Requests PROVE RequestOK(s)' /\ LockOK(s)'
  <2>1. RequestOK(s)' /\ \A o \in Requests : LocksMember(o)' => LocksMember(o)
    BY <1>1, <1>5, <1>6, OlderRequest
  <2>. SUFFICES ASSUME LocksMember(s)' PROVE LockOK(s)'
    BY <2>1 DEF LockOK
  <2>. PICK m : m = requests[s].by
    OBVIOUS
  <2>2. LocksMember(s) /\ LockOK(s) /\ requests[s].open \in Nat
    BY <2>1 DEF Inv, Typed, Request
  <2>. QED
    BY <1>1, <1>9, <2>1, <2>2 DEF LockOK
<1>11. ASSUME NEW t \in told' PROVE Kept(t)'
  <2>1. Kept(t) /\ t[1] \in Cases
    BY <1>1 DEF Inv, Typed
  <2>2. cases[t[1]].state = "deleted" => cases'[t[1]].state = "deleted"
    BY <1>1, <1>3, <2>1
  <2>3. cases'[t[1]].state = "deleted" \/ thread'[t[1]] = thread[t[1]]
    BY <1>3, <1>4, <2>1
  <2>. QED
    BY <2>1, <2>2, <2>3 DEF Kept
<1>12. IsFiniteSet(Minted')
  <2>1. Minted' \subseteq Minted
    BY <1>1, <1>3 DEF Minted
  <2>. QED
    BY <2>1, FS_Subset DEF Inv
<1>13. \A m \in Members : Cardinality(Own(m)') <= MaxOpen
  BY <1>9, ModMailAssumption DEF ConstantsOK, Inv
<1>. QED
  BY <1>5, <1>6, <1>7, <1>10, <1>11, <1>12, <1>13 DEF Inv

-----------------------------------------------------------------------------
(* The lock, and the whole *)

\* The member's open cases are counted while nobody else may add to them.
LEMMA LockKeepsInv ==
  ASSUME Inv, NEW s \in Requests, Lock(s)
  PROVE  Inv'
<1>. DEFINE q == requests[s]
            new == [q EXCEPT !.stage = "locked", !.open = IF q.by \in Members THEN OpenCases(q.by) ELSE 0]
<1>1. /\ q.stage = "sent" /\ requests' = [requests EXCEPT ![s] = new]
      /\ UNCHANGED <<cases, thread, told, pages, spent>> /\ q \in Request /\ RequestOK(s)
      /\ \A o \in Requests \ {s} : ~Holds(q, requests[o])
  BY DEF Lock, Inv, Typed
<1>2. ASSUME NEW m \in Members
      PROVE  OpenCases(m) \in Nat /\ Cardinality(Own(m)) <= OpenCases(m)
  <2>. DEFINE S == {c \in Cases : Open(c) /\ cases[c].opener = m}
  <2>1. S \subseteq Minted /\ Own(m) \subseteq S
    BY DEF Own, Minted, Open
  <2>2. IsFiniteSet(S)
    BY <2>1, FS_Subset DEF Inv
  <2>. QED
    BY <2>1, <2>2, FS_Subset, FS_CardinalityType DEF OpenCases
<1>3. /\ new \in Request /\ new.stage = "locked" /\ new.kind = q.kind /\ new.by = q.by /\ new.case = q.case
      /\ new.revision = q.revision /\ new.saw = q.saw
      /\ new.by \in Members => new.open = OpenCases(q.by)
  BY <1>1, <1>2 DEF Request
<1>. HIDE DEF new
<1>4. /\ requests'[s] = new /\ requests' \in [Requests -> Request]
      /\ \A o \in Requests \ {s} : requests'[o] = requests[o]
  BY <1>1, <1>3 DEF Inv, Typed
<1>5. Typed'
  BY <1>1, <1>4 DEF Inv, Typed
<1>6. ASSUME NEW o \in Requests PROVE RequestOK(o)'
  <2>1. CASE o = s
    BY <1>1, <1>3, <1>4, <2>1 DEF RequestOK, Minted, Current
  <2>2. CASE o # s
    <3>1. RequestOK(o) /\ requests'[o] = requests[o]
      BY <1>4, <2>2 DEF Inv
    <3>. QED
      BY <1>1, <3>1 DEF RequestOK, Minted, Current
  <2>. QED
    BY <2>1, <2>2
<1>7. \A o \in Requests \ {s} : LocksMember(o)' = LocksMember(o)
  BY <1>1, <1>4 DEF LocksMember, TakesMember, Side
<1>8. LocksMember(s)' => q.by \in Members /\ \A o \in Requests \ {s} : LocksMember(o) => requests[o].by # q.by
  <2>1. LocksMember(s)' => TakesMember(q)
    BY <1>1, <1>3, <1>4 DEF LocksMember, TakesMember, Side
  <2>2. TakesMember(q) => q.by \in Members
    BY <1>1 DEF TakesMember, Side, RequestOK, Inv, CaseOK, Minted
  <2>3. TakesMember(q) => \A o \in Requests \ {s} : LocksMember(o) => requests[o].by # q.by
    BY <1>1 DEF Holds, LocksMember
  <2>. QED
    BY <2>1, <2>2, <2>3
<1>9. ASSUME NEW o \in Requests PROVE LockOK(o)'
  <2>. SUFFICES ASSUME LocksMember(o)'
                PROVE  /\ Cardinality(Own(requests[o].by)') <= requests'[o].open
                       /\ requests'[o].by = requests[o].by
                       /\ \A p \in Requests \ {o} : LocksMember(p)' => requests'[p].by # requests[o].by
    <3>. PICK m : m = requests[o].by
      OBVIOUS
    <3>. QED
      BY DEF LockOK
  <2>0. requests'[o].by = requests[o].by
    BY <1>3, <1>4
  <2>1. \A m : Own(m)' = Own(m)
    BY <1>1 DEF Own, Open
  <2>2. CASE o = s
    BY <1>2, <1>3, <1>4, <1>7, <1>8, <2>0, <2>1, <2>2
  <2>3. CASE o # s
    <3>1. LocksMember(o) /\ LockOK(o) /\ requests'[o] = requests[o]
      BY <1>4, <1>7, <2>3 DEF Inv
    <3>2. ASSUME NEW p \in Requests \ {o}, LocksMember(p)' PROVE requests'[p].by # requests[o].by
      <4>1. CASE p = s
        BY <1>3, <1>4, <1>8, <2>3, <3>1, <3>2, <4>1
      <4>2. CASE p # s
        BY <1>4, <1>7, <3>1, <3>2, <4>2 DEF LockOK
      <4>. QED
        BY <4>1, <4>2
    <3>3. Cardinality(Own(requests[o].by)) <= requests'[o].open
      BY <3>1 DEF LockOK
    <3>4. Cardinality(Own(requests[o].by)') <= requests'[o].open
      <4>. PICK m : m = requests[o].by
        OBVIOUS
      <4>. QED
        BY <2>0, <2>1, <3>3
    <3>. QED
      BY <2>0, <3>2, <3>4
  <2>. QED
    BY <2>2, <2>3
<1>10. \A a \in Actors, k \in Cases : PageOK(a, k)'
  BY <1>1 DEF Inv, PageOK, Current
<1>. QED
  BY <1>1, <1>5, <1>6, <1>9, <1>10, QuietKeepsInv

LEMMA InitInv == Init => Inv
<1>. SUFFICES ASSUME Init PROVE Inv
  OBVIOUS
<1>1. PICK m \in Members, c \in Cases, state \in States \cup {"none"} :
       /\ cases = [k \in Cases |-> IF k = c /\ state # "none"
                    THEN [state |-> state, opener |-> m, revision |-> 1, own |-> state # "closed",
                          due |-> IF state = "closed" THEN "set" ELSE "never"]
                    ELSE Unopened]
       /\ thread = [k \in Cases |-> IF k = c /\ state # "none"
                     THEN <<Row("message", "member", k, CHOOSE t \in Texts : TRUE, 0)>> ELSE <<>>]
  BY DEF Init
<1>2. /\ requests = [s \in Requests |-> NoRequest] /\ pages = [a \in Actors |-> [k \in Cases |-> NoPage]]
      /\ told = {} /\ spent = 0
  BY DEF Init
<1>3. NoRequest \in Request /\ NoPage \in Page /\ NoRequest.stage = "none" /\ NoPage.stage = "none"
      /\ NoPage.revision = 0
  BY DEF NoRequest, NoPage, Request, Page
<1>4. ASSUME NEW k \in Cases
      PROVE  /\ cases[k] \in Case /\ CaseOK(k) /\ thread[k] \in Seq(Stored) /\ cases[k].revision \in Nat
             /\ k # c => cases[k].state = "none"
  <2>1. Row("message", "member", k, CHOOSE t \in Texts : TRUE, 0) \in Stored
    BY DEF Row, Stored
  <2>2. thread[k] \in Seq(Stored)
    BY <1>1, <2>1
  <2>3. CASE k = c /\ state # "none"
    BY <1>1, <2>2, <2>3 DEF Case, CaseOK, States
  <2>4. CASE ~(k = c /\ state # "none")
    BY <1>1, <2>2, <2>4 DEF Case, CaseOK, Unopened
  <2>. QED
    BY <2>3, <2>4
<1>5. Typed
  <2>1. cases \in [Cases -> Case]
    BY <1>1, <1>4
  <2>2. thread \in [Cases -> Seq(Stored)]
    BY <1>1, <1>4
  <2>. QED
    BY <1>2, <1>3, <2>1, <2>2 DEF Typed
<1>6. Minted \subseteq {c} /\ IsFiniteSet({c}) /\ Cardinality({c}) = 1
  BY <1>4, FS_Singleton DEF Minted
<1>7. IsFiniteSet(Minted)
  BY <1>6, FS_Subset
<1>8. ASSUME NEW p \in Members PROVE Cardinality(Own(p)) <= MaxOpen
  <2>1. Own(p) \subseteq {c}
    BY <1>6 DEF Own, Minted, Open
  <2>2. Cardinality(Own(p)) <= 1 /\ Cardinality(Own(p)) \in Nat
    BY <1>6, <2>1, FS_Subset, FS_CardinalityType
  <2>. QED
    BY <2>2, ModMailAssumption DEF ConstantsOK
<1>9. \A a \in Actors, k \in Cases : PageOK(a, k)
  BY <1>2, <1>3, <1>4 DEF PageOK
<1>10. \A s \in Requests : RequestOK(s) /\ LockOK(s)
  BY <1>2, <1>3 DEF RequestOK, LockOK, LocksMember
<1>. QED
  BY <1>2, <1>4, <1>5, <1>7, <1>8, <1>9, <1>10 DEF Inv

LEMMA NextKeepsInv == Inv /\ [Next]_vars => Inv'
<1>. SUFFICES ASSUME Inv, [Next]_vars PROVE Inv'
  OBVIOUS
<1>1. CASE UNCHANGED vars
  <2>1. UNCHANGED <<cases, thread, told>> /\ Typed'
    BY <1>1 DEF vars, Inv, Typed
  <2>2. (\A s \in Requests : RequestOK(s)' /\ LockOK(s)') /\ \A a \in Actors, k \in Cases : PageOK(a, k)'
    BY <1>1 DEF vars, Inv, RequestOK, LockOK, LocksMember, TakesMember, Side, Own, Open, Minted, Current, PageOK
  <2>. QED
    BY <2>1, <2>2, QuietKeepsInv
<1>2. ASSUME NEW s \in Requests, Sends(s) \/ Lock(s) \/ Commits(s) \/ Abandon(s) PROVE Inv'
  BY <1>2, SendKeepsInv, LockKeepsInv, OpenKeepsInv, ReplyKeepsInv, ChangeKeepsInv, AbandonKeepsInv DEF Commits
<1>3. ASSUME NEW a \in Actors, NEW c \in Cases, ViewReads(a, c) \/ ViewShows(a, c) PROVE Inv'
  BY <1>3, ViewKeepsInv
<1>4. ASSUME NEW kind \in {"ping", "dm"}, NEW c \in Cases,
             Runs(kind, c) \/ JobFails(kind, c) \/ JobGivesUp(kind, c) \/ Requeue(kind, c) PROVE Inv'
  BY <1>4, JobKeepsInv
<1>5. ASSUME NEW c \in Cases, Expires(c) \/ Prune(c) PROVE Inv'
  BY <1>5, RetentionKeepsInv
<1>6. CASE Toggle \/ SetChannel
  BY <1>6, ToggleKeepsInv
<1>. QED
  BY <1>1, <1>2, <1>3, <1>4, <1>5, <1>6 DEF Next

LEMMA InvHolds == Spec => []Inv
  BY InitInv, NextKeepsInv, PTL DEF Spec

-----------------------------------------------------------------------------
(* The theorems *)

(* The two invariants of the run: whoever is told that a text is saved has it *)
(* in the thread until the case is deleted, and a member's own acts stay       *)
(* within the limit of open cases (modmail.ts:830, 1375).                      *)
THEOREM TextsStay == Spec => []TextsAreKept
<1>1. Inv => TextsAreKept
  <2>. SUFFICES ASSUME Inv PROVE NothingDropped /\ OwnCasesBounded
    BY DEF TextsAreKept
  <2>1. ASSUME NEW t \in told
        PROVE  \/ cases[t[1]].state = "deleted"
               \/ \E r \in Rows(t[1], LAMBDA r : r.id = t[2]) : thread[t[1]][r].text = t[3]
    <3>1. Kept(t)
      BY DEF Inv
    <3>. QED
      BY <3>1 DEF Kept, Rows
  <2>2. OwnCasesBounded
    BY DEF OwnCasesBounded, Own, Inv
  <2>. QED
    BY <2>1, <2>2 DEF NothingDropped
<1>. QED
  BY <1>1, InvHolds, PTL

LEMMA ClosesInSight == Inv /\ [Next]_vars =>
  [\A s \in Requests :
       LET q == requests[s]
       IN /\ q.kind = "close" /\ requests'[s] = NoRequest
          /\ Open(q.case) /\ cases'[q.case].state = "closed"
          => q.saw >= Len(thread[q.case])]_vars
<1>. SUFFICES ASSUME Inv, Next, NEW s \in Requests, requests[s].kind = "close",
                     requests'[s] = NoRequest, Open(requests[s].case),
                     cases'[requests[s].case].state = "closed"
              PROVE  requests[s].saw >= Len(thread[requests[s].case])
  OBVIOUS
<1>1. requests[s] # NoRequest
  BY DEF NoRequest
<1>2. cases' # cases
  BY DEF Open
<1>3. \A k \in Requests : ~Sends(k) /\ ~Lock(k) /\ ~Abandon(k)
  BY <1>2 DEF Sends, SendOpen, SendReply, SendChange, Send, Lock, Abandon
<1>4. \A c \in Cases : ~Expires(c) /\ ~Prune(c)
  BY <1>1 DEF Expires, Prune
<1>5. PICK o \in Requests : Commits(o)
  BY <1>2, <1>3, <1>4 DEF Next, ViewReads, ViewShows, Runs, JobReads, JobSends, JobFails,
     JobGivesUp, Requeue, Toggle, SetChannel
<1>6. o = s
  BY <1>1, <1>5 DEF Commits, CommitOpen, CommitReply, CommitChange, Answered, Inv, Typed
<1>7. CommitChange(s)
  BY <1>5, <1>6 DEF Commits, CommitOpen, CommitReply
<1>8. requests[s].stage = "locked" /\ ~Stale(requests[s])
  BY <1>2, <1>7 DEF CommitChange
<1>9. Current(requests[s].case, requests[s].revision, requests[s].saw)
  BY <1>8 DEF Inv, RequestOK
<1>. QED
  BY <1>8, <1>9 DEF Stale, Current

LEMMA OpenStays == Inv /\ [Next]_vars =>
  [\A c \in Cases : Open(c) => cases'[c].state # "deleted"]_vars
<1>. SUFFICES ASSUME Inv, Next, NEW c \in Cases, Open(c), cases'[c].state = "deleted"
              PROVE  FALSE
  OBVIOUS
<1>1. cases' # cases /\ cases \in [Cases -> Case] /\ CaseOK(c)
  BY DEF Open, Inv, Typed
<1>2. \A k \in Requests : ~Sends(k) /\ ~Lock(k) /\ ~Abandon(k)
  BY <1>1 DEF Sends, SendOpen, SendReply, SendChange, Send, Lock, Abandon
<1>3. ASSUME NEW k \in Cases, Expires(k) \/ Prune(k) PROVE FALSE
  BY <1>1, <1>3 DEF Expires, Prune, CaseOK, Open
<1>4. PICK o \in Requests : Commits(o)
  BY <1>1, <1>2, <1>3 DEF Next, ViewReads, ViewShows, Runs, JobReads, JobSends, JobFails,
     JobGivesUp, Requeue, Toggle, SetChannel
<1>5. requests[o].case \in Cases
  BY <1>4, SentNames DEF Commits, CommitOpen, CommitReply, CommitChange
<1>6. \E new : cases' = [cases EXCEPT ![requests[o].case] = new] /\ new.state \in States
  <2>1. CASE CommitOpen(o)
    BY <1>1, <2>1 DEF CommitOpen, States
  <2>2. ASSUME NEW state \in States, NEW own, cases' = Written(requests[o].case, state, own)
        PROVE  \E new : cases' = [cases EXCEPT ![requests[o].case] = new] /\ new.state \in States
    <3>. DEFINE old == cases[requests[o].case]
                new == [old EXCEPT !.state = state, !.revision = old.revision + 1, !.due = "never", !.own = own]
    <3>1. cases' = [cases EXCEPT ![requests[o].case] = new]
      BY <2>2 DEF Written
    <3>2. new.state \in States
      BY <1>1, <1>5 DEF Case
    <3>. HIDE DEF new
    <3>. QED
      BY <3>1, <3>2
  <2>3. CASE CommitReply(o)
    BY <1>1, <2>2, <2>3 DEF CommitReply, States
  <2>4. CASE CommitChange(o) /\ requests[o].kind = "reopen"
    BY <1>1, <2>2, <2>4 DEF CommitChange, States
  <2>5. CASE CommitChange(o) /\ requests[o].kind # "reopen"
    <3>. DEFINE old == cases[requests[o].case]
                new == [old EXCEPT !.state = "closed", !.revision = old.revision + 1, !.due = "set", !.own = FALSE]
    <3>1. cases' = [cases EXCEPT ![requests[o].case] = new]
      BY <1>1, <2>5 DEF CommitChange
    <3>2. new.state \in States
      BY <1>1, <1>5 DEF Case, States
    <3>. HIDE DEF new
    <3>. QED
      BY <3>1, <3>2
  <2>. QED
    BY <1>4, <2>1, <2>3, <2>4, <2>5 DEF Commits
<1>. QED
  BY <1>1, <1>5, <1>6 DEF Open, States

(* The action property of the run: nobody closes over a reply they were not    *)
(* shown, and retention deletes no open case (modmail.ts:1149, 1740).          *)
THEOREM EndsInSight == Spec => CasesEndInSight
  BY InvHolds, ClosesInSight, OpenStays, PTL DEF Spec, CasesEndInSight, CloseSeesThread, OpenCasesKept
=============================================================================
