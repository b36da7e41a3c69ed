----------------------------- MODULE KeyedWork -----------------------------
(***************************************************************************)
(* What the job queue promises to those who ask it for work, without leases, *)
(* generations, attempts or due times.  Work for a key is one open item at a  *)
(* time; asking again while it is open only makes its input newer.  One      *)
(* worker at a time owns an item, and it has seen the input that was newest  *)
(* when it took it.  What it publishes is the result of that input, and the  *)
(* item ends by publishing only if no newer input came in the meantime.      *)
(***************************************************************************)
EXTENDS Naturals

CONSTANTS Keys, Items, Workers, Nobody

VARIABLES
  asked,   \* how many inputs each key has been given
  item     \* [state, key, input, owner, seen, result] of each item

vars == <<asked, item>>

Unowned(state, k, n) ==
  [state |-> state, key |-> k, input |-> n, owner |-> Nobody, seen |-> 0, result |-> 0]
Open(k) == {i \in Items : item[i].key = k /\ item[i].state = "open"}

Init == asked = [k \in Keys |-> 0] /\ \E k \in Keys : item = [i \in Items |-> Unowned("unused", k, 0)]

\* The item with its key and its input, and everything else anew.
Becomes(i, state, owner, seen, result) ==
  [state |-> state, key |-> item[i].key, input |-> item[i].input,
   owner |-> owner, seen |-> seen, result |-> result]
Change(i, new) == item' = [item EXCEPT ![i] = new]

\* A new item, if none is open; otherwise a newer input for the open one.
Ask(k) ==
  /\ asked' = [asked EXCEPT ![k] = @ + 1]
  /\ \/ \E i \in Open(k) : Change(i, [item[i] EXCEPT !.input = asked[k] + 1])
     \/ /\ Open(k) = {}
        /\ \E i \in Items :
             /\ item[i].state = "unused"
             /\ Change(i, Unowned("open", k, asked[k] + 1))

\* A worker that owns nothing takes an open item, perhaps from a worker that stalls.
Take(w, i) ==
  /\ item[i].state = "open" /\ \A j \in Items : item[j].owner # w
  /\ Change(i, Becomes(i, "open", w, item[i].input, item[i].result))
  /\ UNCHANGED asked

\* The owner, and nobody else, publishes.
Publish(w, i) ==
  /\ item[i].state = "open" /\ item[i].owner = w
  /\ \E end \in {"open", "ended"} :
       /\ end = "ended" => item[i].seen = item[i].input
       /\ Change(i, Becomes(i, end, Nobody, 0, item[i].seen))
  /\ UNCHANGED asked

\* An item is let go without a result: to be taken again, or for good.
LetGo(i) ==
  /\ item[i].state = "open"
  /\ \E end \in {"open", "ended"} :
       Change(i, Becomes(i, end, Nobody, 0, item[i].result))
  /\ UNCHANGED asked

\* An ended item is asked for again as it was, unless its key has an open one.
Reopen(i) ==
  /\ item[i].state = "ended" /\ Open(item[i].key) = {}
  /\ Change(i, [item[i] EXCEPT !.state = "open"])
  /\ UNCHANGED asked

\* All workers disappear.
Abandon ==
  /\ item' = [i \in Items |-> Becomes(i, item[i].state, Nobody, 0, item[i].result)]
  /\ UNCHANGED asked

Next ==
  \/ \E k \in Keys : Ask(k)
  \/ \E w \in Workers, i \in Items : Take(w, i) \/ Publish(w, i)
  \/ \E i \in Items : LetGo(i) \/ Reopen(i)
  \/ Abandon

Spec == Init /\ [][Next]_vars
=============================================================================
