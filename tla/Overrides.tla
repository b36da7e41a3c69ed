------------------------------- MODULE Overrides -------------------------------
(***************************************************************************)
(* /setup overrides confirm:true (src/application/overrides.ts over          *)
(* src/discord/overrides.ts): one run reads the channels, plans, and writes   *)
(* TaruBot's own entry channel by channel while officers, settings commands   *)
(* and Discord go on changing the server.                                    *)
(*                                                                         *)
(* disc is what Discord stores, cache what the gateway has delivered,        *)
(* recorded the newest audit row's hidden set and parked whether jobs wait    *)
(* on a channel TaruBot could not use.  What runs between two awaits is one   *)
(* action.  Of the plan's order only "categories first" is kept, and the      *)
(* reply's lists are left out but for the channels skipped.                   *)
(***************************************************************************)
EXTENDS Visibility

CONSTANTS
  Initial,     \* the channels Discord starts with
  Posting,     \* the channels TaruBot posts in when a setting names them
  Settings,    \* the sets of channels the settings may name
  Guild,       \* TaruBot's roles and what they grant
  MaxRuns, MaxChanges   \* bounds: runs, and changes by anyone else

VARIABLES disc, cache, admin, configured, revision, recorded, parked, run, runs, spent,
          judged,      \* history: denies an audited run saw, but for those Discord's copy replaced
          untouched,   \* history: channels without a TaruBot entry at first that only it
                       \* has changed, and every plan could read
          quiet        \* history: nobody changed anything since the run started

vars == <<disc, cache, admin, configured, revision, recorded, parked, run, runs, spent, judged, untouched, quiet>>
server == <<disc, cache, admin, configured, revision>>
history == <<judged, untouched, quiet>>

\* Discord never allows and denies one permission in one entry, a category has no
\* parent, and only a category is one; TaruBot itself is no role.
Clean(entry) == entry.allow \cap entry.deny = {}
ChannelOK(ch) ==
  /\ DOMAIN ch = {"category", "parent", "overwrites", "obfuscated", "fetched"} /\ ch.obfuscated = FALSE
  /\ Clean(EntryOf(ch.overwrites, Self))
Tree(channels) ==
  \A c \in DOMAIN channels :
    channels[c].parent # None =>
      ~channels[c].category /\ channels[c].parent \in DOMAIN channels /\ channels[channels[c].parent].category
ServerOK ==
  /\ None \notin DOMAIN Initial /\ Self \notin Guild.held \cup {Guild.botRole}
  /\ Tree(Initial) /\ \A c \in DOMAIN Initial : ChannelOK(Initial[c])

NoRun == [step |-> "none", rev |-> 0, set |-> {}, before |-> {}, snap |-> <<>>, unread |-> {}, plan |-> <<>>,
          todo |-> {}, at |-> None, after |-> Neutral, ows |-> <<>>, lends |-> <<>>, own |-> {}, real |-> {},
          known |-> {}, found |-> {}, skipped |-> {}, changed |-> FALSE, stop |-> FALSE, result |-> "none"]

View(channels) ==
  [channels |-> channels, held |-> Guild.held, botRole |-> Guild.botRole, perms |-> Guild.perms]
SettingsOf(named, rec) ==
  [onboarding |-> FALSE, posting |-> named \cap Posting, configured |-> named, recorded |-> rec]
Set(f, c, v) == [d \in DOMAIN f \cup {c} |-> IF d = c THEN v ELSE f[d]]
\* replaced() with no channel: it drops out.
Drop(f, c) == [d \in DOMAIN f \ {c} |-> f[d]]
Denied(ch) == "view" \in EntryOf(ch.overwrites, Self).deny
Synced(c) == disc[c].parent \in DOMAIN disc /\ SameOverwrites(disc[c].overwrites, disc[disc[c].parent].overwrites)
Fresh(c) == [category |-> disc[c].category, parent |-> disc[c].parent, overwrites |-> disc[c].overwrites,
             obfuscated |-> disc[c].obfuscated, fetched |-> TRUE]

\* What the gateway delivers: without Administrator a channel TaruBot cannot view
\* comes obfuscated, and a command's channel option clears only the flag.
Delivered(ch) ==
  IF admin \/ "view" \in Perms(View(disc), ch.overwrites) THEN ch
  ELSE [ch EXCEPT !.overwrites = Synthetic, !.obfuscated = TRUE]
\* One action delivers all that is pending.
Deliver ==
  /\ cache' = [c \in DOMAIN disc |-> Delivered(disc[c])] /\ cache' # cache
  /\ UNCHANGED <<disc, admin, configured, revision, recorded, parked, run, runs, spent, history>>

-----------------------------------------------------------------------------
(* locked(): the baseline and view() *)

InRun == SettingsOf(run.set, run.before)
Seen == View(run.snap)
Ends(result) == run' = [run EXCEPT !.step = "recording", !.result = result]

\* The gateway has caught up when a command runs, but for the entries it hides.
Start ==
  /\ run.step \in {"none", "done"} /\ runs < MaxRuns /\ admin
  /\ \A c \in DOMAIN cache : c \in DOMAIN disc /\ (Unreadable(cache[c]) \/ cache[c] = disc[c])
  /\ run' = [NoRun EXCEPT !.step = "reading", !.rev = revision, !.set = configured, !.before = recorded,
                          !.known = recorded, !.snap = cache,
                          !.unread = {c \in DOMAIN cache : Unreadable(cache[c])}]
  /\ runs' = runs + 1 /\ quiet' = TRUE
  /\ UNCHANGED <<server, recorded, parked, spent, judged, untouched>>

\* A still hidden channel (TaruBot lost Administrator meanwhile) stays unreadable.
Reads(c) ==
  /\ run.step = "reading" /\ c \in run.unread
  /\ run' = [run EXCEPT !.unread = @ \ {c},
                        !.snap = IF c \notin DOMAIN disc THEN Drop(@, c)
                                 ELSE IF admin THEN Set(@, c, Fresh(c)) ELSE @]
  /\ UNCHANGED <<server, recorded, parked, runs, spent, history>>

\* What a run records: what it judged from real data, and what it could not look at.
Examined == {c \in DOMAIN run.snap : ~Unreadable(run.snap[c])}
JudgedNow == (HiddenOnPurpose(Seen, InRun) \cup DeniedSet(Seen, InRun)) \cap Examined
\* A mutant: only what this run could look at is recorded.
NothingUnexamined == {}
Unexamined == (run.before \cap DOMAIN run.snap) \ Examined
Plans ==
  /\ run.step = "reading"
  /\ \E result \in {"stopping", "time", "nothing", "applied"} :
       /\ (result = "stopping") => run.stop /\ run.unread # {}
       /\ (result = "time") => run.unread # {}
       /\ (result \in {"nothing", "applied"}) => run.unread = {}
       /\ (result = "nothing") <=> (run.unread = {} /\ Wanted(Seen, InRun) = {})
       /\ run' = [run EXCEPT !.step = IF result = "applied" THEN "loop" ELSE "recording", !.result = result,
                             !.plan = Planned(Seen, InRun), !.todo = Wanted(Seen, InRun),
                             !.real = JudgedNow, !.known = JudgedNow \cup Unexamined]
  /\ untouched' = IF run.unread = {} THEN untouched \cap Examined ELSE untouched
  /\ UNCHANGED <<server, recorded, parked, runs, spent, judged, quiet>>

-----------------------------------------------------------------------------
(* loop() *)

Turn(c) == run.step = "loop" /\ c \in run.todo
           /\ (run.snap[c].category \/ \A d \in run.todo : ~run.snap[d].category)
\* A configured channel moved into the category since the plan.
Gained(c) == run.snap[c].category /\ \E d \in DOMAIN cache \cap run.set : cache[d].parent = c
LoopStops(c) ==
  /\ Turn(c)
  /\ \/ run.stop /\ Ends("stopping")
     \/ Ends("time")
     \/ (revision # run.rev \/ ~admin) /\ Ends("precondition")
     \/ Gained(c) /\ Ends("changed")
  /\ UNCHANGED <<server, recorded, parked, runs, spent, history>>
Goes(c) == Turn(c) /\ ~run.stop /\ revision = run.rev /\ admin /\ ~Gained(c)

Moved(c, r) == [r EXCEPT !.todo = @ \ {c}, !.step = IF run.todo = {c} THEN "recording" ELSE "loop"]
Skip(c) == run' = Moved(c, [run EXCEPT !.skipped = @ \cup {c}])
\* A category this plan does not write may carry an interrupted run's entry.
Resumable(k) == k \in DOMAIN run.snap \ DOMAIN run.plan /\ Resume(Seen, InRun, k, run.snap[k]) # NoInherit
Lends(k) ==
  IF k \in DOMAIN run.lends THEN run.lends[k]
  ELSE IF Resumable(k) /\ k \in DOMAIN disc
       THEN Resume(View(Set(run.snap, k, Fresh(k))), InRun, k, Fresh(k))
  ELSE NoInherit
LeftAlone(c) ==
  c \in DOMAIN disc =>
    {c, disc[c].parent} \cap Private(Seen, InRun) # {} \/ disc[c].parent \in DOMAIN run.plan \ run.own
\* propagatedWrite(): Discord copied this run's category entry here itself.
Propagated(c) ==
  LET k == disc[c].parent
  IN  k \in run.own /\ run.plan[c].copies /\ run.snap[c].parent = k
      /\ SameOverwrites(disc[c].overwrites, Set(run.lends[k].before, Self, run.lends[k].after))
Recompute(c) == Target(Seen, InRun, c, Fresh(c), Lends(disc[c].parent))
Examine(c) ==
  /\ Goes(c)
  /\ \/ LeftAlone(c) /\ Skip(c)
     \/ /\ ~LeftAlone(c) /\ Resumable(disc[c].parent) /\ Lends(disc[c].parent) = NoInherit
        /\ Ends("changed")
     \/ /\ ~LeftAlone(c) /\ (Resumable(disc[c].parent) => Lends(disc[c].parent) # NoInherit)
        /\ Untouchable(Seen, InRun, c, Fresh(c))
        /\ run' = Moved(c, IF Propagated(c) THEN [run EXCEPT !.changed = TRUE]
                           ELSE [run EXCEPT !.skipped = @ \cup {c},
                                            !.found = IF State(Seen, InRun, c, Fresh(c)) \in {"hidden", "denied"}
                                                      THEN @ \cup {c} ELSE @])
     \/ /\ ~LeftAlone(c) /\ (Resumable(disc[c].parent) => Lends(disc[c].parent) # NoInherit)
        /\ ~Untouchable(Seen, InRun, c, Fresh(c))
        /\ run' = [run EXCEPT !.step = "write", !.at = c, !.ows = disc[c].overwrites, !.after = Recompute(c),
                              !.lends = IF Resumable(disc[c].parent)
                                        THEN Set(@, disc[c].parent, Lends(disc[c].parent)) ELSE @]
  /\ UNCHANGED <<server, recorded, parked, runs, spent, history>>

\* The PUT.  Discord may copy a category's change to the children synced with it.
Put(c, entry, copies) ==
  [d \in DOMAIN disc |->
     IF \/ d = c
        \/ copies /\ disc[c].category /\ disc[d].parent = c
           /\ SameOverwrites(disc[d].overwrites, disc[c].overwrites)
     THEN Written(disc[d], entry) ELSE disc[d]]
\* History: a copy replaces a child's deny when someone hid its category alike meanwhile.
StillThere == judged' = {d \in judged : d = run.at \/ Denied(disc'[d])}
PutStored ==
  LET c == run.at
  IN  /\ run.step = "write" /\ c \in DOMAIN disc /\ admin
      /\ \E copies \in BOOLEAN : disc' = Put(c, run.after, copies)
      /\ run' = [run EXCEPT !.step = "check", !.changed = TRUE,
                            !.own = IF run.snap[c].category THEN @ \cup {c} ELSE @,
                            !.lends = IF run.snap[c].category
                                      THEN Set(@, c, [parent |-> c, before |-> run.ows, after |-> run.after]) ELSE @]
      /\ StillThere
      /\ UNCHANGED <<cache, admin, configured, revision, recorded, parked, runs, spent, untouched, quiet>>
\* An error or a drain's abort leaves unknown whether Discord has it.
PutUnconfirmed ==
  /\ run.step = "write" /\ run.at \in DOMAIN disc
  /\ \/ UNCHANGED disc
     \/ admin /\ \E copies \in BOOLEAN : disc' = Put(run.at, run.after, copies)
  /\ run' = [run EXCEPT !.step = "recording", !.changed = TRUE, !.result = IF run.stop THEN "stopping" ELSE "failed"]
  /\ StillThere
  /\ UNCHANGED <<cache, admin, configured, revision, recorded, parked, runs, spent, untouched, quiet>>
PutRefused ==
  /\ run.step = "write"
  /\ \/ Skip(run.at)                           \* deleted, or HTTP 400
     \/ ~admin /\ Ends("permissions")
  /\ UNCHANGED <<server, recorded, parked, runs, spent, history>>

\* The read-back.
Checks ==
  LET c == run.at
      matches == c \in DOMAIN disc =>
                   admin /\ ReadBack(run.after, EntryOf(disc[c].overwrites, Self)) # "fail"
  IN  /\ run.step = "check"
      /\ \/ matches /\ run' = Moved(c, run)
         \/ ~matches /\ Ends("changed")
      /\ UNCHANGED <<server, recorded, parked, runs, spent, history>>
\* A read that throws ends the run, which still records itself.
ReadFails ==
  /\ run.step \in {"reading", "loop", "check"} /\ Ends("failed")
  /\ UNCHANGED <<server, recorded, parked, runs, spent, history>>

\* record(): the audit row and the parked jobs' requeue, in one transaction.
Record ==
  /\ run.step = "recording"
  /\ recorded' = run.known \cup run.found
  /\ parked' = (parked /\ ~(run.changed \/ run.result = "nothing"))
  /\ judged' = judged \cup {c \in (run.real \cup run.found) \cap DOMAIN disc : Denied(disc[c])}
  /\ run' = [NoRun EXCEPT !.step = "done", !.result = run.result, !.skipped = run.skipped]
  /\ UNCHANGED <<server, runs, spent, untouched, quiet>>

-----------------------------------------------------------------------------
(* Everyone else *)

Edited(c) == /\ judged' = judged \cap DOMAIN disc' /\ untouched' = untouched \ {c}
             /\ quiet' = FALSE /\ spent < MaxChanges /\ spent' = spent + 1
Elsewhere == UNCHANGED <<cache, recorded, parked, run, runs>>
Hide(c) ==
  /\ c \in DOMAIN disc
  /\ disc' = [disc EXCEPT ![c] = Written(disc[c], [allow |-> {}, deny |-> {"view"}])] /\ disc' # disc
  /\ Edited(c) /\ Elsewhere /\ UNCHANGED <<admin, configured, revision>>
Move(c, k) ==
  /\ {c, k} \subseteq DOMAIN disc /\ disc[k].category /\ ~disc[c].category /\ disc[c].parent # k
  /\ disc' = [disc EXCEPT ![c].parent = k]
  /\ Edited(c) /\ Elsewhere /\ UNCHANGED <<admin, configured, revision>>
Delete(c) ==
  /\ c \in DOMAIN disc /\ ~disc[c].category /\ disc' = Drop(disc, c)
  /\ Edited(c) /\ Elsewhere /\ UNCHANGED <<admin, configured, revision>>
\* /config save: another revision.
Configure(named) ==
  /\ named # configured /\ configured' = named /\ revision' = revision + 1
  /\ quiet' = FALSE /\ spent < MaxChanges /\ spent' = spent + 1
  /\ untouched' = untouched \ named
  /\ Elsewhere /\ UNCHANGED <<disc, admin, judged>>
Administrator ==
  /\ admin' = ~admin /\ quiet' = FALSE
  /\ spent' = IF admin THEN spent + 1 ELSE spent
  /\ spent' <= MaxChanges
  /\ Elsewhere /\ UNCHANGED <<disc, configured, revision, judged, untouched>>
\* A command's channel option un-flags a hidden entry.
Unflag(c) ==
  /\ c \in DOMAIN cache /\ cache[c].obfuscated
  /\ cache' = [cache EXCEPT ![c].obfuscated = FALSE]
  /\ UNCHANGED <<disc, admin, configured, revision, recorded, parked, run, runs, spent, history>>
\* drain() at shutdown; a killed process leaves no audit.
Drain ==
  /\ run.step \in {"reading", "loop", "write", "check"} /\ ~run.stop
  /\ spent < MaxChanges /\ spent' = spent + 1
  /\ run' = [run EXCEPT !.stop = TRUE]
  /\ UNCHANGED <<server, recorded, parked, runs, history>>
Killed ==
  /\ run.step \notin {"none", "done"} /\ run' = NoRun
  /\ spent < MaxChanges /\ spent' = spent + 1
  /\ UNCHANGED <<server, recorded, parked, runs, history>>

-----------------------------------------------------------------------------
Init ==
  /\ disc = Initial /\ cache = Initial /\ admin = TRUE /\ configured \in Settings /\ revision = 0
  /\ recorded = {} /\ parked = TRUE /\ run = NoRun /\ runs = 0 /\ spent = 0
  /\ judged = {} /\ quiet = TRUE
  /\ untouched = {c \in DOMAIN disc \ configured :
                    Self \notin DOMAIN disc[c].overwrites /\ (disc[c].parent = None \/ Synced(c))}

RunStep ==
  \/ Start \/ Plans \/ PutStored \/ PutUnconfirmed \/ PutRefused \/ Checks \/ ReadFails \/ Record
  \/ \E c \in DOMAIN Initial : Reads(c) \/ LoopStops(c) \/ Examine(c)
Next ==
  \/ RunStep \/ Deliver \/ Administrator \/ Drain \/ Killed
  \/ \E c \in DOMAIN Initial :
       Unflag(c) \/ Hide(c) \/ Delete(c) \/ (\E k \in DOMAIN Initial : Move(c, k))
  \/ \E named \in Settings : Configure(named)
Spec == Init /\ [][Next]_vars

\* A deny officers put on TaruBot stands: a run's PUT takes one away only when the
\* channel it writes was hidden after the run read it, however old the plan is.
DeniesStand ==
  [][\A c \in DOMAIN disc \cap DOMAIN disc' :
       Denied(disc[c]) /\ ~Denied(disc'[c]) => "view" \notin EntryOf(run.ows, Self).deny]_disc

\* A run that ends with its whole plan done leaves every child nobody else touched
\* and every run could read synced with its category, also after runs that stopped
\* between the two writes.
SyncKept ==
  run.step = "done" /\ run.result \in {"applied", "nothing"} =>
    \A c \in (untouched \cap DOMAIN disc) \ run.skipped :
      disc[c].parent \in untouched => Synced(c)

\* The denies an audited run saw stay recorded while they stand, so they are recognised
\* once Discord hides those channels: later runs that stop early or cannot look never
\* lose one.
DeniesRemembered == judged \subseteq recorded

\* After an undisturbed run that skipped nothing, a rerun has nothing to write.
RunRepairsAll ==
  run.step = "done" /\ run.result \in {"applied", "nothing"} /\ quiet /\ run.skipped = {} =>
    Wanted(View([c \in DOMAIN disc |-> Fresh(c)]), SettingsOf(configured, recorded)) = {}
=============================================================================
