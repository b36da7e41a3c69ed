--------------------------- MODULE ServicesProofs ---------------------------
(***************************************************************************)
(* Proofs about the parts of MCServices.  The gil ledger, for every set of   *)
(* FCs, calls, interactions and inputs: types, accounts that add up, races   *)
(* that are answered, and entries written for the linked FC only.  Then the  *)
(* access of signed-in users, the posts of the ledger channel and the        *)
(* officers' notices of an outage, for every number of requests, workers,    *)
(* entries, faults and notices and every length of their times; parked       *)
(* work, as the instance of what JobQueueProofs says of it; the status       *)
(* notices, for any members, flags, channels, workers and faults; the        *)
(* Lodestone's gate, for any requests, limits, spacing and cooldowns; and    *)
(* sign-ins, for any browsers, sessions, exchanges, limits and windows.      *)
(***************************************************************************)
EXTENDS MCServices, FiniteSetTheorems, WellFoundedInduction, TLAPS

\* What a call knows: the FC of its settings as long as no setting changed, and,
\* once it holds the locks, the settings and the account as they still are.  Two
\* calls never hold the locks at once.
CallsOK ==
  /\ \A c \in Calls : call[c].pc \in {"read", "locked"} =>
       /\ call[c].fc \in FCs
       /\ call[c].revision <= guild.revision
       /\ call[c].revision = guild.revision => call[c].fc = guild.fc
  /\ \A c \in Calls : Locked(c) =>
       /\ call[c].revision = guild.revision
       /\ call[c].balance = account[call[c].fc].balance
       /\ call[c].sequence = account[call[c].fc].sequence
  /\ \A c, d \in Calls : Locked(c) /\ Locked(d) => c = d
  /\ \A c \in Calls : call[c].outcome = "already_recorded" => call[c].fc \in FCs

IInv == TypeOK /\ LedgerAddsUp /\ RacesAreAnswered /\ CallsOK

LEMMA Values ==
  /\ {"none", "recorded", "already_recorded", "unchanged", "refused", "conflict", "lost"} \subseteq Outcomes
  /\ Unset \in Balances /\ Unset \notin 0..MaxGil /\ 0..MaxGil \subseteq Balances
  /\ Balances \subseteq Int
  /\ 0 \in 0..MaxRevision /\ MaxRevision \in Nat
  /\ NoFc \notin FCs
  BY BoundAssumption, FcAssumption DEF Outcomes, Balances, Unset

\* How a call ends.
LEMMA EndsType ==
  ASSUME TypeOK, NEW c \in Calls, NEW outcome \in Outcomes, Ends(c, outcome)
  PROVE  /\ call' \in [Calls -> Call]
         /\ \A d \in Calls \ {c} : call'[d] = call[d]
         /\ call'[c].pc = "done" /\ call'[c].outcome = outcome /\ call'[c].fc = call[c].fc
  <1> DEFINE done == [Idle EXCEPT !.pc = "done", !.fc = call[c].fc, !.outcome = outcome]
  <1>1. call[c].fc \in FCs \cup {NoFc} /\ call \in [Calls -> Call]
    BY DEF TypeOK, Call
  <1>2. Idle \in Call
    BY Values DEF Idle, Call
  <1>3. done \in Call /\ done.pc = "done" /\ done.outcome = outcome /\ done.fc = call[c].fc
    BY <1>1, <1>2 DEF Call
  <1>4. call' = [call EXCEPT ![c] = done]
    BY DEF Ends
  <1> HIDE DEF done
  <1>5. call' \in [Calls -> Call] /\ call'[c] = done /\ \A d \in Calls \ {c} : call'[d] = call[d]
    BY <1>1, <1>3, <1>4
  <1> QED
    BY <1>3, <1>5

\* A call that ends and writes nothing keeps the invariant, if its answer is true.
LEMMA EndKeeps ==
  ASSUME IInv, NEW c \in Calls, NEW outcome \in Outcomes \ {"constraint"}, Ends(c, outcome),
         outcome = "already_recorded" => call[c].fc \in FCs /\ Recorded(call[c].fc, Key[c]),
         UNCHANGED <<guild, account, entries, input>>
  PROVE  IInv'
  <1>1. /\ call' \in [Calls -> Call]
        /\ \A d \in Calls \ {c} : call'[d] = call[d]
        /\ call'[c].pc = "done" /\ call'[c].outcome = outcome /\ call'[c].fc = call[c].fc
    BY EndsType DEF IInv
  <1>2. TypeOK'
    BY <1>1 DEF IInv, TypeOK
  <1>3. LedgerAddsUp'
    BY DEF IInv, LedgerAddsUp
  <1>4. RacesAreAnswered'
    BY <1>1 DEF IInv, RacesAreAnswered, Recorded
  <1>5. CallsOK'
    BY <1>1 DEF IInv, CallsOK, Locked
  <1> QED
    BY <1>2, <1>3, <1>4, <1>5 DEF IInv

\* A settings change finds no call that holds the locks and makes every call that
\* read the settings before it stale.
LEMMA SettingsKeep ==
  ASSUME IInv, Settable, NEW f \in FCs \cup {NoFc},
         guild' = [fc |-> f, revision |-> guild.revision + 1],
         account' \in [FCs -> Account],
         \A g \in FCs : account'[g].balance = account[g].balance
                     /\ account'[g].sequence = account[g].sequence,
         UNCHANGED <<entries, input, call>>
  PROVE  IInv'
  <1>1. guild.revision \in 0..MaxRevision /\ guild.revision < MaxRevision
    BY DEF IInv, TypeOK, Settable
  <1>2. /\ guild'.revision \in 0..MaxRevision /\ guild'.fc = f
        /\ guild'.revision = guild.revision + 1
        /\ guild' \in [fc : FCs \cup {NoFc}, revision : 0..MaxRevision]
    BY <1>1, Values
  <1>3. TypeOK'
    BY <1>2 DEF IInv, TypeOK
  <1>4. LedgerAddsUp'
    BY DEF IInv, LedgerAddsUp
  <1>5. RacesAreAnswered'
    BY DEF IInv, RacesAreAnswered, Recorded
  <1>6. \A c \in Calls : ~Locked(c) /\ ~Locked(c)'
    BY DEF Settable, Locked
  <1>7. \A c \in Calls : call[c].pc \in {"read", "locked"} =>
          call[c].fc \in FCs /\ call[c].revision < guild'.revision
    <2> TAKE c \in Calls
    <2>1. call[c].revision \in 0..MaxRevision
      BY DEF IInv, TypeOK, Call
    <2> QED
      BY <2>1, <1>1, <1>2 DEF IInv, CallsOK
  <1>8. \A c \in Calls : call[c].revision \in Nat
    BY Values DEF IInv, TypeOK, Call
  <1>9. guild'.revision \in Nat
    BY <1>2, Values
  <1>10. \A c \in Calls : call[c].outcome = "already_recorded" => call[c].fc \in FCs
    BY DEF IInv, CallsOK
  <1>11. CallsOK'
    BY <1>6, <1>7, <1>8, <1>9, <1>10 DEF CallsOK
  <1> QED
    BY <1>3, <1>4, <1>5, <1>11 DEF IInv

LEMMA ReadKeeps ==
  ASSUME IInv, NEW c \in Calls, Read(c)
  PROVE  IInv'
  <1>1. guild.fc \in FCs \cup {NoFc} /\ guild.revision \in 0..MaxRevision /\ call[c] \in Call
    BY DEF IInv, TypeOK
  <1> DEFINE pc == IF guild.fc = NoFc THEN "done" ELSE "read"
             outcome == IF guild.fc = NoFc THEN "refused" ELSE "none"
             next == [call[c] EXCEPT !.pc = pc, !.outcome = outcome, !.fc = guild.fc,
                                     !.revision = guild.revision]
  <1>2. pc \in {"done", "read"} /\ outcome \in Outcomes \ {"constraint", "already_recorded"}
    BY Values DEF Outcomes
  <1>3. call' = [call EXCEPT ![c] = next]
    BY DEF Read, IInv, TypeOK
  <1>4. pc = "read" => guild.fc \in FCs
    BY <1>1
  <1> HIDE DEF pc, outcome
  <1>5. /\ next \in Call /\ next.pc = pc /\ next.outcome = outcome
        /\ next.fc = guild.fc /\ next.revision = guild.revision
    BY <1>1, <1>2 DEF Call
  <1> HIDE DEF next
  <1>6. /\ call' \in [Calls -> Call] /\ call'[c] = next
        /\ \A d \in Calls \ {c} : call'[d] = call[d]
    BY <1>3, <1>5 DEF IInv, TypeOK
  <1>7. TypeOK'
    <2>1. UNCHANGED <<guild, account, entries, input>>
      BY DEF Read
    <2>2. TypeOK
      BY DEF IInv
    <2> QED
      BY <1>6, <2>1, <2>2 DEF TypeOK
  <1>8. LedgerAddsUp'
    BY DEF IInv, LedgerAddsUp, Read
  <1>9. RacesAreAnswered'
    <2>1. \A d \in Calls : \/ call'[d].outcome = call[d].outcome /\ call'[d].fc = call[d].fc
                           \/ call'[d].outcome \notin {"constraint", "already_recorded"}
      BY <1>2, <1>5, <1>6
    <2>2. UNCHANGED entries
      BY DEF Read
    <2> QED
      BY <2>1, <2>2 DEF IInv, RacesAreAnswered, Recorded
  <1>10. CallsOK'
    <2>1. guild.revision \in Nat
      BY <1>1, Values
    <2>2. \A d \in Calls : Locked(d)' => d # c /\ Locked(d)
      BY <1>2, <1>5, <1>6 DEF Locked
    <2>3. UNCHANGED <<guild, account>>
      BY DEF Read
    <2>4. \A d \in Calls : call'[d].pc \in {"read", "locked"} =>
            /\ call'[d].fc \in FCs
            /\ call'[d].revision <= guild.revision
            /\ call'[d].revision = guild.revision => call'[d].fc = guild.fc
      BY <1>2, <1>4, <1>5, <1>6, <2>1 DEF IInv, CallsOK
    <2>5. \A d \in Calls : Locked(d)' =>
            /\ call'[d].revision = guild.revision
            /\ call'[d].balance = account[call'[d].fc].balance
            /\ call'[d].sequence = account[call'[d].fc].sequence
      BY <1>6, <2>2 DEF IInv, CallsOK
    <2>6. \A d \in Calls : call'[d].outcome = "already_recorded" => call'[d].fc \in FCs
      BY <1>2, <1>5, <1>6 DEF IInv, CallsOK
    <2> QED
      BY <2>2, <2>3, <2>4, <2>5, <2>6 DEF IInv, CallsOK, Locked
  <1> QED
    BY <1>7, <1>8, <1>9, <1>10 DEF IInv

\* The locks are granted only when the settings are those the call has read and no
\* other call of the FC holds them, so what is read stays true.
LEMMA LockKeeps ==
  ASSUME IInv, NEW c \in Calls, Lock(c)
  PROVE  IInv'
  <1>1. CASE guild.revision # call[c].revision
    BY <1>1, EndKeeps, Values DEF Lock, Outcomes
  <1>2. CASE guild.revision = call[c].revision
    <2>1. call[c].pc = "read" /\ call[c].fc \in FCs /\ call[c].fc = guild.fc
      BY <1>2 DEF Lock, IInv, CallsOK
    <2>2. \A d \in Calls : ~Locked(d)
      BY <1>2, <2>1, Values DEF Lock, IInv, TypeOK, CallsOK, Locked
    <2> DEFINE f == call[c].fc
               next == [call[c] EXCEPT !.pc = "locked", !.balance = account[f].balance,
                                       !.sequence = account[f].sequence]
    <2>3. account[f] \in Account /\ call[c] \in Call
      BY <2>1 DEF IInv, TypeOK
    <2>4. call' = [call EXCEPT ![c] = next]
      BY <1>2 DEF Lock, Reads, IInv, TypeOK
    <2>5. /\ next \in Call /\ next.pc = "locked" /\ next.fc = f /\ next.outcome = call[c].outcome
          /\ next.revision = call[c].revision /\ next.balance = account[f].balance
          /\ next.sequence = account[f].sequence
      BY <2>3 DEF Call, Account
    <2> HIDE DEF next
    <2>6. /\ call' \in [Calls -> Call] /\ call'[c] = next
          /\ \A d \in Calls \ {c} : call'[d] = call[d]
      BY <2>4, <2>5 DEF IInv, TypeOK
    <2>7. TypeOK'
      BY <2>6 DEF IInv, TypeOK, Lock
    <2>8. LedgerAddsUp'
      BY DEF IInv, LedgerAddsUp, Lock
    <2>9. RacesAreAnswered'
      BY <2>5, <2>6 DEF IInv, RacesAreAnswered, Recorded, Lock
    <2>10. CallsOK'
      <3>1. guild.revision \in Nat
        BY Values DEF IInv, TypeOK
      <3> QED
        BY <1>2, <2>1, <2>2, <2>5, <2>6, <3>1 DEF IInv, CallsOK, Locked, Lock
    <2> QED
      BY <2>7, <2>8, <2>9, <2>10 DEF IInv
  <1> QED
    BY <1>1, <1>2

LEMMA BalanceType ==
  ASSUME TypeOK, NEW c \in Calls
  PROVE  Balance(c) \in Int /\ Delta(c) \in Int
  <1>1. Key[c] \in Keys /\ In(c) \in [op : Operations, amount : Nat]
    BY KeyAssumption, InputAssumption DEF TypeOK, In
  <1>2. call[c].balance \in Int
    BY Values DEF TypeOK, Call
  <1>3. Balance(c) \in Int
    BY <1>1, <1>2 DEF Balance
  <1> QED
    BY <1>2, <1>3 DEF Delta

\* An entry that is recorded extends its account's sum, and no constraint is met.
LEMMA RecordKeeps ==
  ASSUME IInv, NEW c \in Calls, Record(c)
  PROVE  IInv' /\ \A f \in FCs : entries'[f] # entries[f] => guild.fc = f
  <1> DEFINE f == call[c].fc
             entry == [key |-> Key[c], delta |-> Delta(c), balance |-> Balance(c)]
             n == Len(entries[f])
  <1>1. /\ Locked(c) /\ f \in FCs /\ f = guild.fc
        /\ call[c].balance = account[f].balance /\ call[c].sequence = n
    BY DEF Record, IInv, CallsOK, TypeOK, Locked
  <1>2. entries[f] \in Seq(Entry) /\ n \in Nat /\ account[f] \in Account
    BY <1>1 DEF IInv, TypeOK
  <1>3. Balance(c) \in 0..MaxGil /\ Delta(c) \in Int
    BY BalanceType, BoundAssumption DEF Record, Refused, IInv
  <1>4. entry \in Entry
    BY <1>3, KeyAssumption DEF Entry
  <1>5. /\ entries' = [entries EXCEPT ![f] = Append(@, entry)]
        /\ account' = [account EXCEPT ![f].balance = Balance(c), ![f].sequence = n + 1]
        /\ Ends(c, "recorded")
    BY <1>1, <1>2, <1>3, BoundAssumption DEF Record, Duplicate
  <1> HIDE DEF entry
  <1>6. /\ entries' \in [FCs -> Seq(Entry)] /\ entries'[f] = Append(entries[f], entry)
        /\ \A g \in FCs \ {f} : entries'[g] = entries[g]
        /\ Len(entries'[f]) = n + 1 /\ entries'[f][n + 1] = entry
        /\ \A i \in 1..n : entries'[f][i] = entries[f][i]
    BY <1>1, <1>2, <1>4, <1>5 DEF IInv, TypeOK
  <1>7. /\ account' \in [FCs -> Account]
        /\ account'[f].balance = Balance(c) /\ account'[f].sequence = n + 1
        /\ \A g \in FCs \ {f} : account'[g] = account[g]
    <2> DEFINE row == [account[f] EXCEPT !.balance = Balance(c), !.sequence = n + 1]
    <2>1. account' = [account EXCEPT ![f] = row]
      BY <1>1, <1>5 DEF IInv, TypeOK
    <2>2. Balance(c) \in Balances /\ n + 1 \in Nat
      BY <1>2, <1>3, Values
    <2>3. row \in Account /\ row.balance = Balance(c) /\ row.sequence = n + 1
      BY <1>2, <2>2 DEF Account
    <2> QED
      BY <1>1, <2>1, <2>3 DEF IInv, TypeOK
  <1>8. /\ call' \in [Calls -> Call]
        /\ \A d \in Calls \ {c} : call'[d] = call[d]
        /\ call'[c].pc = "done" /\ call'[c].outcome = "recorded"
    BY <1>5, EndsType, Values DEF IInv
  <1>9. Balance(c) # Unset /\ n + 1 # 0
    BY <1>2, <1>3, Values
  <1>10. TypeOK'
    <2>1. \A g \in FCs : /\ account'[g].sequence = Len(entries'[g])
                         /\ account'[g].balance = Unset <=> account'[g].sequence = 0
      BY <1>6, <1>7, <1>9 DEF IInv, TypeOK
    <2> QED
      BY <1>6, <1>7, <1>8, <2>1 DEF IInv, TypeOK, Record
  <1>11. LedgerAddsUp'
    <2>1. Balance(c) = Delta(c) + (IF n + 1 = 1 THEN 0 ELSE entries[f][n].balance)
      <3>1. CASE n = 0
        <4>1. call[c].balance = Unset
          BY <1>1, <3>1 DEF IInv, TypeOK
        <4> QED
          BY <4>1, <3>1, BalanceType DEF Delta, IInv
      <3>2. CASE n # 0
        <4>1. call[c].balance # Unset /\ account[f].balance = entries[f][n].balance
          BY <1>1, <1>2, <3>2 DEF IInv, TypeOK, LedgerAddsUp
        <4>2. entries[f][n] \in Entry /\ 0..MaxGil \subseteq Int
          BY <1>2, <3>2
        <4>3. entries[f][n].balance \in Int
          BY <4>2 DEF Entry
        <4> QED
          BY <4>1, <4>3, <1>1, <1>2, <3>2, BalanceType DEF Delta, IInv
      <3> QED
        BY <3>1, <3>2
    <2>2. entry.balance = Balance(c) /\ entry.delta = Delta(c)
      BY DEF entry
    <2> SUFFICES ASSUME NEW g \in FCs
                 PROVE  /\ \A i \in 1..Len(entries'[g]) :
                             entries'[g][i].balance =
                               entries'[g][i].delta
                                 + (IF i = 1 THEN 0 ELSE entries'[g][i - 1].balance)
                        /\ entries'[g] # <<>> =>
                             account'[g].balance = entries'[g][Len(entries'[g])].balance
      BY DEF LedgerAddsUp
    <2>3. CASE g # f
      <3>1. entries'[g] = entries[g] /\ account'[g] = account[g]
        BY <1>6, <1>7, <2>3
      <3> QED
        BY <3>1 DEF IInv, LedgerAddsUp
    <2>4. CASE g = f
      <3>1. ASSUME NEW i \in 1..(n + 1)
            PROVE  entries'[f][i].balance =
                     entries'[f][i].delta + (IF i = 1 THEN 0 ELSE entries'[f][i - 1].balance)
        <4>1. CASE i = n + 1
          <5>1. entries'[f][i] = entry
            BY <1>6, <4>1
          <5>2. n # 0 => i - 1 = n /\ n \in 1..n /\ entries'[f][n] = entries[f][n]
            BY <1>2, <1>6, <4>1
          <5>3. i = 1 <=> n = 0
            BY <1>2, <4>1
          <5> QED
            BY <1>2, <2>1, <2>2, <4>1, <5>1, <5>2, <5>3
        <4>2. CASE i # n + 1
          <5>1. i \in 1..n /\ (i # 1 => i - 1 \in 1..n)
            BY <1>2, <4>2
          <5>2. entries'[f][i] = entries[f][i] /\ (i # 1 => entries'[f][i - 1] = entries[f][i - 1])
            BY <1>6, <5>1
          <5>3. entries[f][i].balance =
                  entries[f][i].delta + (IF i = 1 THEN 0 ELSE entries[f][i - 1].balance)
            BY <1>1, <5>1 DEF IInv, LedgerAddsUp
          <5> QED
            BY <5>2, <5>3
        <4> QED
          BY <4>1, <4>2
      <3>2. account'[f].balance = entries'[f][n + 1].balance
        BY <1>6, <1>7, <2>2
      <3> QED
        BY <1>6, <2>4, <3>1, <3>2
    <2> QED
      BY <2>3, <2>4
  <1>12. RacesAreAnswered'
    <2>1. ASSUME NEW g \in FCs, NEW k, Recorded(g, k)
          PROVE  Recorded(g, k)'
      <3>1. CASE g # f
        BY <1>6, <2>1, <3>1 DEF Recorded
      <3>2. CASE g = f
        <4>1. PICK i \in 1..n : entries[f][i].key = k
          BY <2>1, <3>2 DEF Recorded
        <4>2. i \in 1..Len(entries'[f]) /\ entries'[f][i].key = k
          BY <4>1, <1>2, <1>6
        <4> QED
          BY <4>2, <3>2 DEF Recorded
      <3> QED
        BY <3>1, <3>2
    <2> QED
      BY <1>8, <2>1 DEF IInv, RacesAreAnswered, CallsOK
  <1>13. CallsOK'
    <2>1. \A d \in Calls \ {c} : ~Locked(d)
      BY <1>1 DEF IInv, CallsOK
    <2> QED
      BY <1>8, <2>1 DEF IInv, CallsOK, Locked, Record
  <1>14. \A g \in FCs : entries'[g] # entries[g] => guild.fc = g
    BY <1>1, <1>6
  <1> QED
    BY <1>10, <1>11, <1>12, <1>13, <1>14 DEF IInv

-----------------------------------------------------------------------------
LEMMA InitInv == Init => IInv
  <1> SUFFICES ASSUME Init PROVE IInv
    OBVIOUS
  <1>1. NoAccount \in Account /\ NoAccount.balance = Unset /\ NoAccount.sequence = 0
    BY Values DEF NoAccount, Account
  <1>2. Idle \in Call /\ Idle.pc = "idle" /\ Idle.outcome = "none"
    BY Values DEF Idle, Call
  <1>3. TypeOK
    BY <1>1, <1>2, Values DEF Init, TypeOK
  <1>4. LedgerAddsUp /\ RacesAreAnswered /\ CallsOK
    BY <1>2 DEF Init, LedgerAddsUp, RacesAreAnswered, CallsOK, Locked
  <1> QED
    BY <1>3, <1>4 DEF IInv

\* Every step keeps the invariant and writes only into the linked ledger.
LEMMA NextInv ==
  IInv /\ [Next]_vars => IInv' /\ (\A f \in FCs : entries'[f] # entries[f] => guild.fc = f)
  <1> SUFFICES ASSUME IInv, [Next]_vars
               PROVE  IInv' /\ \A f \in FCs : entries'[f] # entries[f] => guild.fc = f
    OBVIOUS
  <1>1. ASSUME NEW f \in FCs, Link(f) PROVE IInv' /\ entries' = entries
    <2>1. /\ account' \in [FCs -> Account]
          /\ \A g \in FCs : account'[g].balance = account[g].balance
                         /\ account'[g].sequence = account[g].sequence
      BY <1>1 DEF Link, IInv, TypeOK, Account
    <2> QED
      BY <1>1, <2>1, SettingsKeep DEF Link
  <1>2. CASE Unlink
    <2>1. account' \in [FCs -> Account]
      BY <1>2 DEF Unlink, IInv, TypeOK
    <2> QED
      BY <1>2, <2>1, SettingsKeep DEF Unlink
  <1>3. CASE ChangeSettings
    <2>1. account' \in [FCs -> Account]
      BY <1>3 DEF ChangeSettings, IInv, TypeOK
    <2>2. guild.fc \in FCs \cup {NoFc} /\ guild' = [fc |-> guild.fc, revision |-> guild.revision + 1]
      BY <1>3 DEF ChangeSettings, IInv, TypeOK
    <2> QED
      BY <1>3, <2>1, <2>2, SettingsKeep DEF ChangeSettings
  <1>4. ASSUME NEW c \in Calls, Read(c) PROVE IInv' /\ entries' = entries
    BY <1>4, ReadKeeps, Zenon DEF Read
  <1>5. ASSUME NEW c \in Calls, Lock(c) PROVE IInv' /\ entries' = entries
    BY <1>5, LockKeeps DEF Lock
  <1>6. ASSUME NEW c \in Calls, Replay(c) PROVE IInv' /\ entries' = entries
    <2>1. CASE Recorded(call[c].fc, Key[c])
      BY <1>6, <2>1, EndKeeps, Values DEF Replay, IInv, CallsOK, Locked
    <2>2. CASE ~Recorded(call[c].fc, Key[c])
      BY <1>6, <2>2, EndKeeps, Values DEF Replay
    <2> QED
      BY <2>1, <2>2
  <1>7. ASSUME NEW c \in Calls, Refuse(c) PROVE IInv' /\ entries' = entries
    BY <1>7, EndKeeps, Values DEF Refuse
  <1>8. ASSUME NEW c \in Calls, Crash(c) PROVE IInv' /\ entries' = entries
    BY <1>8, EndKeeps, Values DEF Crash
  <1>9. ASSUME UNCHANGED vars PROVE IInv' /\ entries' = entries
    BY <1>9 DEF vars, IInv, TypeOK, LedgerAddsUp, RacesAreAnswered, CallsOK, Recorded, Locked
  <1> QED
    BY <1>1, <1>2, <1>3, <1>4, <1>5, <1>6, <1>7, <1>8, <1>9, RecordKeeps DEF Next

LEMMA Invariance == Spec => []IInv
  BY InitInv, NextInv, PTL DEF Spec

\* The tables keep their types, and an account's sequence counts its entries.
THEOREM LedgerTypes == Spec => []TypeOK
  BY Invariance, PTL DEF IInv

\* Every account is the sum of its entries, for any number of concurrent calls.
THEOREM AddsUp == Spec => []LedgerAddsUp
  BY Invariance, PTL DEF IInv

\* No race of ledger calls is answered with a constraint violation, and a repeated
\* interaction only with the entry it recorded.
THEOREM Answered == Spec => []RacesAreAnswered
  BY Invariance, PTL DEF IInv

\* An entry is written only into the ledger of the FC that is linked.
THEOREM LinkedOnly == Spec => WritesLinkedLedger
  <1>1. IInv /\ [Next]_vars => [\A f \in FCs : entries'[f] # entries[f] => guild.fc = f]_vars
    BY NextInv
  <1> QED
    BY <1>1, Invariance, PTL DEF Spec, WritesLinkedLedger


-----------------------------------------------------------------------------
(* Signed-in users (WebActors) *)

Steps == {"none", "ask", "peek", "resolves", "waits", "peeks", "decided", "answered"}
PageRequest == [kind : {"none", "get", "fresh", "post"}, step : Steps, for : Tries \cup {None},
                answer : {"none", "pending", "yes", "no"}, began : Nat, since : BOOLEAN]
Memo == [by : Tries \cup {None}, until : Nat, answer : {"pending", "yes", "no"}]

\* The user could use the page so lately that an answer from then is good at a time.
GoodAt(at) == lastMember + MemoFor > at

RequestHolds(r) ==
  /\ request[r].began <= moment
  /\ request[r].step # "none" /\ member => request[r].since
  /\ request[r].step = "decided" => request[r].answer \in {"yes", "no"}
  /\ request[r].step = "decided" /\ request[r].answer = "yes" => request[r].since
  /\ request[r].step = "waits" => request[r].kind = "get"
  /\ request[r].step = "answered" /\ request[r].answer = "yes" =>
       request[r].since \/ (request[r].kind = "get" /\ GoodAt(request[r].began))
\* An answer that somebody waits for is good for them once it is there.
WaitHolds(s, r) ==
  /\ request[s].step = "waits" /\ request[s].for = r
  /\ request[r].step = "decided" /\ request[r].answer = "yes"
  => GoodAt(request[s].began)
MemoHolds ==
  memo # None =>
    /\ memo \in Memo /\ memo.until <= moment + MemoFor
    /\ memo.answer = "yes" => memo.until <= lastMember + MemoFor
    /\ \A r \in Tries : memo.by = r /\ request[r].step = "decided" /\ request[r].answer = "yes" =>
         memo.until <= lastMember + MemoFor

ActorsInv ==
  /\ moment \in Nat /\ lastMember \in Nat /\ member \in BOOLEAN
  /\ lastMember <= moment /\ (member => lastMember = moment)
  /\ request \in [Tries -> PageRequest]
  /\ \A r \in Tries : RequestHolds(r) /\ \A s \in Tries : WaitHolds(s, r)
  /\ MemoHolds

LEMMA ActorsStart == Actors!Init => ActorsInv
<1>. SUFFICES ASSUME Actors!Init PROVE ActorsInv
  OBVIOUS
<1>1. Actors!NoRequest \in PageRequest /\ Actors!NoRequest.step = "none" /\ Actors!NoRequest.began = 0
  BY DEF Actors!NoRequest, PageRequest, Steps
<1>. QED
  BY <1>1 DEF Actors!Init, ActorsInv, RequestHolds, WaitHolds, MemoHolds

\* What every request shows by itself, whether it waits or not.
LEMMA AskKeeps ==
  ASSUME ActorsInv, NEW r \in Tries, Actors!Ask(r)
  PROVE  ActorsInv'
<1>1. request[r].step = "ask" /\ request[r] \in PageRequest /\ MemoFor \in Nat \ {0}
      /\ UNCHANGED <<moment, member, lastMember>>
  BY ActorsAssumption DEF Actors!Ask, Actors!At, Actors!world, Actors!ConstantsOK, ActorsInv
<1>2. CASE Actors!UsesMemo(r)
  <2>1. /\ memo # None /\ memo.until > moment /\ memo \in Memo /\ Actors!Held = memo
        /\ request[r].kind = "get" /\ memo' = memo
    BY <1>2 DEF Actors!UsesMemo, Actors!Held, ActorsInv, MemoHolds, Actors!Ask
  <2>. DEFINE q == [request[r] EXCEPT !.step = IF memo.answer = "pending" THEN "waits" ELSE "answered",
                                      !.for = memo.by, !.answer = memo.answer]
  <2>2. request' = [request EXCEPT ![r] = q]
    BY <1>2, <2>1 DEF Actors!Ask, ActorsInv
  <2>3. /\ q \in PageRequest /\ q.kind = "get" /\ q.began = request[r].began /\ q.since = request[r].since
        /\ q.step = IF memo.answer = "pending" THEN "waits" ELSE "answered"
        /\ q.for = memo.by /\ q.answer = memo.answer
    BY <1>1, <2>1 DEF PageRequest, Memo, Steps
  <2>. HIDE DEF q
  <2>4. request' \in [Tries -> PageRequest] /\ request'[r] = q /\ \A s \in Tries \ {r} : request'[s] = request[s]
    BY <2>2, <2>3 DEF ActorsInv
  <2>5. RequestHolds(r)'
    <3>1. request[r].began <= moment /\ (member => request[r].since)
      BY <1>1 DEF ActorsInv, RequestHolds
    <3>2. memo.answer = "yes" => GoodAt(request[r].began)
      BY <1>1, <2>1, <3>1 DEF ActorsInv, MemoHolds, GoodAt, Memo, PageRequest
    <3>. QED
      BY <1>1, <2>3, <2>4, <3>1, <3>2 DEF RequestHolds, GoodAt
  <2>6. ASSUME NEW s \in Tries \ {r} PROVE RequestHolds(s)'
    BY <1>1, <2>4 DEF ActorsInv, RequestHolds, GoodAt
  <2>7. ASSUME NEW o \in Tries, NEW s \in Tries PROVE WaitHolds(s, o)'
    <3>1. CASE s # r
      <4>1. o = r => request'[o].step # "decided"
        BY <2>3, <2>4
      <4>. QED
        BY <1>1, <2>4, <3>1, <4>1 DEF ActorsInv, WaitHolds, GoodAt
    <3>2. CASE s = r
      <4>1. SUFFICES ASSUME q.for = o, o # r, request[o].step = "decided", request[o].answer = "yes"
                     PROVE  GoodAt(q.began)
        BY <1>1, <2>3, <2>4, <3>2 DEF WaitHolds, GoodAt
      <4>2. memo.until <= lastMember + MemoFor
        BY <2>1, <2>3, <4>1 DEF ActorsInv, MemoHolds
      <4>3. q.began <= moment /\ q.began \in Nat
        BY <2>3 DEF ActorsInv, RequestHolds, PageRequest
      <4>. QED
        BY <1>1, <2>1, <4>2, <4>3 DEF GoodAt, Memo, ActorsInv
    <3>. QED
      BY <3>1, <3>2
  <2>8. MemoHolds'
    BY <1>1, <2>1, <2>3, <2>4 DEF ActorsInv, MemoHolds
  <2>. QED
    BY <1>1, <2>4, <2>5, <2>6, <2>7, <2>8 DEF ActorsInv
<1>3. CASE ~Actors!UsesMemo(r)
  <2>. DEFINE q == [request[r] EXCEPT !.step = "resolves"]
              new == [by |-> r, until |-> moment + MemoFor, answer |-> "pending"]
  <2>1. request' = [request EXCEPT ![r] = q] /\ memo' = new
    BY <1>3 DEF Actors!Ask, ActorsInv
  <2>2. /\ q \in PageRequest /\ q.began = request[r].began /\ q.since = request[r].since
        /\ q.kind = request[r].kind /\ q.step = "resolves"
    BY <1>1 DEF PageRequest, Steps
  <2>3. new \in Memo /\ new.until = moment + MemoFor /\ new.answer = "pending" /\ new.by = r
    BY <1>1 DEF Memo, ActorsInv
  <2>. HIDE DEF q, new
  <2>4. request' \in [Tries -> PageRequest] /\ request'[r] = q /\ \A s \in Tries \ {r} : request'[s] = request[s]
    BY <2>1, <2>2 DEF ActorsInv
  <2>5. ASSUME NEW s \in Tries PROVE RequestHolds(s)'
    BY <1>1, <2>2, <2>4 DEF ActorsInv, RequestHolds, GoodAt
  <2>6. ASSUME NEW o \in Tries, NEW s \in Tries PROVE WaitHolds(s, o)'
    BY <1>1, <2>2, <2>4 DEF ActorsInv, WaitHolds, GoodAt
  <2>7. MemoHolds'
    <3>1. moment + MemoFor \in Nat /\ new.until <= moment' + MemoFor
      BY <1>1, <2>3 DEF ActorsInv
    <3>. QED
      BY <2>1, <2>2, <2>3, <2>4, <3>1 DEF MemoHolds
  <2>. QED
    BY <1>1, <2>4, <2>5, <2>6, <2>7 DEF ActorsInv
<1>. QED
  BY <1>2, <1>3

\* A step of requests alone: those that change wait for nobody and claim no new answer.
LEMMA RestKeeps ==
  ASSUME ActorsInv, UNCHANGED <<moment, member, lastMember>>, memo' = memo \/ memo' = None,
         request' \in [Tries -> PageRequest],
         \A r \in Tries : \/ request'[r] = request[r]
                          \/ /\ request'[r].step \notin {"decided", "answered", "waits"}
                             /\ request'[r].began <= moment
                             /\ request'[r].step # "none" /\ member => request'[r].since
  PROVE  ActorsInv'
<1>1. ASSUME NEW r \in Tries PROVE RequestHolds(r)'
  BY DEF ActorsInv, RequestHolds, GoodAt
<1>2. ASSUME NEW r \in Tries, NEW s \in Tries PROVE WaitHolds(s, r)'
  BY DEF ActorsInv, WaitHolds, GoodAt
<1>3. MemoHolds'
  BY DEF ActorsInv, MemoHolds
<1>. QED
  BY <1>1, <1>2, <1>3 DEF ActorsInv

LEMMA QuietActorsKeep ==
  ASSUME ActorsInv, NEW r \in Tries,
         \/ Actors!Peek(r) \/ Actors!ResolveFails(r) \/ Actors!Serves(r)
         \/ \E kind \in {"get", "fresh", "post"} : Actors!Arrives(r, kind)
  PROVE  ActorsInv'
<1>1. Actors!NoRequest \in PageRequest /\ Actors!NoRequest.step = "none" /\ Actors!NoRequest.began = 0
  BY DEF Actors!NoRequest, PageRequest, Steps
<1>2. /\ request \in [Tries -> PageRequest] /\ moment \in Nat /\ member \in BOOLEAN
      /\ \A s \in Tries : request[s].began <= moment /\ (request[s].step # "none" /\ member => request[s].since)
  BY DEF ActorsInv, RequestHolds
<1>3. UNCHANGED <<moment, member, lastMember>> /\ (memo' = memo \/ memo' = None)
  BY Zenon DEF Actors!Peek, Actors!ResolveFails, Actors!Serves, Actors!Arrives, Actors!world, Actors!Held
<1>4. ASSUME NEW s \in Tries, NEW q,
             \/ q = request[s] \/ q = Actors!NoRequest
             \/ request[s].step # "none" /\ q = [request[s] EXCEPT !.step = "ask"]
             \/ request[s].step # "none" /\ q = [request[s] EXCEPT !.step = "ask", !.for = None]
             \/ memo \in Memo /\ request[s].step # "none" /\ q = [request[s] EXCEPT !.step = "peeks", !.for = memo.by]
             \/ \E kind \in {"get", "fresh", "post"} :
                  q = [Actors!NoRequest EXCEPT !.kind = kind, !.step = IF kind = "post" THEN "peek" ELSE "ask",
                                               !.began = moment, !.since = member]
      PROVE  /\ q \in PageRequest
             /\ \/ q = request[s]
                \/ /\ q.step \notin {"decided", "answered", "waits"} /\ q.began <= moment
                   /\ q.step # "none" /\ member => q.since
  <2>1. CASE q = request[s] \/ q = Actors!NoRequest
    BY <1>1, <1>2, <2>1
  <2>2. ASSUME NEW step \in {"ask", "peeks"}, request[s].step # "none",
               \/ q = [request[s] EXCEPT !.step = step]
               \/ \E t \in Tries \cup {None} : q = [request[s] EXCEPT !.step = step, !.for = t]
        PROVE  /\ q \in PageRequest /\ q.step = step /\ q.began = request[s].began /\ q.since = request[s].since
    <3>1. request[s] \in PageRequest
      BY <1>2
    <3>2. CASE q = [request[s] EXCEPT !.step = step]
      BY <3>1, <3>2 DEF PageRequest, Steps
    <3>3. ASSUME NEW t \in Tries \cup {None}, q = [request[s] EXCEPT !.step = step, !.for = t]
          PROVE  q \in PageRequest /\ q.step = step /\ q.began = request[s].began /\ q.since = request[s].since
      BY <3>1, <3>3 DEF PageRequest, Steps
    <3>. QED
      BY <2>2, <3>2, <3>3, Zenon
  <2>3. memo \in Memo => memo.by \in Tries \cup {None}
    BY DEF Memo
  <2>4. CASE \E kind \in {"get", "fresh", "post"} :
               q = [Actors!NoRequest EXCEPT !.kind = kind, !.step = IF kind = "post" THEN "peek" ELSE "ask",
                                            !.began = moment, !.since = member]
    <3>1. ASSUME NEW kind \in {"get", "fresh", "post"}, NEW step \in {"ask", "peek"},
                 q = [Actors!NoRequest EXCEPT !.kind = kind, !.step = step, !.began = moment, !.since = member]
          PROVE  q \in PageRequest /\ q.step = step /\ q.began = moment /\ q.since = member
      BY <1>1, <1>2, <3>1 DEF PageRequest, Steps
    <3>2. q \in PageRequest /\ q.step \in {"ask", "peek"} /\ q.began = moment /\ q.since = member
      BY <2>4, <3>1
    <3>. QED
      BY <1>2, <3>2
  <2>. QED
    BY <1>2, <1>4, <2>1, <2>2, <2>3, <2>4, Zenon
<1>5. ASSUME NEW s \in Tries
      PROVE  \/ request'[s] = request[s] \/ request'[s] = Actors!NoRequest
             \/ request[s].step # "none" /\ request'[s] = [request[s] EXCEPT !.step = "ask"]
             \/ request[s].step # "none" /\ request'[s] = [request[s] EXCEPT !.step = "ask", !.for = None]
             \/ /\ memo \in Memo /\ request[s].step # "none"
                /\ request'[s] = [request[s] EXCEPT !.step = "peeks", !.for = memo.by]
             \/ \E kind \in {"get", "fresh", "post"} :
                  request'[s] = [Actors!NoRequest EXCEPT !.kind = kind, !.step = IF kind = "post" THEN "peek" ELSE "ask",
                                                         !.began = moment, !.since = member]
  <2>1. CASE Actors!Peek(r)
    <3>1. Actors!Held # None => Actors!Held = memo /\ memo \in Memo
      BY DEF Actors!Held, ActorsInv, MemoHolds
    <3>. QED
      BY <1>2, <2>1, <3>1 DEF Actors!Peek, Actors!At
  <2>2. CASE Actors!ResolveFails(r)
    BY <1>2, <2>2, Zenon DEF Actors!ResolveFails, Actors!Told, Actors!At
  <2>3. CASE Actors!Serves(r) \/ \E kind \in {"get", "fresh", "post"} : Actors!Arrives(r, kind)
    BY <1>2, <2>3 DEF Actors!Serves, Actors!Arrives
  <2>. QED
    BY <2>1, <2>2, <2>3
<1>6. \E f : request' = [s \in Tries |-> f[s]]
  BY <1>2, Zenon DEF Actors!Peek, Actors!ResolveFails, Actors!Serves, Actors!Arrives
<1>7. request' \in [Tries -> PageRequest]
  BY <1>4, <1>5, <1>6, Zenon
<1>. QED
  BY <1>3, <1>4, <1>5, <1>7, RestKeeps, Zenon

LEMMA DecidesKeeps ==
  ASSUME ActorsInv, NEW r \in Tries, Actors!Decides(r)
  PROVE  ActorsInv'
<1>1. /\ request[r].step = "resolves" /\ request[r] \in PageRequest /\ MemoFor \in Nat \ {0}
      /\ UNCHANGED <<moment, member, lastMember, memo>> /\ (member => request[r].since)
  BY ActorsAssumption DEF Actors!Decides, Actors!At, Actors!world, Actors!ConstantsOK, ActorsInv, RequestHolds
<1>. DEFINE answer == IF member THEN "yes" ELSE "no"
            q == [request[r] EXCEPT !.step = "decided", !.answer = answer]
<1>2. request' = [request EXCEPT ![r] = q]
  BY DEF Actors!Decides, ActorsInv
<1>3. answer \in {"yes", "no"} /\ (answer = "yes" => member)
  BY DEF ActorsInv
<1>4. /\ q \in PageRequest /\ q.began = request[r].began /\ q.since = request[r].since
      /\ q.step = "decided" /\ q.answer \in {"yes", "no"} /\ (q.answer = "yes" => member)
  BY <1>1, <1>3 DEF PageRequest, Steps
<1>. HIDE DEF q, answer
<1>5. request' \in [Tries -> PageRequest] /\ request'[r] = q /\ \A s \in Tries \ {r} : request'[s] = request[s]
  BY <1>2, <1>4 DEF ActorsInv
<1>6. ASSUME NEW s \in Tries PROVE RequestHolds(s)'
  BY <1>1, <1>4, <1>5 DEF ActorsInv, RequestHolds, GoodAt
<1>7. ASSUME NEW o \in Tries, NEW s \in Tries PROVE WaitHolds(s, o)'
  <2>1. CASE o = r
    <3>1. request[s].began <= moment /\ request[s].began \in Nat
      BY DEF ActorsInv, RequestHolds, PageRequest
    <3>2. SUFFICES ASSUME s # r, q.answer = "yes" PROVE GoodAt(request[s].began)
      BY <1>1, <1>4, <1>5, <2>1 DEF WaitHolds, GoodAt
    <3>. QED
      BY <1>1, <1>4, <3>1, <3>2 DEF ActorsInv, GoodAt
  <2>2. CASE o # r
    BY <1>1, <1>4, <1>5, <2>2 DEF ActorsInv, WaitHolds, GoodAt
  <2>. QED
    BY <2>1, <2>2
<1>8. MemoHolds'
  <2>1. member => lastMember = moment
    BY DEF ActorsInv
  <2>. QED
    BY <1>1, <1>4, <1>5, <2>1 DEF ActorsInv, MemoHolds
<1>. QED
  BY <1>1, <1>5, <1>6, <1>7, <1>8 DEF ActorsInv

LEMMA AnswersKeeps ==
  ASSUME ActorsInv, NEW r \in Tries, Actors!Answers(r)
  PROVE  ActorsInv'
<1>1. /\ request[r].step = "decided" /\ request[r] \in PageRequest /\ UNCHANGED <<moment, member, lastMember>>
      /\ None \notin Tries /\ (request[r].answer = "yes" => request[r].since)
  BY ActorsAssumption, Zenon DEF Actors!Answers, Actors!At, Actors!world, Actors!ConstantsOK, ActorsInv, RequestHolds
<1>2. Actors!NoRequest \in PageRequest /\ Actors!NoRequest.step = "none" /\ Actors!NoRequest.began = 0
  BY DEF Actors!NoRequest, PageRequest, Steps
<1>3. ASSUME NEW s \in Tries
      PROVE  \/ s # r /\ ~Actors!Told(s, r) /\ request'[s] = request[s]
             \/ s = r /\ request'[s] = [request[s] EXCEPT !.step = "answered"]
             \/ /\ Actors!Told(s, r) /\ request[s].step = "waits"
                /\ request'[s] = [request[s] EXCEPT !.step = "answered", !.for = None, !.answer = request[r].answer]
             \/ request'[s] = Actors!NoRequest
             \/ /\ Actors!Told(s, r) /\ request'[s] = [request[s] EXCEPT !.step = "ask", !.for = None]
  BY <1>1, Zenon DEF Actors!Answers, Actors!At
<1>4. ASSUME NEW s \in Tries
      PROVE  /\ request'[s] \in PageRequest /\ RequestHolds(s)'
             /\ request'[s].step \in {"waits", "decided"} => s # r /\ request'[s] = request[s] /\ ~Actors!Told(s, r)
  <2>1. request[s] \in PageRequest /\ RequestHolds(s) /\ WaitHolds(s, r)
    BY DEF ActorsInv
  <2>2. CASE s # r /\ ~Actors!Told(s, r) /\ request'[s] = request[s]
    BY <1>1, <2>1, <2>2 DEF RequestHolds, GoodAt
  <2>3. CASE s = r /\ request'[s] = [request[s] EXCEPT !.step = "answered"]
    <3>1. /\ request'[s] \in PageRequest /\ request'[s].step = "answered" /\ request'[s].answer = request[s].answer
          /\ request'[s].began = request[s].began /\ request'[s].since = request[s].since
      BY <2>1, <2>3 DEF PageRequest, Steps
    <3>. QED
      BY <1>1, <2>1, <2>3, <3>1 DEF RequestHolds, GoodAt
  <2>4. CASE /\ Actors!Told(s, r) /\ request[s].step = "waits"
             /\ request'[s] = [request[s] EXCEPT !.step = "answered", !.for = None, !.answer = request[r].answer]
    <3>1. /\ request'[s] \in PageRequest /\ request'[s].step = "answered" /\ request'[s].answer = request[r].answer
          /\ request'[s].began = request[s].began /\ request'[s].since = request[s].since
          /\ request'[s].kind = request[s].kind
      BY <1>1, <2>1, <2>4 DEF PageRequest, Steps
    <3>2. request[r].answer = "yes" => GoodAt(request[s].began)
      BY <1>1, <2>1, <2>4 DEF WaitHolds, Actors!Told
    <3>. QED
      BY <1>1, <2>1, <2>4, <3>1, <3>2 DEF RequestHolds, GoodAt
  <2>5. CASE request'[s] = Actors!NoRequest
    BY <1>1, <1>2, <2>5 DEF RequestHolds, GoodAt, ActorsInv
  <2>6. CASE Actors!Told(s, r) /\ request'[s] = [request[s] EXCEPT !.step = "ask", !.for = None]
    <3>1. /\ request'[s] \in PageRequest /\ request'[s].step = "ask"
          /\ request'[s].began = request[s].began /\ request'[s].since = request[s].since
      BY <2>1, <2>6 DEF PageRequest, Steps
    <3>. QED
      BY <1>1, <2>1, <2>6, <3>1 DEF RequestHolds, GoodAt, Actors!Told
  <2>. QED
    BY <1>3, <2>2, <2>3, <2>4, <2>5, <2>6, Zenon
<1>5. request' \in [Tries -> PageRequest]
  <2>1. request' = [s \in Tries |-> request'[s]]
    BY Zenon DEF Actors!Answers
  <2>. QED
    BY <1>4, <2>1
<1>6. ASSUME NEW o \in Tries, NEW s \in Tries PROVE WaitHolds(s, o)'
  <2>1. /\ request'[s].step = "waits" => request'[s] = request[s]
        /\ request'[o].step = "decided" => request'[o] = request[o]
    BY <1>4
  <2>2. WaitHolds(s, o)
    BY DEF ActorsInv
  <2>. QED
    BY <1>1, <2>1, <2>2 DEF WaitHolds, GoodAt
<1>7. MemoHolds'
  <2>1. CASE memo # None /\ memo.by = r
    <3>. DEFINE m == [memo EXCEPT !.by = None, !.answer = request[r].answer]
    <3>1. memo' = m /\ memo \in Memo
      BY <2>1, Zenon DEF Actors!Answers, ActorsInv, MemoHolds
    <3>2. m \in [by : Tries \cup {None}, until : Nat, answer : {"none", "pending", "yes", "no"}]
          /\ m.by = None /\ m.until = memo.until /\ m.answer = request[r].answer
      BY <1>1, <3>1 DEF Memo, PageRequest
    <3>3. request[r].answer \in {"yes", "no"}
      BY <1>1 DEF ActorsInv, RequestHolds
    <3>4. m \in Memo
      BY <3>1, <3>3 DEF Memo
    <3>. HIDE DEF m
    <3>5. request[r].answer = "yes" => memo.until <= lastMember + MemoFor
      BY <1>1, <2>1 DEF ActorsInv, MemoHolds
    <3>6. memo.until <= moment + MemoFor
      BY <2>1 DEF ActorsInv, MemoHolds
    <3>. QED
      BY <1>1, <3>1, <3>2, <3>4, <3>5, <3>6 DEF MemoHolds
  <2>2. CASE ~(memo # None /\ memo.by = r)
    <3>1. memo' = memo
      BY <2>2, Zenon DEF Actors!Answers
    <3>2. \A s \in Tries : request'[s].step = "decided" => request'[s] = request[s]
      BY <1>4
    <3>. QED
      BY <1>1, <3>1, <3>2 DEF ActorsInv, MemoHolds
  <2>. QED
    BY <2>1, <2>2
<1>. QED
  BY <1>1, <1>4, <1>5, <1>6, <1>7 DEF ActorsInv

LEMMA WorldKeeps ==
  ASSUME ActorsInv, Actors!Tick \/ Actors!AccessChanges
  PROVE  ActorsInv'
<1>1. MemoFor \in Nat \ {0} /\ memo' = memo
  BY ActorsAssumption DEF Actors!ConstantsOK, Actors!Tick, Actors!AccessChanges
<1>2. CASE Actors!Tick
  <2>1. /\ moment' = moment + 1 /\ lastMember' = (IF member THEN moment + 1 ELSE lastMember)
        /\ member' = member /\ request' = request
    BY <1>2 DEF Actors!Tick
  <2>2. lastMember' \in Nat /\ lastMember <= lastMember' /\ lastMember' <= moment' /\ (member' => lastMember' = moment')
    BY <2>1 DEF ActorsInv
  <2>3. ASSUME NEW r \in Tries PROVE RequestHolds(r)'
    BY <1>1, <2>1, <2>2 DEF ActorsInv, RequestHolds, GoodAt, PageRequest
  <2>4. ASSUME NEW r \in Tries, NEW s \in Tries PROVE WaitHolds(s, r)'
    BY <1>1, <2>1, <2>2 DEF ActorsInv, WaitHolds, GoodAt, PageRequest
  <2>5. MemoHolds'
    BY <1>1, <2>1, <2>2 DEF ActorsInv, MemoHolds, Memo
  <2>. QED
    BY <2>1, <2>2, <2>3, <2>4, <2>5 DEF ActorsInv
<1>3. CASE Actors!AccessChanges
  <2>1. /\ member' = ~member /\ lastMember' = moment /\ moment' = moment
        /\ request' = [r \in Tries |-> IF request[r].step = "none" THEN request[r]
                                       ELSE [request[r] EXCEPT !.since = request[r].since \/ ~member]]
    BY <1>3 DEF Actors!AccessChanges, Actors!At
  <2>2. lastMember' \in Nat /\ lastMember <= lastMember' /\ lastMember' <= moment' /\ (member' => lastMember' = moment')
    BY <2>1 DEF ActorsInv
  <2>3. ASSUME NEW r \in Tries
        PROVE  /\ request'[r] \in PageRequest /\ request'[r].step = request[r].step
               /\ request'[r].began = request[r].began /\ request'[r].kind = request[r].kind
               /\ request'[r].for = request[r].for /\ request'[r].answer = request[r].answer
               /\ request[r].since => request'[r].since
               /\ request'[r].step # "none" /\ member' => request'[r].since
    <3>1. request[r] \in PageRequest /\ member \in BOOLEAN
      BY DEF ActorsInv
    <3>2. CASE request[r].step = "none"
      BY <2>1, <3>1, <3>2
    <3>3. CASE request[r].step # "none"
      <4>1. PICK b \in BOOLEAN : b = (request[r].since \/ ~member)
        OBVIOUS
      <4>2. request'[r] = [request[r] EXCEPT !.since = b]
        BY <2>1, <3>3, <4>1
      <4>. QED
        BY <2>1, <3>1, <4>1, <4>2 DEF PageRequest
    <3>. QED
      BY <3>2, <3>3
  <2>4. request' \in [Tries -> PageRequest]
    BY <2>1, <2>3
  <2>5. ASSUME NEW r \in Tries PROVE RequestHolds(r)'
    <3>1. RequestHolds(r) /\ request[r] \in PageRequest
      BY DEF ActorsInv
    <3>2. GoodAt(request[r].began) => GoodAt(request[r].began)'
      BY <1>1, <2>2, <2>3, <3>1 DEF GoodAt, ActorsInv, PageRequest
    <3>. QED
      BY <2>1, <2>3, <3>1, <3>2 DEF RequestHolds
  <2>6. ASSUME NEW r \in Tries, NEW s \in Tries PROVE WaitHolds(s, r)'
    <3>1. WaitHolds(s, r) /\ request[s] \in PageRequest
      BY DEF ActorsInv
    <3>2. GoodAt(request[s].began) => GoodAt(request[s].began)'
      BY <1>1, <2>2, <2>3, <3>1 DEF GoodAt, ActorsInv, PageRequest
    <3>. QED
      BY <2>3, <3>1, <3>2 DEF WaitHolds
  <2>7. MemoHolds'
    BY <1>1, <2>1, <2>2, <2>3 DEF ActorsInv, MemoHolds, Memo
  <2>. QED
    BY <2>1, <2>2, <2>4, <2>5, <2>6, <2>7 DEF ActorsInv
<1>. QED
  BY <1>2, <1>3

\* Nobody is let through on an older answer than the memo allows, for any number of
\* page requests and any lifetime of the memo.
THEOREM AccessStaysCurrent == PartsSpec => []AccessIsCurrent
<1>. DEFINE all == <<part, vars, postVars, outageVars, rowVars, gateVars, statusVars, webVars>>
<1>1. PartsInit => ActorsInv
  BY ActorsStart DEF PartsInit
<1>2. ActorsInv /\ [PartsNext]_all => ActorsInv'
  <2>. SUFFICES ASSUME ActorsInv, [PartsNext]_all PROVE ActorsInv'
    OBVIOUS
  <2>1. CASE UNCHANGED actorVars
    BY <2>1 DEF ActorsInv, RequestHolds, WaitHolds, MemoHolds, GoodAt, actorVars
  <2>2. CASE Actors!Next
    BY <2>2, AskKeeps, QuietActorsKeep, DecidesKeeps, AnswersKeeps, WorldKeeps DEF Actors!Next
  <2>3. UNCHANGED actorVars \/ Actors!Next
    BY DEF PartsNext, Moves, webVars
  <2>. QED
    BY <2>1, <2>2, <2>3
<1>3. ActorsInv => AccessIsCurrent
  BY DEF ActorsInv, RequestHolds, GoodAt, AccessIsCurrent, Actors!AccessIsCurrent, Actors!At
<1>. QED
  BY <1>1, <1>2, <1>3, PTL DEF PartsSpec

-----------------------------------------------------------------------------
(* The ledger channel (LedgerPosts) *)

Recordings == 1 .. MaxEntries
Shown == Posts!ToSet(posts)
PostWorker == [pc : {"free", "claimed", "guarded", "sending", "sent"}, entry : 0 .. MaxEntries, sees : BOOLEAN]

PostTypes ==
  /\ recorded \in 0 .. MaxEntries /\ faults \in Nat /\ channel \in BOOLEAN /\ active \in BOOLEAN
  /\ status \in [Recordings -> Posts!Statuses]
  /\ lease \in [Recordings -> PostWorkers \cup {Nobody}]
  /\ worker \in [PostWorkers -> PostWorker]
  /\ posts \in Seq(Recordings)
\* Jobs exist for the entries recorded so far; a live lease is that of a worker on
\* that entry, whose job runs.
LeasesHold ==
  /\ \A i \in Recordings : status[i] = "none" <=> i > recorded
  /\ \A w \in PostWorkers : worker[w].pc = "free" <=> worker[w].entry = 0
  /\ \A i \in Recordings : lease[i] # Nobody => status[i] = "running" /\ worker[lease[i]].entry = i
\* Whoever has looked at the earlier entries saw them end, and an ended job stays so.
LooksHold ==
  /\ \A w \in PostWorkers : worker[w].pc \in {"sending", "sent"} =>
       \A j \in 1 .. (worker[w].entry - 1) : status[j] = "succeeded"
  /\ \A w \in PostWorkers : worker[w].pc = "sent" => worker[w].entry \in Shown
\* Until something is lost, every worker has its lease, and a posted entry is done or
\* with the worker that posted it.
NothingLost ==
  faults = 0 =>
    /\ \A w \in PostWorkers : worker[w].pc # "free" => lease[worker[w].entry] = w
    /\ \A i \in Recordings : i \in Shown =>
         status[i] = "succeeded" \/ (lease[i] \in PostWorkers /\ worker[lease[i]].pc = "sent")
    /\ \A m, n \in 1 .. Len(posts) : posts[m] = posts[n] => m = n

PostsInv ==
  PostTypes /\ LeasesHold /\ LooksHold /\ NothingLost /\ Posts!DoneIsPosted /\ Posts!PostedInOrder

LEMMA PostConstants ==
  /\ MaxEntries \in Nat \ {0} /\ Nobody \notin PostWorkers /\ Recordings = Posts!All
  /\ Posts!Free \in PostWorker /\ Posts!Free.pc = "free" /\ Posts!Free.entry = 0
  /\ \A i \in Recordings : i # 0 /\ i \in Nat
BY PostsAssumption DEF Posts!ConstantsOK, Recordings, Posts!All, Posts!Free, PostWorker

LEMMA PostsStart == Posts!Init => PostsInv
<1>. SUFFICES ASSUME Posts!Init PROVE PostsInv
  OBVIOUS
<1>1. PostTypes
  BY PostConstants DEF Posts!Init, PostTypes, Posts!Statuses
<1>2. Len(posts) = 0 /\ Shown = {}
  BY DEF Posts!Init, Shown, Posts!ToSet
<1>. QED
  BY <1>1, <1>2, PostConstants
  DEF Posts!Init, PostsInv, LeasesHold, LooksHold, NothingLost, Posts!DoneIsPosted, Posts!PostedInOrder

\* A message at the end of the channel, or one that Discord knew.
LEMMA PostedKeeps ==
  ASSUME PostsInv, NEW w \in PostWorkers, worker[w].pc = "sending", Posts!Posted(worker[w].entry),
         skipped' = skipped
  PROVE  /\ posts' \in Seq(Recordings) /\ Shown' = Shown \cup {worker[w].entry}
         /\ Posts!PostedInOrder'
         /\ (\A m, n \in 1 .. Len(posts) : posts[m] = posts[n] => m = n) /\ worker[w].entry \notin Shown
            => \A m, n \in 1 .. Len(posts') : posts'[m] = posts'[n] => m = n
<1>. DEFINE i == worker[w].entry
<1>1. i \in Recordings /\ posts \in Seq(Recordings)
  BY PostConstants DEF PostsInv, PostTypes, LeasesHold, PostWorker, Recordings
<1>2. CASE posts' = posts /\ i \in Shown
  BY <1>1, <1>2 DEF Shown, PostsInv, Posts!PostedInOrder, Posts!ToSet
<1>3. CASE posts' = Append(posts, i)
  <2>. DEFINE l == Len(posts)
  <2>1. /\ posts' \in Seq(Recordings) /\ Len(posts') = l + 1 /\ l \in Nat /\ posts'[l + 1] = i
        /\ \A n \in 1 .. l : posts'[n] = posts[n]
    BY <1>1, <1>3
  <2>2. DOMAIN posts = 1 .. l /\ DOMAIN posts' = 1 .. (l + 1)
    BY <1>1, <2>1
  <2>3. Shown' = Shown \cup {i}
    <3>1. Shown = {posts[n] : n \in 1 .. l} /\ Shown' = {posts'[n] : n \in 1 .. (l + 1)}
      BY <2>2 DEF Shown, Posts!ToSet
    <3>. HIDE DEF i
    <3>2. \A n \in 1 .. (l + 1) : n = l + 1 \/ n \in 1 .. l
      BY <2>1
    <3>3. l + 1 \in 1 .. (l + 1) /\ 1 .. l \subseteq 1 .. (l + 1)
      BY <2>1
    <3>. QED
      BY <2>1, <3>1, <3>2, <3>3
  <2>4. ASSUME NEW n \in 1 .. (l + 1), NEW j \in 1 .. (posts'[n] - 1)
        PROVE  j \in skipped \/ \E m \in 1 .. (n - 1) : posts'[m] = j
    <3>1. CASE n = l + 1
      <4>1. j \in 1 .. (i - 1) /\ j \in Recordings
        <5>1. MaxEntries \in Nat /\ i \in 1 .. MaxEntries /\ j \in 1 .. (i - 1)
          BY <1>1, <2>1, <3>1, PostConstants DEF Recordings
        <5>. HIDE DEF i
        <5>. QED
          BY <5>1 DEF Recordings
      <4>2. status[j] = "succeeded"
        BY <4>1 DEF PostsInv, LooksHold
      <4>3. j \in skipped \/ j \in Shown
        BY <4>1, <4>2, PostConstants DEF PostsInv, Posts!DoneIsPosted, Shown
      <4>4. j \in Shown => \E m \in 1 .. l : posts[m] = j
        BY <2>2 DEF Shown, Posts!ToSet
      <4>. QED
        BY <2>1, <3>1, <4>3, <4>4
    <3>2. CASE n # l + 1
      <4>1. n \in 1 .. l /\ posts'[n] = posts[n] /\ n - 1 \in Nat /\ n - 1 <= l
        BY <2>1, <3>2
      <4>2. j \in skipped \/ \E m \in 1 .. (n - 1) : posts[m] = j
        BY <4>1 DEF PostsInv, Posts!PostedInOrder
      <4>. QED
        BY <2>1, <4>1, <4>2
    <3>. QED
      BY <3>1, <3>2
  <2>5. ASSUME \A m, n \in 1 .. l : posts[m] = posts[n] => m = n, i \notin Shown,
               NEW m \in 1 .. (l + 1), NEW n \in 1 .. (l + 1), posts'[m] = posts'[n]
        PROVE  m = n
    <3>1. \A o \in 1 .. l : posts[o] # i
      BY <2>2, <2>5 DEF Shown, Posts!ToSet
    <3>2. /\ m = l + 1 \/ m \in 1 .. l
          /\ n = l + 1 \/ n \in 1 .. l
      BY <2>1
    <3>. QED
      BY <2>1, <2>5, <3>1, <3>2
  <2>6. Posts!PostedInOrder'
    BY <2>1, <2>4 DEF Posts!PostedInOrder
  <2>. QED
    BY <2>1, <2>3, <2>5, <2>6
<1>. QED
  BY <1>2, <1>3 DEF Posts!Posted, Shown

\* An attempt ends: in every way that the code ends one, with or without its lease.
LEMMA SettleKeeps ==
  ASSUME PostsInv, NEW w \in PostWorkers, worker[w].pc # "free",
         NEW next \in {"queued", "blocked", "failed", "succeeded"}, Posts!Settle(w, next),
         UNCHANGED <<recorded, channel, active>>,
         skipped \subseteq skipped', posts' \in Seq(Recordings), Shown \subseteq Shown', Posts!PostedInOrder',
         next = "succeeded" /\ lease[worker[w].entry] = w => worker[w].entry \in skipped' \cup Shown',
         \/ faults' \in Nat \ {0}
         \/ faults' = faults /\ posts' = posts /\ (worker[w].pc = "sent" => next = "succeeded")
  PROVE  PostsInv'
<1>. DEFINE i == worker[w].entry
<1>1. i \in Recordings /\ Nobody \notin PostWorkers
  BY PostConstants DEF PostsInv, PostTypes, LeasesHold, PostWorker, Recordings
<1>2. /\ worker' \in [PostWorkers -> PostWorker] /\ worker'[w].pc = "free" /\ worker'[w].entry = 0
      /\ \A v \in PostWorkers \ {w} : worker'[v] = worker[v]
  BY PostConstants DEF Posts!Settle, Posts!Leave, PostsInv, PostTypes
<1>3. /\ status' \in [Recordings -> Posts!Statuses] /\ lease' \in [Recordings -> PostWorkers \cup {Nobody}]
      /\ \A j \in Recordings \ {i} : status'[j] = status[j] /\ lease'[j] = lease[j]
      /\ \/ lease[i] = w /\ status[i] = "running" /\ status'[i] = next /\ lease'[i] = Nobody
         \/ lease[i] # w /\ status'[i] = status[i] /\ lease'[i] = lease[i]
  <2>1. status \in [Recordings -> Posts!Statuses] /\ lease \in [Recordings -> PostWorkers \cup {Nobody}]
    BY DEF PostsInv, PostTypes
  <2>2. CASE lease[i] = w
    <3>1. status' = [status EXCEPT ![i] = next] /\ lease' = [lease EXCEPT ![i] = Nobody]
      BY <2>2 DEF Posts!Settle, Posts!Holds
    <3>2. status[i] = "running" /\ next \in Posts!Statuses
      BY <1>1, <2>2 DEF PostsInv, LeasesHold, Posts!Statuses
    <3>. QED
      BY <1>1, <2>1, <2>2, <3>1, <3>2
  <2>3. CASE lease[i] # w
    BY <1>1, <2>1, <2>3 DEF Posts!Settle, Posts!Holds
  <2>. QED
    BY <2>2, <2>3
<1>. HIDE DEF i
<1>4. \A j \in Recordings : status[j] = "succeeded" => status'[j] = "succeeded"
  BY <1>3
<1>5. PostTypes'
  BY <1>2, <1>3 DEF PostsInv, PostTypes
<1>6. LeasesHold'
  <2>1. \A j \in Recordings : status'[j] = "none" <=> j > recorded'
    BY <1>3 DEF PostsInv, LeasesHold
  <2>2. ASSUME NEW j \in Recordings, lease'[j] # Nobody
        PROVE  status'[j] = "running" /\ worker'[lease'[j]].entry = j
    <3>1. lease'[j] = lease[j] /\ status'[j] = status[j] /\ (j = i => lease[j] # w)
      BY <1>3, <2>2
    <3>2. status[j] = "running" /\ worker[lease[j]].entry = j /\ lease[j] \in PostWorkers
      BY <2>2, <3>1 DEF PostsInv, LeasesHold, PostTypes
    <3>3. lease[j] # w
      BY <3>1, <3>2 DEF i
    <3>. QED
      BY <1>2, <3>1, <3>2, <3>3
  <2>. QED
    BY <1>2, <2>1, <2>2 DEF PostsInv, LeasesHold
<1>7. LooksHold'
  <2>1. ASSUME NEW v \in PostWorkers, worker'[v].pc \in {"sending", "sent"}
        PROVE  /\ \A j \in 1 .. (worker'[v].entry - 1) : status'[j] = "succeeded"
               /\ worker'[v].pc = "sent" => worker'[v].entry \in Shown'
    <3>1. v # w /\ worker'[v] = worker[v] /\ worker[v] \in PostWorker
      BY <1>2, <2>1 DEF PostsInv, PostTypes
    <3>2. \A j \in 1 .. (worker[v].entry - 1) : j \in Recordings
      <4>1. MaxEntries \in Nat /\ worker[v].entry \in 0 .. MaxEntries
        BY <3>1, PostConstants DEF PostWorker
      <4>. QED
        BY <4>1 DEF Recordings
    <3>. QED
      BY <1>4, <2>1, <3>1, <3>2 DEF PostsInv, LooksHold
  <2>. QED
    BY <2>1 DEF LooksHold
<1>8. Posts!DoneIsPosted'
  <2>1. ASSUME NEW j \in Recordings, status'[j] = "succeeded", j \notin skipped'
        PROVE  j \in Shown'
    <3>1. CASE status[j] = "succeeded"
      BY <2>1, <3>1, PostConstants DEF PostsInv, Posts!DoneIsPosted, Shown
    <3>2. CASE status[j] # "succeeded"
      BY <1>3, <2>1, <3>2 DEF i
    <3>. QED
      BY <3>1, <3>2
  <2>. QED
    BY <2>1, PostConstants DEF Posts!DoneIsPosted, Shown
<1>9. NothingLost'
  <2>1. SUFFICES ASSUME faults' = 0, faults = 0, posts' = posts, worker[w].pc = "sent" => next = "succeeded"
                 PROVE  NothingLost'
    BY DEF NothingLost
  <2>2. Shown' = Shown
    BY <2>1 DEF Shown
  <2>3. ASSUME NEW v \in PostWorkers, worker'[v].pc # "free"
        PROVE  lease'[worker'[v].entry] = v
    <3>1. v # w /\ worker'[v] = worker[v] /\ worker[v] \in PostWorker /\ lease[worker[v].entry] = v
      BY <1>2, <2>1, <2>3 DEF PostsInv, NothingLost, PostTypes
    <3>2. worker[v].entry \in Recordings
      BY <2>3, <3>1 DEF PostsInv, LeasesHold, PostWorker, Recordings
    <3>. QED
      BY <1>1, <1>3, <3>1, <3>2
  <2>4. ASSUME NEW j \in Recordings, j \in Shown'
        PROVE  status'[j] = "succeeded" \/ (lease'[j] \in PostWorkers /\ worker'[lease'[j]].pc = "sent")
    <3>1. status[j] = "succeeded" \/ (lease[j] \in PostWorkers /\ worker[lease[j]].pc = "sent")
      BY <2>1, <2>2, <2>4 DEF PostsInv, NothingLost
    <3>2. CASE status[j] = "succeeded"
      BY <1>4, <3>2
    <3>3. CASE lease[j] \in PostWorkers /\ worker[lease[j]].pc = "sent"
      <4>1. worker[lease[j]].entry = j
        BY <1>1, <3>3 DEF PostsInv, LeasesHold
      <4>2. CASE lease[j] = w
        BY <1>3, <2>1, <3>3, <4>1, <4>2 DEF i
      <4>3. CASE lease[j] # w
        BY <1>2, <1>3, <3>3, <4>3
      <4>. QED
        BY <4>2, <4>3
    <3>. QED
      BY <3>1, <3>2, <3>3
  <2>. QED
    BY <2>1, <2>3, <2>4 DEF PostsInv, NothingLost
<1>. QED
  BY <1>5, <1>6, <1>7, <1>8, <1>9 DEF PostsInv

\* Jobs that are recorded, released or retried: no running or ended job changes.
LEMMA StatusKeeps ==
  ASSUME PostsInv, UNCHANGED <<lease, worker, posts, skipped, faults>>,
         recorded' \in 0 .. MaxEntries, channel' \in BOOLEAN, active' \in BOOLEAN,
         status' \in [Recordings -> Posts!Statuses],
         \A i \in Recordings : /\ status[i] \in {"running", "succeeded"} => status'[i] = status[i]
                               /\ status'[i] = "succeeded" => status[i] = "succeeded"
                               /\ status'[i] = "none" <=> i > recorded'
  PROVE  PostsInv'
<1>0. Shown' = Shown
  BY DEF Shown
<1>1. PostTypes'
  BY DEF PostsInv, PostTypes
<1>2. LeasesHold'
  BY DEF PostsInv, LeasesHold
<1>3. LooksHold'
  <2>1. ASSUME NEW v \in PostWorkers, worker[v].pc \in {"sending", "sent"}, NEW j \in 1 .. (worker[v].entry - 1)
        PROVE  status'[j] = "succeeded"
    <3>1. MaxEntries \in Nat /\ worker[v].entry \in 0 .. MaxEntries
      BY PostConstants DEF PostsInv, PostTypes, PostWorker
    <3>2. j \in Recordings /\ status[j] = "succeeded"
      BY <2>1, <3>1 DEF Recordings, PostsInv, LooksHold
    <3>. QED
      BY <3>2
  <2>. QED
    BY <1>0, <2>1 DEF PostsInv, LooksHold
<1>4. NothingLost'
  BY <1>0 DEF PostsInv, NothingLost
<1>5. Posts!DoneIsPosted' /\ Posts!PostedInOrder'
  BY PostConstants DEF PostsInv, Posts!DoneIsPosted, Posts!PostedInOrder, Posts!ToSet
<1>. QED
  BY <1>1, <1>2, <1>3, <1>4, <1>5 DEF PostsInv

\* A worker that goes on with its entry.
LEMMA MoveKeeps ==
  ASSUME PostsInv, NEW w \in PostWorkers, worker[w].pc \notin {"free", "sent"}, NEW q \in PostWorker,
         worker' = [worker EXCEPT ![w] = q], q.entry = worker[w].entry, q.pc \in {"guarded", "sending"},
         q.pc = "sending" => \A j \in 1 .. (q.entry - 1) : status[j] = "succeeded",
         UNCHANGED <<recorded, status, lease, channel, active, posts, skipped, faults>>
  PROVE  PostsInv'
<1>1. /\ worker' \in [PostWorkers -> PostWorker] /\ worker'[w] = q
      /\ \A v \in PostWorkers \ {w} : worker'[v] = worker[v]
  BY DEF PostsInv, PostTypes
<1>2. Shown' = Shown /\ Nobody \notin PostWorkers
  BY PostConstants DEF Shown
<1>3. PostTypes'
  BY <1>1 DEF PostsInv, PostTypes
<1>4. LeasesHold'
  BY <1>1 DEF PostsInv, LeasesHold, PostTypes
<1>5. LooksHold'
  BY <1>1, <1>2 DEF PostsInv, LooksHold
<1>6. NothingLost'
  BY <1>1, <1>2 DEF PostsInv, NothingLost
<1>7. Posts!DoneIsPosted' /\ Posts!PostedInOrder'
  BY DEF PostsInv, Posts!DoneIsPosted, Posts!PostedInOrder, Posts!ToSet
<1>. QED
  BY <1>3, <1>4, <1>5, <1>6, <1>7 DEF PostsInv

LEMMA SendKeeps ==
  ASSUME PostsInv, NEW w \in PostWorkers, Posts!Send(w)
  PROVE  PostsInv'
<1>. DEFINE i == worker[w].entry
<1>1. /\ worker[w].pc = "sending" /\ Posts!Posted(i) /\ worker' = [worker EXCEPT ![w].pc = "sent"]
      /\ UNCHANGED <<recorded, status, lease, channel, active, skipped, faults>>
  BY DEF Posts!Send, Posts!At, Posts!Set, Posts!guild
<1>2. /\ posts' \in Seq(Recordings) /\ Shown' = Shown \cup {i} /\ Posts!PostedInOrder'
      /\ (\A m, n \in 1 .. Len(posts) : posts[m] = posts[n] => m = n) /\ i \notin Shown
         => \A m, n \in 1 .. Len(posts') : posts'[m] = posts'[n] => m = n
  BY <1>1, PostedKeeps
<1>3. /\ worker' \in [PostWorkers -> PostWorker] /\ worker'[w].pc = "sent" /\ worker'[w].entry = i
      /\ \A v \in PostWorkers \ {w} : worker'[v] = worker[v]
  BY <1>1 DEF PostsInv, PostTypes, PostWorker
<1>4. Nobody \notin PostWorkers
  BY PostConstants
<1>5. i \in Recordings
  BY <1>1, PostConstants DEF PostsInv, PostTypes, LeasesHold, PostWorker, Recordings
<1>. HIDE DEF i
<1>6. PostTypes'
  BY <1>1, <1>2, <1>3 DEF PostsInv, PostTypes
<1>7. LeasesHold'
  <2>1. ASSUME NEW v \in PostWorkers PROVE worker'[v].pc = "free" <=> worker'[v].entry = 0
    BY <1>1, <1>3 DEF PostsInv, LeasesHold, i
  <2>2. ASSUME NEW j \in Recordings, lease[j] # Nobody PROVE status[j] = "running" /\ worker'[lease[j]].entry = j
    BY <1>3, <2>2 DEF PostsInv, LeasesHold, PostTypes, i
  <2>. QED
    BY <1>1, <2>1, <2>2 DEF PostsInv, LeasesHold
<1>8. LooksHold'
  BY <1>1, <1>2, <1>3 DEF PostsInv, LooksHold, i
<1>9. NothingLost'
  <2>1. SUFFICES ASSUME faults = 0 PROVE NothingLost'
    BY <1>1 DEF NothingLost
  <2>2. lease[i] = w
    BY <1>1, <2>1 DEF PostsInv, NothingLost, i
  <2>3. i \notin Shown
    <3>1. SUFFICES ASSUME i \in Shown PROVE FALSE
      OBVIOUS
    <3>2. status[i] = "running"
      BY <1>4, <1>5, <2>2 DEF PostsInv, LeasesHold
    <3>3. status[i] = "succeeded" \/ worker[lease[i]].pc = "sent"
      BY <1>5, <2>1, <3>1 DEF PostsInv, NothingLost
    <3>. QED
      BY <1>1, <2>2, <3>2, <3>3
  <2>4. \A m, n \in 1 .. Len(posts') : posts'[m] = posts'[n] => m = n
    BY <1>2, <2>1, <2>3 DEF PostsInv, NothingLost
  <2>5. ASSUME NEW v \in PostWorkers, worker'[v].pc # "free" PROVE lease[worker'[v].entry] = v
    BY <1>3, <2>1, <2>2, <2>5 DEF PostsInv, NothingLost
  <2>6. ASSUME NEW j \in Recordings, j \in Shown'
        PROVE  status[j] = "succeeded" \/ (lease[j] \in PostWorkers /\ worker'[lease[j]].pc = "sent")
    <3>1. CASE j = i
      BY <1>3, <2>2, <3>1
    <3>2. CASE j # i
      <4>1. j \in Shown
        BY <1>2, <2>6, <3>2
      <4>2. status[j] = "succeeded" \/ (lease[j] \in PostWorkers /\ worker[lease[j]].pc = "sent")
        BY <2>1, <4>1 DEF PostsInv, NothingLost
      <4>. QED
        BY <1>3, <4>2
    <3>. QED
      BY <3>1, <3>2
  <2>. QED
    BY <1>1, <2>4, <2>5, <2>6 DEF NothingLost
<1>10. Posts!DoneIsPosted'
  BY <1>1, <1>2, PostConstants DEF PostsInv, Posts!DoneIsPosted, Shown
<1>. QED
  BY <1>2, <1>6, <1>7, <1>8, <1>9, <1>10 DEF PostsInv

LEMMA ClaimKeeps ==
  ASSUME PostsInv, NEW w \in PostWorkers, NEW i \in Recordings, Posts!Claim(w, i)
  PROVE  PostsInv'
<1>. DEFINE q == [pc |-> "claimed", entry |-> i, sees |-> FALSE]
<1>1. /\ worker[w].pc = "free" /\ worker' = [worker EXCEPT ![w] = q]
      /\ status[i] = "queued" \/ (status[i] = "running" /\ lease[i] = Nobody)
      /\ status' = [status EXCEPT ![i] = "running"] /\ lease' = [lease EXCEPT ![i] = w]
      /\ UNCHANGED <<recorded, channel, active, posts, skipped, faults>>
  BY DEF Posts!Claim, Posts!At, Posts!guild
<1>2. q \in PostWorker /\ q.pc = "claimed" /\ q.entry = i /\ i # 0 /\ Nobody \notin PostWorkers
  BY PostConstants DEF PostWorker, Recordings
<1>. HIDE DEF q
<1>3. /\ worker' \in [PostWorkers -> PostWorker] /\ worker'[w] = q
      /\ \A v \in PostWorkers \ {w} : worker'[v] = worker[v]
      /\ status' \in [Recordings -> Posts!Statuses] /\ status'[i] = "running"
      /\ lease' \in [Recordings -> PostWorkers \cup {Nobody}] /\ lease'[i] = w
      /\ \A j \in Recordings \ {i} : status'[j] = status[j] /\ lease'[j] = lease[j]
  BY <1>1, <1>2 DEF PostsInv, PostTypes, Posts!Statuses
<1>4. Shown' = Shown
  BY <1>1 DEF Shown
<1>5. lease[i] = Nobody /\ status[i] # "succeeded" /\ status[i] # "none"
  BY <1>1 DEF PostsInv, LeasesHold
<1>6. PostTypes'
  BY <1>1, <1>3 DEF PostsInv, PostTypes
<1>7. LeasesHold'
  <2>1. ASSUME NEW j \in Recordings, lease'[j] # Nobody
        PROVE  status'[j] = "running" /\ worker'[lease'[j]].entry = j
    <3>1. CASE j = i
      BY <1>2, <1>3, <3>1
    <3>2. CASE j # i
      <4>1. /\ lease'[j] = lease[j] /\ status[j] = "running" /\ status'[j] = status[j]
            /\ worker[lease[j]].entry = j /\ lease[j] \in PostWorkers
        BY <1>3, <2>1, <3>2 DEF PostsInv, LeasesHold, PostTypes
      <4>2. worker[w].entry = 0
        BY <1>1 DEF PostsInv, LeasesHold
      <4>3. lease[j] # w
        BY <4>1, <4>2, PostConstants
      <4>. QED
        BY <1>3, <4>1, <4>3
    <3>. QED
      BY <3>1, <3>2
  <2>2. \A v \in PostWorkers : worker'[v].pc = "free" <=> worker'[v].entry = 0
    BY <1>2, <1>3 DEF PostsInv, LeasesHold
  <2>3. \A j \in Recordings : status'[j] = "none" <=> j > recorded'
    BY <1>1, <1>3, <1>5 DEF PostsInv, LeasesHold
  <2>. QED
    BY <2>1, <2>2, <2>3 DEF LeasesHold
<1>8. LooksHold'
  <2>1. ASSUME NEW v \in PostWorkers, worker'[v].pc \in {"sending", "sent"}
        PROVE  /\ \A j \in 1 .. (worker'[v].entry - 1) : status'[j] = "succeeded"
               /\ worker'[v].pc = "sent" => worker'[v].entry \in Shown'
    <3>1. v # w /\ worker'[v] = worker[v] /\ worker[v] \in PostWorker
      BY <1>2, <1>3, <2>1 DEF PostsInv, PostTypes
    <3>2. \A j \in 1 .. (worker[v].entry - 1) : status[j] = "succeeded" /\ j \in Recordings
      <4>1. MaxEntries \in Nat /\ worker[v].entry \in 0 .. MaxEntries
        BY <3>1, PostConstants DEF PostWorker
      <4>. QED
        BY <2>1, <3>1, <4>1 DEF Recordings, PostsInv, LooksHold
    <3>. QED
      BY <1>3, <1>4, <1>5, <2>1, <3>1, <3>2 DEF PostsInv, LooksHold
  <2>. QED
    BY <2>1 DEF LooksHold
<1>9. NothingLost'
  <2>1. SUFFICES ASSUME faults = 0 PROVE NothingLost'
    BY <1>1 DEF NothingLost
  <2>2. ASSUME NEW v \in PostWorkers, worker'[v].pc # "free" PROVE lease'[worker'[v].entry] = v
    <3>1. CASE v = w
      BY <1>2, <1>3, <3>1
    <3>2. CASE v # w
      <4>1. worker'[v] = worker[v] /\ lease[worker[v].entry] = v
        BY <1>3, <2>1, <2>2, <3>2 DEF PostsInv, NothingLost
      <4>2. worker[v].entry \in Recordings
        BY <2>2, <4>1, PostConstants DEF PostsInv, LeasesHold, PostTypes, PostWorker, Recordings
      <4>. QED
        BY <1>2, <1>3, <1>5, <4>1, <4>2
    <3>. QED
      BY <3>1, <3>2
  <2>3. ASSUME NEW j \in Recordings, j \in Shown'
        PROVE  status'[j] = "succeeded" \/ (lease'[j] \in PostWorkers /\ worker'[lease'[j]].pc = "sent")
    <3>1. status[j] = "succeeded" \/ (lease[j] \in PostWorkers /\ worker[lease[j]].pc = "sent")
      BY <1>4, <2>1, <2>3 DEF PostsInv, NothingLost
    <3>2. j # i
      BY <1>2, <1>5, <3>1
    <3>. QED
      BY <1>1, <1>3, <3>1, <3>2
  <2>. QED
    BY <1>1, <2>1, <2>2, <2>3 DEF PostsInv, NothingLost
<1>10. Posts!DoneIsPosted' /\ Posts!PostedInOrder'
  <2>1. \A j \in Recordings : status'[j] = "succeeded" => status[j] = "succeeded"
    BY <1>3
  <2>2. Posts!DoneIsPosted'
    BY <1>1, <1>4, <2>1, PostConstants DEF PostsInv, Posts!DoneIsPosted, Shown
  <2>3. Posts!PostedInOrder'
    BY <1>1 DEF PostsInv, Posts!PostedInOrder
  <2>. QED
    BY <2>2, <2>3
<1>. QED
  BY <1>6, <1>7, <1>8, <1>9, <1>10 DEF PostsInv

\* Leases that are lost, with their workers or without them.
LEMMA LossKeeps ==
  ASSUME PostsInv, Posts!Crash \/ \E w \in PostWorkers : Posts!LeaseExpires(w)
  PROVE  PostsInv'
<1>1. /\ UNCHANGED <<recorded, status, channel, active, posts, skipped>> /\ faults' \in Nat \ {0}
      /\ worker' = worker \/ worker' = [w \in PostWorkers |-> Posts!Free]
      /\ lease' \in [Recordings -> PostWorkers \cup {Nobody}]
      /\ \A i \in Recordings : lease'[i] = Nobody \/ (lease'[i] = lease[i] /\ worker' = worker)
  <2>1. CASE Posts!Crash
    BY <2>1, PostConstants DEF Posts!Crash, Posts!guild, PostsInv, PostTypes
  <2>2. ASSUME NEW w \in PostWorkers, Posts!LeaseExpires(w)
        PROVE  /\ UNCHANGED <<recorded, status, channel, active, posts, skipped, worker>> /\ faults' \in Nat \ {0}
               /\ lease' = [lease EXCEPT ![worker[w].entry] = Nobody]
    BY <2>2 DEF Posts!LeaseExpires, Posts!guild, PostsInv, PostTypes
  <2>. QED
    BY <2>1, <2>2 DEF PostsInv, PostTypes
<1>2. Shown' = Shown
  BY <1>1 DEF Shown
<1>3. PostTypes'
  BY <1>1, PostConstants DEF PostsInv, PostTypes
<1>4. LeasesHold'
  BY <1>1, PostConstants DEF PostsInv, LeasesHold
<1>5. LooksHold'
  BY <1>1, <1>2, PostConstants DEF PostsInv, LooksHold
<1>6. NothingLost'
  BY <1>1 DEF NothingLost
<1>7. Posts!DoneIsPosted' /\ Posts!PostedInOrder'
  BY <1>1 DEF PostsInv, Posts!DoneIsPosted, Posts!PostedInOrder, Posts!ToSet
<1>. QED
  BY <1>3, <1>4, <1>5, <1>6, <1>7 DEF PostsInv

LEMMA DeliverKeeps ==
  ASSUME PostsInv, NEW w \in PostWorkers, Posts!Deliver(w) \/ Posts!SendUnanswered(w)
  PROVE  PostsInv'
<1>. USE DEF Posts!At, Posts!guild, Posts!Holds
<1>0. posts \in Seq(Recordings) /\ Posts!PostedInOrder /\ faults \in Nat /\ worker \in [PostWorkers -> PostWorker]
  BY DEF PostsInv, PostTypes
<1>1. CASE Posts!Skip(w)
  <2>1. /\ worker[w].pc = "claimed" /\ Posts!Settle(w, "succeeded")
        /\ UNCHANGED <<recorded, channel, active, posts, faults>>
        /\ skipped \subseteq skipped' /\ (lease[worker[w].entry] = w => worker[w].entry \in skipped')
    BY <1>1 DEF Posts!Skip
  <2>2. Shown' = Shown /\ Posts!PostedInOrder'
    BY <1>0, <2>1 DEF Shown, Posts!PostedInOrder
  <2>. QED
    BY <1>0, <2>1, <2>2, SettleKeeps
<1>2. CASE Posts!Guard(w)
  <2>1. CASE lease[worker[w].entry] = w
    <3>. DEFINE q == [worker[w] EXCEPT !.pc = "guarded", !.sees = channel]
    <3>1. /\ worker[w].pc = "claimed" /\ worker' = [worker EXCEPT ![w] = q]
          /\ UNCHANGED <<recorded, status, lease, channel, active, posts, skipped, faults>>
      BY <1>0, <1>2, <2>1 DEF Posts!Guard
    <3>2. q \in PostWorker /\ q.pc = "guarded" /\ q.entry = worker[w].entry
      BY <1>0 DEF PostWorker, PostsInv, PostTypes
    <3>. HIDE DEF q
    <3>. QED
      BY <3>1, <3>2, MoveKeeps
  <2>2. CASE lease[worker[w].entry] # w
    <3>1. /\ worker[w].pc = "claimed" /\ Posts!Settle(w, "queued")
          /\ UNCHANGED <<recorded, status, lease, channel, active, posts, skipped, faults>>
      BY <1>2, <2>2 DEF Posts!Guard, Posts!Settle
    <3>2. Shown' = Shown /\ Posts!PostedInOrder'
      BY <1>0, <3>1 DEF Shown, Posts!PostedInOrder
    <3>. QED
      BY <1>0, <3>1, <3>2, SettleKeeps
  <2>. QED
    BY <2>1, <2>2
<1>3. CASE Posts!Look(w)
  <2>1. ASSUME NEW next \in {"queued", "blocked"}, Posts!Settle(w, next)
        PROVE  PostsInv'
    <3>1. worker[w].pc = "guarded" /\ UNCHANGED <<recorded, channel, active, posts, skipped, faults>>
      BY <1>3 DEF Posts!Look
    <3>2. Shown' = Shown /\ Posts!PostedInOrder'
      BY <1>0, <3>1 DEF Shown, Posts!PostedInOrder
    <3>. QED
      BY <1>0, <2>1, <3>1, <3>2, SettleKeeps
  <2>2. CASE ~Posts!Earlier(worker[w].entry) /\ worker[w].sees
    <3>. DEFINE q == [worker[w] EXCEPT !.pc = "sending"]
    <3>1. /\ worker[w].pc = "guarded" /\ worker' = [worker EXCEPT ![w] = q]
          /\ UNCHANGED <<recorded, status, lease, channel, active, posts, skipped, faults>>
      BY <1>0, <1>3, <2>2 DEF Posts!Look, Posts!Set
    <3>2. q \in PostWorker /\ q.pc = "sending" /\ q.entry = worker[w].entry
      BY <1>0 DEF PostWorker
    <3>. HIDE DEF q
    <3>3. \A j \in 1 .. (worker[w].entry - 1) : status[j] = "succeeded"
      BY <2>2 DEF Posts!Earlier
    <3>. QED
      BY <3>1, <3>2, <3>3, MoveKeeps
  <2>. QED
    BY <1>3, <2>1, <2>2 DEF Posts!Look
<1>4. CASE Posts!Send(w)
  BY <1>4, SendKeeps
<1>5. CASE Posts!SendFails(w)
  <2>1. PICK next \in {"queued", "blocked", "failed", "succeeded"} :
          /\ Posts!Settle(w, next)
          /\ skipped' = IF next = "succeeded" /\ lease[worker[w].entry] = w
                        THEN skipped \cup {worker[w].entry} ELSE skipped
    BY <1>5 DEF Posts!SendFails
  <2>2. worker[w].pc = "sending" /\ UNCHANGED <<recorded, channel, active, posts, faults>>
    BY <1>5 DEF Posts!SendFails
  <2>3. Shown' = Shown /\ Posts!PostedInOrder'
    BY <1>0, <2>1, <2>2 DEF Shown, Posts!PostedInOrder
  <2>. QED
    BY <1>0, <2>1, <2>2, <2>3, SettleKeeps
<1>6. CASE Posts!Delivered(w)
  <2>1. /\ worker[w].pc = "sent" /\ Posts!Settle(w, "succeeded")
        /\ UNCHANGED <<recorded, channel, active, posts, skipped, faults>>
    BY <1>6 DEF Posts!Delivered
  <2>2. Shown' = Shown /\ Posts!PostedInOrder' /\ worker[w].entry \in Shown
    BY <1>0, <2>1 DEF Shown, Posts!PostedInOrder, PostsInv, LooksHold
  <2>. QED
    BY <1>0, <2>1, <2>2, SettleKeeps
<1>7. CASE Posts!SendUnanswered(w)
  <2>1. PICK next \in {"queued", "failed"} : Posts!Settle(w, next)
    BY <1>7 DEF Posts!SendUnanswered
  <2>2. /\ worker[w].pc = "sending" /\ UNCHANGED <<recorded, channel, active, skipped>>
        /\ faults' = faults + 1 /\ Posts!Posted(worker[w].entry)
    BY <1>7 DEF Posts!SendUnanswered
  <2>3. posts' \in Seq(Recordings) /\ Shown \subseteq Shown' /\ Posts!PostedInOrder'
    BY <2>2, PostedKeeps
  <2>. QED
    BY <1>0, <2>1, <2>2, <2>3, SettleKeeps
<1>. QED
  BY <1>1, <1>2, <1>3, <1>4, <1>5, <1>6, <1>7 DEF Posts!Deliver

LEMMA JobsKeep ==
  ASSUME PostsInv,
         \/ Posts!Record \/ Posts!Unblock \/ Posts!LeaveOrReturn
         \/ \E i \in Recordings : Posts!Retry(i)
  PROVE  PostsInv'
<1>1. UNCHANGED <<lease, worker, posts, skipped, faults>>
  BY DEF Posts!Record, Posts!Unblock, Posts!LeaveOrReturn, Posts!Retry, Posts!guild
<1>2. status \in [Recordings -> Posts!Statuses] /\ recorded \in 0 .. MaxEntries /\ MaxEntries \in Nat
      /\ channel \in BOOLEAN /\ active \in BOOLEAN /\ \A i \in Recordings : status[i] = "none" <=> i > recorded
  BY PostConstants DEF PostsInv, PostTypes, LeasesHold
<1>3. CASE Posts!Record
  <2>1. recorded' = recorded + 1 /\ recorded + 1 \in Recordings /\ UNCHANGED <<channel, active>>
        /\ status' = [status EXCEPT ![recorded + 1] = "queued"]
    BY <1>2, <1>3 DEF Posts!Record, Posts!guild, Recordings
  <2>2. status' \in [Recordings -> Posts!Statuses] /\ status[recorded + 1] = "none"
    BY <1>2, <2>1 DEF Posts!Statuses, Recordings
  <2>3. ASSUME NEW i \in Recordings
        PROVE  /\ status[i] \in {"running", "succeeded"} => status'[i] = status[i]
               /\ status'[i] = "succeeded" => status[i] = "succeeded"
               /\ status'[i] = "none" <=> i > recorded'
    BY <1>2, <2>1, <2>2 DEF Recordings
  <2>4. recorded' \in 0 .. MaxEntries
    BY <1>2, <2>1 DEF Recordings
  <2>. QED
    BY <1>1, <1>2, <2>1, <2>2, <2>3, <2>4, StatusKeeps
<1>4. CASE Posts!Unblock
  <2>1. /\ status' = [i \in Recordings |-> IF status[i] = "blocked" THEN "queued" ELSE status[i]]
        /\ UNCHANGED <<recorded, active>> /\ channel' \in BOOLEAN
    BY <1>4, PostConstants DEF Posts!Unblock
  <2>2. status' \in [Recordings -> Posts!Statuses]
    BY <1>2, <2>1 DEF Posts!Statuses
  <2>. QED
    BY <1>1, <1>2, <2>1, <2>2, StatusKeeps
<1>5. CASE Posts!LeaveOrReturn
  BY <1>1, <1>2, <1>5, StatusKeeps DEF Posts!LeaveOrReturn
<1>6. ASSUME NEW i \in Recordings, Posts!Retry(i) PROVE PostsInv'
  <2>1. /\ status[i] = "failed" /\ status' = [status EXCEPT ![i] = "queued"]
        /\ UNCHANGED <<recorded, channel, active>>
    BY <1>6 DEF Posts!Retry, Posts!guild
  <2>2. status' \in [Recordings -> Posts!Statuses]
    BY <1>2, <2>1 DEF Posts!Statuses
  <2>3. ASSUME NEW j \in Recordings
        PROVE  /\ status[j] \in {"running", "succeeded"} => status'[j] = status[j]
               /\ status'[j] = "succeeded" => status[j] = "succeeded"
               /\ status'[j] = "none" <=> j > recorded'
    BY <1>2, <2>1
  <2>. QED
    BY <1>1, <1>2, <2>1, <2>2, <2>3, StatusKeeps
<1>. QED
  BY <1>3, <1>4, <1>5, <1>6

\* The channel keeps the account's order, loses no entry and repeats one only after a
\* fault, for any number of entries, workers and faults.
THEOREM PostsStayInOrder == PartsSpec => []PostsFollowAccount
<1>. DEFINE all == <<part, vars, postVars, outageVars, rowVars, gateVars, statusVars, webVars>>
<1>1. PartsInit => PostsInv
  BY PostsStart DEF PartsInit
<1>2. PostsInv /\ [PartsNext]_all => PostsInv'
  <2>. SUFFICES ASSUME PostsInv, [PartsNext]_all PROVE PostsInv'
    OBVIOUS
  <2>1. CASE UNCHANGED postVars
    BY <2>1 DEF PostsInv, PostTypes, LeasesHold, LooksHold, NothingLost, Shown, Posts!ToSet,
                Posts!DoneIsPosted, Posts!PostedInOrder, postVars
  <2>2. CASE Posts!Next
    BY <2>2, JobsKeep, ClaimKeeps, DeliverKeeps, LossKeeps, PostConstants DEF Posts!Next
  <2>3. UNCHANGED postVars \/ Posts!Next
    BY DEF PartsNext, Moves
  <2>. QED
    BY <2>1, <2>2, <2>3
<1>3. PostsInv => PostsFollowAccount
  BY DEF PostsInv, NothingLost, PostsFollowAccount, Posts!RepeatedOnlyAfterFault
<1>. QED
  BY <1>1, <1>2, <1>3, PTL DEF PartsSpec

-----------------------------------------------------------------------------
(* Outage notices (OutageNotices) *)

NoticeRows == 1 .. Len(notices)
\* A notice belongs to the outage it was created in; while it is pending that outage
\* goes on, or it was being sent when it ended; it is posted only once it is done.
NoticeHolds(row) ==
  /\ row.outage < row.created /\ row.outage <= since /\ row.created <= tried
  /\ row.created > since => row.outage = since
  /\ row.status \in Outage!Pending =>
       /\ ~row.posted /\ (row.outage = since \/ row.late)
       /\ ~failing \/ ~server.linked => row.late
  /\ row.status \notin Outage!Pending => row.done # Outage!Never

OutageClock ==
  /\ now \in 0 .. OutageHorizon /\ {tried, since} \subseteq -1 .. OutageHorizon
  /\ since <= tried /\ tried <= now
  /\ failing \in BOOLEAN /\ server \in [linked : BOOLEAN, active : BOOLEAN]
OutageInv ==
  /\ OutageClock
  /\ notices \in Seq(Outage!Notice) /\ recoveries \in Seq(Outage!Recovery)
  /\ \A i \in NoticeRows : NoticeHolds(notices[i])
  /\ \A i \in 1 .. (Len(notices) - 1) : notices[i].status \notin Outage!Pending
  /\ Outage!OneNoticeADay /\ Outage!RecoveryWasAnnounced

\* What may become of a row: it keeps its outage, and when it has ended, everything.
Moved(old, new) ==
  /\ new.created = old.created /\ new.outage = old.outage
  /\ (old.posted => new.posted) /\ (old.late => new.late)
  /\ old.status \notin Outage!Pending => new = old

LEMMA OutageConstants ==
  /\ OutageHorizon \in Nat /\ Hold \in Nat /\ Day \in Nat \ {0} /\ Outage!Never = -1
BY OutageAssumption DEF Outage!ConstantsOK, Outage!Never

LEMMA OutageStart == Outage!Init => OutageInv
<1>. SUFFICES ASSUME Outage!Init PROVE OutageInv
  OBVIOUS
<1>1. now = 0 /\ tried = -1 /\ since = -1 /\ failing = FALSE /\ server = [linked |-> TRUE, active |-> TRUE]
      /\ notices = <<>> /\ recoveries = <<>>
  BY OutageConstants DEF Outage!Init
<1>2. 0 \in 0 .. OutageHorizon /\ -1 \in -1 .. OutageHorizon
  BY OutageConstants
<1>3. OutageClock
  <2>1. since <= tried /\ tried <= now
    BY <1>1
  <2>2. server \in [linked : BOOLEAN, active : BOOLEAN] /\ failing \in BOOLEAN
    BY <1>1
  <2>3. {tried, since} \subseteq -1 .. OutageHorizon /\ now \in 0 .. OutageHorizon
    BY <1>1, <1>2
  <2>. QED
    BY <2>1, <2>2, <2>3 DEF OutageClock
<1>4. Len(notices) = 0 /\ Len(recoveries) = 0
  BY <1>1
<1>. QED
  BY <1>1, <1>3, <1>4 DEF OutageInv, NoticeRows, Outage!OneNoticeADay, Outage!RecoveryWasAnnounced, Outage!Rows

\* Rows that move, and recovery lines that are about an announced outage.
LEMMA RowsMove ==
  ASSUME OutageInv, OutageClock', notices' \in Seq(Outage!Notice), Len(notices') = Len(notices),
         \A i \in NoticeRows : Moved(notices[i], notices'[i]) /\ NoticeHolds(notices[i])',
         recoveries' \in Seq(Outage!Recovery),
         \A i \in 1 .. Len(recoveries') :
           \/ \E k \in 1 .. Len(recoveries) : recoveries'[i].outage = recoveries[k].outage
           \/ \E n \in NoticeRows : /\ notices'[n].outage = recoveries'[i].outage
                                    /\ notices'[n].posted \/ notices'[n].late
  PROVE  OutageInv'
<1>1. NoticeRows' = NoticeRows /\ Len(notices) \in Nat
  BY DEF NoticeRows, OutageInv
<1>2. \A i \in 1 .. (Len(notices') - 1) : i \in NoticeRows /\ notices'[i].status \notin Outage!Pending
  BY <1>1 DEF NoticeRows, OutageInv, Moved
<1>3. Outage!OneNoticeADay'
  <2>1. SUFFICES ASSUME NEW i \in NoticeRows, NEW j \in NoticeRows, i < j, notices'[i].outage = notices'[j].outage
                 PROVE  notices'[i].done # Outage!Never /\ notices'[j].created >= notices'[i].done + Day
    BY <1>1 DEF Outage!OneNoticeADay, Outage!Rows, NoticeRows
  <2>2. i \in 1 .. (Len(notices) - 1)
    BY <1>1, <2>1 DEF NoticeRows
  <2>3. notices'[i] = notices[i] /\ notices'[j].created = notices[j].created /\ notices'[j].outage = notices[j].outage
    BY <2>2 DEF Moved, OutageInv
  <2>4. notices[i].done # Outage!Never /\ notices[j].created >= notices[i].done + Day
    BY <2>1, <2>3 DEF OutageInv, Outage!OneNoticeADay, Outage!Rows, NoticeRows
  <2>. QED
    BY <2>3, <2>4
<1>4. Outage!RecoveryWasAnnounced'
  <2>1. SUFFICES ASSUME NEW i \in 1 .. Len(recoveries')
                 PROVE  \E n \in NoticeRows : /\ notices'[n].outage = recoveries'[i].outage
                                              /\ notices'[n].posted \/ notices'[n].late
    BY <1>1 DEF Outage!RecoveryWasAnnounced, Outage!Rows, NoticeRows
  <2>2. ASSUME NEW k \in 1 .. Len(recoveries), recoveries'[i].outage = recoveries[k].outage
        PROVE  \E n \in NoticeRows : /\ notices'[n].outage = recoveries'[i].outage
                                     /\ notices'[n].posted \/ notices'[n].late
    <3>1. PICK n \in NoticeRows : notices[n].outage = recoveries[k].outage /\ (notices[n].posted \/ notices[n].late)
      BY DEF OutageInv, Outage!RecoveryWasAnnounced, Outage!Rows, NoticeRows
    <3>2. notices'[n].outage = recoveries'[i].outage /\ (notices'[n].posted \/ notices'[n].late)
      BY <2>2, <3>1 DEF Moved
    <3>. QED
      BY <3>2
  <2>. QED
    BY <2>2
<1>. QED
  BY <1>1, <1>2, <1>3, <1>4 DEF OutageInv

\* A step of one row; the clock and the outage stay.
LEMMA RowKeeps ==
  ASSUME OutageInv, NEW i \in NoticeRows, NEW row \in Outage!Notice, Outage!Put(i, row),
         Moved(notices[i], row), notices[i].status \in Outage!Pending,
         row.status \in Outage!Pending => ~row.posted /\ row.late = notices[i].late,
         row.status \notin Outage!Pending => row.done # Outage!Never,
         UNCHANGED <<now, tried, since, failing, server, recoveries>>
  PROVE  OutageInv'
<1>1. notices' = [notices EXCEPT ![i] = row] /\ notices \in Seq(Outage!Notice)
  BY DEF Outage!Put, OutageInv
<1>2. /\ notices' \in Seq(Outage!Notice) /\ Len(notices') = Len(notices) /\ notices'[i] = row
      /\ \A j \in NoticeRows \ {i} : notices'[j] = notices[j]
  BY <1>1 DEF NoticeRows
<1>3. ASSUME NEW j \in NoticeRows
      PROVE  Moved(notices[j], notices'[j]) /\ NoticeHolds(notices[j])'
  <2>1. NoticeHolds(notices[j])
    BY DEF OutageInv
  <2>2. CASE j = i
    BY <1>2, <2>1, <2>2 DEF NoticeHolds, Moved
  <2>3. CASE j # i
    BY <1>2, <2>1, <2>3 DEF NoticeHolds, Moved
  <2>. QED
    BY <2>2, <2>3
<1>4. OutageClock'
  BY DEF OutageInv, OutageClock
<1>. QED
  BY <1>2, <1>3, <1>4, RowsMove DEF OutageInv

\* A row of which a few fields change.
LEMMA NoticeChanges ==
  ASSUME NEW row \in Outage!Notice, NEW next \in Outage!Statuses, NEW due \in Nat,
         NEW done \in -1 .. OutageHorizon, NEW posted \in BOOLEAN
  PROVE  /\ [row EXCEPT !.status = next, !.done = done, !.posted = posted] \in Outage!Notice
         /\ [row EXCEPT !.status = next, !.due = due, !.done = done] \in Outage!Notice
         /\ [row EXCEPT !.status = next, !.done = done] \in Outage!Notice
         /\ [row EXCEPT !.status = next] \in Outage!Notice
         /\ [row EXCEPT !.late = TRUE] \in Outage!Notice
<1>. DEFINE Dates == -1 .. OutageHorizon
            Ticks == 0 .. OutageHorizon
<1>1. Outage!Notice = [created : Ticks, due : Nat, status : Outage!Statuses, done : Dates,
                       posted : BOOLEAN, outage : Dates, late : BOOLEAN]
  BY DEF Outage!Notice
<1>2. done \in Dates
  OBVIOUS
<1>. HIDE DEF Dates, Ticks
<1>. QED
  BY <1>1, <1>2

LEMMA DeliveriesKeep ==
  ASSUME OutageInv, NEW i \in NoticeRows,
         Outage!Send(i) \/ Outage!Delivered(i) \/ Outage!Undelivered(i) \/ Outage!Resume(i)
  PROVE  OutageInv'
<1>1. notices[i] \in Outage!Notice /\ NoticeHolds(notices[i]) /\ now \in 0 .. OutageHorizon
  BY DEF OutageInv, OutageClock, NoticeRows
<1>2. notices[i].status \in Outage!Pending /\ UNCHANGED <<now, tried, since, failing, server, recoveries>>
  BY DEF Outage!Send, Outage!Delivered, Outage!Undelivered, Outage!Resume, Outage!Pending
<1>3. OutageHorizon \in Nat /\ Outage!Never = -1
  BY OutageConstants
<1>4. CASE Outage!Send(i) \/ Outage!Resume(i)
  <2>1. ASSUME NEW next \in {"running", "queued"}, Outage!Put(i, [notices[i] EXCEPT !.status = next])
        PROVE  OutageInv'
    <3>. DEFINE row == [notices[i] EXCEPT !.status = next]
    <3>1. /\ row \in Outage!Notice /\ row.status \in Outage!Pending /\ row.posted = notices[i].posted
          /\ row.late = notices[i].late /\ row.created = notices[i].created /\ row.outage = notices[i].outage
      BY <1>1 DEF Outage!Notice, Outage!Statuses, Outage!Pending
    <3>2. Outage!Put(i, row)
      BY <2>1
    <3>. HIDE DEF row
    <3>3. Moved(notices[i], row) /\ ~row.posted
      BY <1>1, <1>2, <3>1 DEF Moved, NoticeHolds
    <3>. QED
      BY <1>2, <3>1, <3>2, <3>3, RowKeeps
  <2>. QED
    BY <1>4, <2>1 DEF Outage!Send, Outage!Resume
<1>5. CASE Outage!Delivered(i)
  <2>1. PICK posted \in BOOLEAN : Outage!Put(i, [Outage!Finished(notices[i]) EXCEPT !.posted = posted])
    BY <1>5 DEF Outage!Delivered
  <2>. DEFINE row == [notices[i] EXCEPT !.status = "succeeded", !.done = now, !.posted = posted]
  <2>2. /\ row \in Outage!Notice /\ row.status \notin Outage!Pending /\ row.done = now
        /\ row.late = notices[i].late /\ row.created = notices[i].created /\ row.outage = notices[i].outage
    <3>1. now \in -1 .. OutageHorizon /\ "succeeded" \in Outage!Statuses
      BY <1>1, <1>3 DEF Outage!Statuses
    <3>2. row \in Outage!Notice
      BY <1>1, <3>1, NoticeChanges, Zenon
    <3>. QED
      BY <1>1, <3>2 DEF Outage!Notice, Outage!Pending
  <2>3. Outage!Put(i, row)
    <3>1. row = [Outage!Finished(notices[i]) EXCEPT !.posted = posted]
      BY <1>1 DEF Outage!Finished, Outage!Notice
    <3>. QED
      BY <2>1, <3>1
  <2>. HIDE DEF row
  <2>4. Moved(notices[i], row) /\ row.done # Outage!Never
    BY <1>1, <1>2, <1>3, <2>2 DEF Moved, NoticeHolds
  <2>. QED
    BY <1>2, <2>2, <2>3, <2>4, RowKeeps
<1>6. CASE Outage!Undelivered(i)
  <2>1. PICK next \in {"queued", "blocked", "disabled", "failed"} :
          Outage!Put(i, [notices[i] EXCEPT !.status = next, !.due = now,
                                           !.done = IF next = "failed" THEN now ELSE Outage!Never])
    BY <1>6 DEF Outage!Undelivered
  <2>2. PICK done \in -1 .. OutageHorizon : done = IF next = "failed" THEN now ELSE Outage!Never
    BY <1>1, <1>3
  <2>. DEFINE row == [notices[i] EXCEPT !.status = next, !.due = now, !.done = done]
  <2>3. /\ row \in Outage!Notice /\ row.status = next /\ row.done = done /\ row.posted = notices[i].posted
        /\ row.late = notices[i].late /\ row.created = notices[i].created /\ row.outage = notices[i].outage
    <3>1. next \in Outage!Statuses /\ now \in Nat
      BY <1>1, <1>3 DEF Outage!Statuses, Outage!Pending
    <3>2. row \in Outage!Notice
      BY <1>1, <2>2, <3>1, NoticeChanges, Zenon
    <3>. QED
      BY <1>1, <3>2 DEF Outage!Notice
  <2>4. Outage!Put(i, row)
    BY <2>1, <2>2
  <2>. HIDE DEF row
  <2>5. Moved(notices[i], row) /\ ~row.posted /\ (row.status \notin Outage!Pending => row.done # Outage!Never)
    BY <1>1, <1>2, <1>3, <2>2, <2>3 DEF Moved, NoticeHolds, Outage!Pending
  <2>. QED
    BY <1>2, <2>3, <2>4, <2>5, RowKeeps
<1>. QED
  BY <1>4, <1>5, <1>6

\* closeUnstarted() ends every waiting notice and marks the one that is being sent.
LEMMA ClosedMoves ==
  ASSUME OutageInv, server.linked, NEW i \in NoticeRows
  PROVE  /\ Outage!ClosedAll[i] \in Outage!Notice /\ Moved(notices[i], Outage!ClosedAll[i])
         /\ Outage!ClosedAll[i].status \in Outage!Pending =>
              Outage!ClosedAll[i].late /\ ~Outage!ClosedAll[i].posted
         /\ Outage!ClosedAll[i].status \notin Outage!Pending => Outage!ClosedAll[i].done # Outage!Never
         /\ Outage!ClosedAll[i].posted = notices[i].posted
<1>1. notices[i] \in Outage!Notice /\ NoticeHolds(notices[i]) /\ now \in 0 .. OutageHorizon
  BY DEF OutageInv, OutageClock, NoticeRows
<1>2. Outage!ClosedAll[i] = Outage!Closed(notices[i])
  BY DEF Outage!ClosedAll, Outage!Rows, NoticeRows
<1>3. CASE notices[i].status \in Outage!Unstarted
  <2>1. Outage!ClosedAll[i] = [notices[i] EXCEPT !.status = "succeeded", !.done = now]
    <3>1. Outage!Closed(notices[i]) = Outage!Finished(notices[i])
      BY <1>3 DEF Outage!Closed, Outage!Unstarted
    <3>. QED
      BY <1>1, <1>2, <3>1 DEF Outage!Finished, Outage!Notice
  <2>2. now \in -1 .. OutageHorizon /\ now # -1 /\ "succeeded" \in Outage!Statuses
    BY <1>1, OutageConstants DEF Outage!Statuses
  <2>3. Outage!ClosedAll[i] \in Outage!Notice
    <3>1. [notices[i] EXCEPT !.status = "succeeded", !.done = now] \in Outage!Notice
      <4>1. notices[i] \in Outage!Notice /\ 0 \in Nat /\ TRUE \in BOOLEAN
        BY <1>1
      <4>. QED
        BY <2>2, <4>1, NoticeChanges, Zenon
    <3>. QED
      BY <2>1, <3>1
  <2>4. /\ Outage!ClosedAll[i].status = "succeeded" /\ Outage!ClosedAll[i].done = now
        /\ Outage!ClosedAll[i].created = notices[i].created /\ Outage!ClosedAll[i].outage = notices[i].outage
        /\ Outage!ClosedAll[i].posted = notices[i].posted /\ Outage!ClosedAll[i].late = notices[i].late
    BY <1>1, <2>1 DEF Outage!Notice
  <2>5. "succeeded" \notin Outage!Pending /\ notices[i].status \in Outage!Pending
    BY <1>3 DEF Outage!Pending, Outage!Unstarted
  <2>. QED
    BY <2>2, <2>3, <2>4, <2>5, OutageConstants DEF Moved
<1>4. CASE notices[i].status = "running"
  <2>1. Outage!ClosedAll[i] = [notices[i] EXCEPT !.late = TRUE]
    BY <1>2, <1>4 DEF Outage!Closed, Outage!Unstarted
  <2>. QED
    BY <1>1, <1>4, <2>1 DEF Outage!Notice, Outage!Pending, Moved, NoticeHolds
<1>5. CASE notices[i].status \notin Outage!Unstarted /\ notices[i].status # "running"
  <2>1. Outage!ClosedAll[i] = notices[i] /\ notices[i].status \notin Outage!Pending
    BY <1>2, <1>5 DEF Outage!Closed, Outage!Unstarted, Outage!Pending
  <2>. QED
    BY <1>1, <2>1 DEF Moved, NoticeHolds
<1>. QED
  BY <1>3, <1>4, <1>5

\* The steps that change no notice and no recovery line.
LEMMA ClockKeeps ==
  ASSUME OutageInv, OutageClock', UNCHANGED <<since, notices, recoveries>>, tried <= tried',
         \/ failing' = failing /\ server'.linked = server.linked
         \/ failing' = TRUE /\ server' = server
         \/ failing' = failing /\ server'.linked = TRUE
  PROVE  OutageInv'
<1>1. ASSUME NEW i \in NoticeRows
      PROVE  Moved(notices[i], notices'[i]) /\ NoticeHolds(notices[i])'
  <2>1. NoticeHolds(notices[i]) /\ notices[i] \in Outage!Notice
    BY DEF OutageInv, NoticeRows
  <2>2. notices[i].created <= tried'
    <3>1. notices[i].created \in 0 .. OutageHorizon
      BY <2>1 DEF Outage!Notice
    <3>2. notices[i].created <= tried /\ tried \in Int /\ tried' \in Int
      BY <2>1 DEF NoticeHolds, OutageInv, OutageClock
    <3>. QED
      BY <3>1, <3>2
  <2>. QED
    BY <2>1, <2>2 DEF NoticeHolds, Moved
<1>. QED
  BY <1>1, RowsMove DEF OutageInv

LEMMA WaitsKeep ==
  ASSUME OutageInv, Outage!WaitsOrDies \/ Outage!LinkAgain \/ Outage!LeaveOrReturn \/ Outage!Tick
  PROVE  OutageInv'
<1>1. OutageHorizon \in Nat /\ OutageClock
  BY OutageConstants DEF OutageInv
<1>2. CASE Outage!WaitsOrDies
  <2>1. tried < now /\ tried' = now /\ failing' = TRUE /\ UNCHANGED <<now, since, server, notices, recoveries>>
    BY <1>1, <1>2 DEF Outage!WaitsOrDies, Outage!Attempt, OutageClock
  <2>2. OutageClock' /\ tried <= tried'
    BY <1>1, <2>1 DEF OutageClock
  <2>. QED
    BY <2>1, <2>2, ClockKeeps
<1>3. CASE Outage!LinkAgain
  <2>1. server' = [server EXCEPT !.linked = TRUE] /\ UNCHANGED <<now, tried, since, failing, notices, recoveries>>
    BY <1>3 DEF Outage!LinkAgain
  <2>2. server' \in [linked : BOOLEAN, active : BOOLEAN] /\ server'.linked = TRUE
    <3>1. server \in [linked : BOOLEAN, active : BOOLEAN]
      BY <1>1 DEF OutageClock
    <3>. QED
      BY <2>1, <3>1
  <2>3. OutageClock' /\ tried <= tried'
    BY <1>1, <2>1, <2>2 DEF OutageClock
  <2>. QED
    BY <2>1, <2>2, <2>3, ClockKeeps
<1>4. CASE Outage!LeaveOrReturn
  <2>1. server' = [server EXCEPT !.active = ~server.active] /\ UNCHANGED <<now, tried, since, failing, notices, recoveries>>
    BY <1>4 DEF Outage!LeaveOrReturn
  <2>2. server' \in [linked : BOOLEAN, active : BOOLEAN] /\ server'.linked = server.linked
    <3>1. PICK b \in BOOLEAN : b = ~server.active
      OBVIOUS
    <3>2. server' = [server EXCEPT !.active = b]
      BY <2>1, <3>1
    <3>. QED
      BY <1>1, <3>2 DEF OutageClock
  <2>3. OutageClock' /\ tried <= tried'
    BY <1>1, <2>1, <2>2 DEF OutageClock
  <2>. QED
    BY <2>1, <2>2, <2>3, ClockKeeps
<1>5. CASE Outage!Tick
  <2>1. now < OutageHorizon /\ now' = now + 1 /\ UNCHANGED <<tried, since, failing, server, notices, recoveries>>
    BY <1>5 DEF Outage!Tick
  <2>2. OutageClock' /\ tried <= tried'
    BY <1>1, <2>1 DEF OutageClock
  <2>. QED
    BY <2>1, <2>2, ClockKeeps
<1>. QED
  BY <1>2, <1>3, <1>4, <1>5

LEMMA UnlinkKeeps ==
  ASSUME OutageInv, Outage!Unlink
  PROVE  OutageInv'
<1>1. /\ server.linked /\ server' = [server EXCEPT !.linked = FALSE] /\ notices' = Outage!ClosedAll
      /\ UNCHANGED <<now, tried, since, failing, recoveries>>
  BY DEF Outage!Unlink
<1>2. OutageClock'
  <2>1. OutageClock
    BY DEF OutageInv
  <2>2. server' \in [linked : BOOLEAN, active : BOOLEAN]
    BY <1>1, <2>1 DEF OutageClock
  <2>. QED
    BY <1>1, <2>1, <2>2 DEF OutageClock
<1>3. Len(notices) \in Nat
  BY DEF OutageInv
<1>4. notices' \in Seq(Outage!Notice) /\ Len(notices') = Len(notices)
  <2>1. notices' = [i \in 1 .. Len(notices) |-> Outage!ClosedAll[i]]
    BY <1>1 DEF Outage!ClosedAll, Outage!Rows
  <2>2. \A i \in 1 .. Len(notices) : Outage!ClosedAll[i] \in Outage!Notice
    BY <1>1, ClosedMoves DEF NoticeRows
  <2>. QED
    BY <1>3, <2>1, <2>2
<1>5. ASSUME NEW i \in NoticeRows
      PROVE  Moved(notices[i], notices'[i]) /\ NoticeHolds(notices[i])'
  <2>1. NoticeHolds(notices[i])
    BY DEF OutageInv
  <2>2. /\ Moved(notices[i], notices'[i])
        /\ notices'[i].status \in Outage!Pending => notices'[i].late /\ ~notices'[i].posted
        /\ notices'[i].status \notin Outage!Pending => notices'[i].done # Outage!Never
    BY <1>1, ClosedMoves
  <2>. QED
    BY <1>1, <2>1, <2>2 DEF NoticeHolds, Moved
<1>. QED
  BY <1>1, <1>2, <1>4, <1>5, RowsMove DEF OutageInv

\* The accepted roster ends the outage: what waits is closed, what is being sent is late.
LEMMA AcceptedKeeps ==
  ASSUME OutageInv, Outage!Accepted
  PROVE  OutageInv'
<1>1. /\ tried < now /\ tried' = now /\ since' = now /\ failing' = FALSE /\ UNCHANGED <<now, server>>
      /\ OutageClock /\ OutageHorizon \in Nat
  BY OutageConstants DEF Outage!Accepted, Outage!Attempt, OutageInv, OutageClock
<1>2. OutageClock'
  <2>1. now \in -1 .. OutageHorizon /\ now \in 0 .. OutageHorizon /\ now <= now
    BY <1>1 DEF OutageClock
  <2>2. {tried', since'} \subseteq -1 .. OutageHorizon
    BY <1>1, <2>1
  <2>. QED
    BY <1>1, <2>1, <2>2 DEF OutageClock
<1>3. Len(notices) \in Nat /\ notices \in Seq(Outage!Notice)
  BY DEF OutageInv
<1>4. CASE failing /\ server.linked
  <2>1. notices' = Outage!ClosedAll
    BY <1>4 DEF Outage!Accepted
  <2>2. notices' \in Seq(Outage!Notice) /\ Len(notices') = Len(notices)
    <3>1. notices' = [i \in 1 .. Len(notices) |-> Outage!ClosedAll[i]]
      BY <2>1 DEF Outage!ClosedAll, Outage!Rows
    <3>2. \A i \in 1 .. Len(notices) : Outage!ClosedAll[i] \in Outage!Notice
      BY <1>4, ClosedMoves DEF NoticeRows
    <3>. QED
      BY <1>3, <3>1, <3>2
  <2>3. ASSUME NEW i \in NoticeRows
        PROVE  /\ Moved(notices[i], notices'[i]) /\ notices[i] \in Outage!Notice
               /\ notices'[i].status \in Outage!Pending => notices'[i].late /\ ~notices'[i].posted
               /\ notices'[i].status \notin Outage!Pending => notices'[i].done # Outage!Never
               /\ NoticeHolds(notices[i])
    BY <1>4, <2>1, ClosedMoves DEF OutageInv, NoticeRows
  <2>4. ASSUME NEW i \in NoticeRows PROVE NoticeHolds(notices[i])'
    <3>1. /\ notices'[i].created = notices[i].created /\ notices'[i].outage = notices[i].outage
          /\ notices[i].created \in 0 .. OutageHorizon /\ notices[i].outage \in -1 .. OutageHorizon
      BY <2>3 DEF Moved, Outage!Notice
    <3>2. notices[i].outage < notices[i].created /\ notices[i].outage <= since /\ notices[i].created <= tried
      BY <2>3 DEF NoticeHolds
    <3>3. now \in Int /\ tried \in Int /\ since \in Int /\ since <= tried
      BY <1>1 DEF OutageClock
    <3>4. notices[i].outage <= now /\ notices[i].created <= now /\ ~(notices[i].created > now)
      BY <1>1, <3>1, <3>2, <3>3
    <3>. QED
      BY <1>1, <2>3, <3>1, <3>2, <3>4 DEF NoticeHolds
  <2>5. /\ recoveries' \in Seq(Outage!Recovery)
        /\ \A i \in 1 .. Len(recoveries') :
             \/ \E k \in 1 .. Len(recoveries) : recoveries'[i].outage = recoveries[k].outage
             \/ \E n \in NoticeRows : /\ notices'[n].outage = recoveries'[i].outage
                                      /\ notices'[n].posted \/ notices'[n].late
    <3>1. CASE recoveries' = recoveries
      BY <3>1 DEF OutageInv
    <3>2. CASE recoveries' # recoveries
      <4>1. recoveries' = Outage!RecoveryAsked
        BY <1>4, <3>2 DEF Outage!Accepted
      <4>2. PICK n \in NoticeRows : Outage!Heard(Outage!ClosedAll[n])
        BY <1>4, <3>2 DEF Outage!Accepted, NoticeRows, Outage!Rows
      <4>3. notices'[n].outage = since
        <5>1. (since # Outage!Never => notices'[n].created > since) /\ Moved(notices[n], notices'[n])
          BY <2>1, <2>3, <4>2 DEF Outage!Heard
        <5>2. notices[n].created \in 0 .. OutageHorizon /\ Outage!Never = -1 /\ since \in Int
              /\ (notices[n].created > since => notices[n].outage = since)
          BY <1>1, <2>3, OutageConstants DEF Outage!Notice, NoticeHolds, OutageClock
        <5>3. since = Outage!Never => notices[n].created > since
          BY <5>2
        <5>. QED
          BY <5>1, <5>2, <5>3 DEF Moved
      <4>4. notices'[n].posted \/ notices'[n].late
        <5>1. notices'[n].posted \/ notices'[n].status = "running"
          BY <2>1, <4>2 DEF Outage!Heard
        <5>. QED
          BY <2>3, <5>1 DEF Outage!Pending
      <4>5. recoveries \in Seq(Outage!Recovery) /\ Len(recoveries) \in Nat /\ since \in -1 .. OutageHorizon
        BY <1>1 DEF OutageInv, OutageClock
      <4>6. CASE recoveries' = [recoveries EXCEPT ![Len(recoveries)].again = TRUE] /\ Len(recoveries) > 0
        <5>. DEFINE l == Len(recoveries)
                    q == [recoveries[l] EXCEPT !.again = TRUE]
        <5>1. l \in 1 .. l /\ recoveries[l] \in Outage!Recovery
          BY <4>5, <4>6
        <5>2. q \in Outage!Recovery /\ q.outage = recoveries[l].outage
          BY <5>1 DEF Outage!Recovery
        <5>3. recoveries' = [recoveries EXCEPT ![l] = q]
          BY <4>6
        <5>. HIDE DEF q
        <5>4. /\ recoveries' \in Seq(Outage!Recovery) /\ Len(recoveries') = l
              /\ \A i \in 1 .. l : recoveries'[i].outage = recoveries[i].outage
          BY <4>5, <5>1, <5>2, <5>3
        <5>. QED
          BY <5>4
      <4>7. CASE recoveries' = Append(recoveries, [outage |-> since, status |-> "queued", again |-> FALSE])
        <5>. DEFINE l == Len(recoveries)
                    q == [outage |-> since, status |-> "queued", again |-> FALSE]
        <5>1. q \in Outage!Recovery /\ q.outage = since
          BY <4>5 DEF Outage!Recovery
        <5>2. recoveries' = Append(recoveries, q)
          BY <4>7
        <5>. HIDE DEF q
        <5>3. /\ recoveries' \in Seq(Outage!Recovery) /\ Len(recoveries') = l + 1 /\ recoveries'[l + 1] = q
              /\ \A i \in 1 .. l : recoveries'[i] = recoveries[i]
          BY <4>5, <5>1, <5>2
        <5>4. ASSUME NEW i \in 1 .. Len(recoveries')
              PROVE  \/ \E k \in 1 .. Len(recoveries) : recoveries'[i].outage = recoveries[k].outage
                     \/ \E m \in NoticeRows : /\ notices'[m].outage = recoveries'[i].outage
                                              /\ notices'[m].posted \/ notices'[m].late
          <6>1. CASE i = l + 1
            BY <4>3, <4>4, <5>1, <5>3, <6>1
          <6>2. CASE i # l + 1
            <7>1. i \in 1 .. Len(recoveries) /\ recoveries'[i] = recoveries[i]
              BY <4>5, <5>3, <6>2
            <7>. QED
              BY <7>1
          <6>. QED
            BY <6>1, <6>2
        <5>. QED
          BY <5>3, <5>4
      <4>. QED
        BY <3>2, <4>1, <4>6, <4>7 DEF Outage!RecoveryAsked
    <3>. QED
      BY <3>1, <3>2
  <2>. QED
    BY <1>2, <2>2, <2>3, <2>4, <2>5, RowsMove
<1>5. CASE ~failing \/ ~server.linked
  <2>1. notices' = notices /\ recoveries' = recoveries
    <3>1. CASE ~failing
      BY <3>1 DEF Outage!Accepted
    <3>2. CASE failing
      <4>1. notices' = Outage!ClosedAll /\ recoveries' = recoveries
        BY <1>5, <3>2 DEF Outage!Accepted, Outage!Served
      <4>2. Outage!ClosedAll = [i \in 1 .. Len(notices) |-> notices[i]]
        BY <1>5, <3>2 DEF Outage!ClosedAll, Outage!Rows
      <4>. QED
        BY <1>3, <4>1, <4>2
    <3>. QED
      BY <3>1, <3>2
  <2>2. ASSUME NEW i \in NoticeRows
        PROVE  Moved(notices[i], notices'[i]) /\ NoticeHolds(notices[i])'
    <3>1. NoticeHolds(notices[i]) /\ notices[i] \in Outage!Notice
      BY DEF OutageInv, NoticeRows
    <3>2. notices[i].created \in Int /\ notices[i].outage \in Int
      BY <3>1 DEF Outage!Notice
    <3>3. now \in Int /\ tried \in Int /\ since \in Int /\ since <= tried
      BY <1>1 DEF OutageClock
    <3>4. notices[i].outage <= now /\ notices[i].created <= now /\ ~(notices[i].created > now)
      BY <1>1, <3>1, <3>2, <3>3 DEF NoticeHolds
    <3>. QED
      BY <1>1, <1>5, <2>1, <3>1, <3>4 DEF NoticeHolds, Moved
  <2>. QED
    BY <1>2, <1>3, <2>1, <2>2, RowsMove DEF OutageInv
<1>. QED
  BY <1>4, <1>5

\* A failure that officers are told of only when no row says that they were.
LEMMA FailsKeeps ==
  ASSUME OutageInv, Outage!Fails
  PROVE  OutageInv'
<1>1. /\ tried < now /\ tried' = now /\ failing' = TRUE /\ UNCHANGED <<now, since, server, recoveries>>
      /\ OutageClock /\ OutageHorizon \in Nat /\ Hold \in Nat /\ Day \in Nat \ {0} /\ Outage!Never = -1
  BY OutageConstants DEF Outage!Fails, Outage!Attempt, OutageInv, OutageClock
<1>2. OutageClock' /\ tried <= tried' /\ now \in Nat
  BY <1>1 DEF OutageClock
<1>3. CASE notices' = notices
  BY <1>1, <1>2, <1>3, ClockKeeps
<1>4. CASE notices' # notices
  <2>. DEFINE l == Len(notices)
  <2>0. PICK q : q = [created |-> now, due |-> now + Hold, status |-> "queued", done |-> Outage!Never,
                      posted |-> FALSE, outage |-> since, late |-> FALSE]
    OBVIOUS
  <2>1. notices' = Append(notices, q) /\ server.linked /\ \A i \in NoticeRows : ~Outage!Told(notices[i])
    BY <1>4, <2>0 DEF Outage!Fails, NoticeRows, Outage!Rows, Outage!Served
  <2>2. q \in Outage!Notice /\ q.created = now /\ q.status = "queued" /\ ~q.posted /\ q.outage = since
    <3>1. /\ now \in 0 .. OutageHorizon /\ now + Hold \in Nat /\ Outage!Never \in -1 .. OutageHorizon
          /\ since \in -1 .. OutageHorizon /\ "queued" \in Outage!Statuses
      BY <1>1, <1>2 DEF OutageClock, Outage!Statuses, Outage!Pending
    <3>. QED
      BY <2>0, <3>1 DEF Outage!Notice
  <2>3. /\ notices' \in Seq(Outage!Notice) /\ Len(notices') = l + 1 /\ notices'[l + 1] = q /\ l \in Nat
        /\ \A i \in 1 .. l : notices'[i] = notices[i]
    BY <2>1, <2>2 DEF OutageInv
  <2>4. NoticeRows' = 1 .. (l + 1) /\ NoticeRows = 1 .. l
    BY <2>3 DEF NoticeRows
  <2>5. ASSUME NEW i \in NoticeRows
        PROVE  /\ notices[i].status \notin Outage!Pending /\ notices[i].done # Outage!Never
               /\ notices[i].outage = since => now >= notices[i].done + Day
    <3>1. NoticeHolds(notices[i]) /\ notices[i] \in Outage!Notice /\ ~Outage!Told(notices[i])
      BY <2>1 DEF OutageInv, NoticeRows
    <3>2. notices[i].status \notin Outage!Pending /\ notices[i].done # Outage!Never
      BY <3>1 DEF Outage!Told, NoticeHolds
    <3>3. notices[i].outage = since => notices[i].created > since
      BY <3>1 DEF NoticeHolds
    <3>4. notices[i].outage = since => ~(notices[i].done > now - Day)
      BY <3>1, <3>2, <3>3 DEF Outage!Told
    <3>5. notices[i].done \in Int
      BY <3>1 DEF Outage!Notice
    <3>. QED
      BY <1>1, <1>2, <3>2, <3>4, <3>5
  <2>6. NoticeHolds(q)'
    <3>1. since \in Int /\ since <= now /\ since < now
      BY <1>1, <1>2 DEF OutageClock
    <3>. QED
      BY <1>1, <1>2, <2>1, <2>2, <3>1 DEF NoticeHolds, Outage!Pending
  <2>7. ASSUME NEW i \in 1 .. l PROVE NoticeHolds(notices[i])'
    <3>1. NoticeHolds(notices[i]) /\ notices[i] \in Outage!Notice
      BY <2>4 DEF OutageInv, NoticeRows
    <3>2. notices[i].created <= now
      <4>1. notices[i].created \in Int /\ notices[i].created <= tried /\ tried \in Int
        BY <1>1, <3>1 DEF Outage!Notice, NoticeHolds, OutageClock
      <4>. QED
        BY <1>1, <1>2, <4>1
    <3>. QED
      BY <1>1, <2>3, <3>1, <3>2 DEF NoticeHolds
  <2>8. ASSUME NEW i \in NoticeRows' PROVE i = l + 1 \/ i \in 1 .. l
    BY <2>3, <2>4
  <2>9. \A i \in NoticeRows' : NoticeHolds(notices[i])'
    <3>1. ASSUME NEW i \in NoticeRows', i = l + 1 PROVE NoticeHolds(notices[i])'
      BY <2>3, <2>6, <3>1 DEF NoticeHolds
    <3>. QED
      BY <2>7, <2>8, <3>1
  <2>10. \A i \in 1 .. (Len(notices') - 1) : notices'[i].status \notin Outage!Pending
    BY <2>3, <2>4, <2>5
  <2>11. Outage!OneNoticeADay'
    <3>1. ASSUME NEW i \in 1 .. (l + 1), NEW j \in 1 .. (l + 1), i < j, notices'[i].outage = notices'[j].outage
          PROVE  notices'[i].done # Outage!Never /\ notices'[j].created >= notices'[i].done + Day
      <4>1. i \in 1 .. l /\ notices'[i] = notices[i]
        BY <2>3, <3>1
      <4>2. CASE j = l + 1
        BY <2>2, <2>3, <2>4, <2>5, <3>1, <4>1, <4>2
      <4>3. CASE j # l + 1
        <5>1. j \in 1 .. l /\ notices'[j] = notices[j]
          BY <2>3, <4>3
        <5>. QED
          BY <3>1, <4>1, <5>1 DEF OutageInv, Outage!OneNoticeADay, Outage!Rows
      <4>. QED
        BY <4>2, <4>3
    <3>. QED
      BY <2>3, <3>1 DEF Outage!OneNoticeADay, Outage!Rows
  <2>12. Outage!RecoveryWasAnnounced'
    <3>1. ASSUME NEW k \in 1 .. Len(recoveries)
          PROVE  \E n \in 1 .. (l + 1) : /\ notices'[n].outage = recoveries[k].outage
                                         /\ notices'[n].posted \/ notices'[n].late
      <4>1. PICK n \in 1 .. l : notices[n].outage = recoveries[k].outage /\ (notices[n].posted \/ notices[n].late)
        BY DEF OutageInv, Outage!RecoveryWasAnnounced, Outage!Rows
      <4>2. n \in 1 .. (l + 1) /\ notices'[n] = notices[n]
        BY <2>3
      <4>. QED
        BY <4>1, <4>2
    <3>. QED
      BY <1>1, <2>3, <3>1 DEF Outage!RecoveryWasAnnounced, Outage!Rows
  <2>. QED
    BY <1>1, <1>2, <2>3, <2>9, <2>10, <2>11, <2>12 DEF OutageInv
<1>. QED
  BY <1>3, <1>4

LEMMA RecoveryKeeps ==
  ASSUME OutageInv, Outage!DeliverRecovery
  PROVE  OutageInv'
<1>. DEFINE l == Len(recoveries)
<1>1. /\ recoveries \in Seq(Outage!Recovery) /\ l \in Nat /\ l > 0 /\ l \in 1 .. l
      /\ UNCHANGED <<now, tried, since, failing, server, notices>>
  BY DEF OutageInv, Outage!DeliverRecovery
<1>2. recoveries[l] \in Outage!Recovery
  BY <1>1
<1>3. \E q \in Outage!Recovery : q.outage = recoveries[l].outage /\ recoveries' = [recoveries EXCEPT ![l] = q]
  <2>1. CASE recoveries' = [recoveries EXCEPT ![l].status = "running"]
    <3>1. [recoveries[l] EXCEPT !.status = "running"] \in Outage!Recovery
          /\ [recoveries[l] EXCEPT !.status = "running"].outage = recoveries[l].outage
      BY <1>2 DEF Outage!Recovery
    <3>. QED
      BY <2>1, <3>1
  <2>2. ASSUME NEW next \in {"succeeded", "failed", "queued"},
               recoveries' = [recoveries EXCEPT ![l].again = FALSE, ![l].status = next]
        PROVE  \E q \in Outage!Recovery : q.outage = recoveries[l].outage /\ recoveries' = [recoveries EXCEPT ![l] = q]
    <3>. DEFINE q == [recoveries[l] EXCEPT !.again = FALSE, !.status = next]
    <3>1. q \in Outage!Recovery /\ q.outage = recoveries[l].outage
      BY <1>2 DEF Outage!Recovery
    <3>2. recoveries' = [recoveries EXCEPT ![l] = q]
      BY <1>1, <2>2
    <3>. HIDE DEF q
    <3>. QED
      BY <3>1, <3>2
  <2>3. \/ recoveries' = [recoveries EXCEPT ![l].status = "running"]
        \/ \E next \in {"succeeded", "failed", "queued"} :
             recoveries' = [recoveries EXCEPT ![l].again = FALSE, ![l].status = next]
    BY DEF Outage!DeliverRecovery
  <2>. QED
    BY <2>1, <2>2, <2>3
<1>4. /\ recoveries' \in Seq(Outage!Recovery) /\ Len(recoveries') = l
      /\ \A i \in 1 .. l : recoveries'[i].outage = recoveries[i].outage
  <2>1. PICK q \in Outage!Recovery : q.outage = recoveries[l].outage /\ recoveries' = [recoveries EXCEPT ![l] = q]
    BY <1>3
  <2>. QED
    BY <1>1, <2>1
<1>5. OutageClock' /\ notices' \in Seq(Outage!Notice)
  BY <1>1 DEF OutageInv, OutageClock
<1>6. ASSUME NEW i \in NoticeRows
      PROVE  Moved(notices[i], notices'[i]) /\ NoticeHolds(notices[i])'
  BY <1>1 DEF OutageInv, NoticeHolds, Moved
<1>. QED
  BY <1>1, <1>4, <1>5, <1>6, RowsMove

\* Officers are told once a day, of the outage of that moment, and of an end only when
\* they heard of a beginning, for any hold, any day and any number of outages.
THEOREM OutagesStayTold == PartsSpec => OutagesAreTold
<1>. DEFINE all == <<part, vars, postVars, outageVars, rowVars, gateVars, statusVars, webVars>>
            Fresh == \A i \in Outage!Rows : notices'[i].posted /\ ~notices[i].posted
                       => notices[i].outage = since \/ notices[i].late
<1>1. PartsInit => OutageInv
  BY OutageStart DEF PartsInit
<1>2. [PartsNext]_all => UNCHANGED outageVars \/ Outage!Next
  BY DEF PartsNext, Moves
<1>3. OutageInv /\ [PartsNext]_all => OutageInv'
  <2>. SUFFICES ASSUME OutageInv, [PartsNext]_all PROVE OutageInv'
    OBVIOUS
  <2>1. CASE UNCHANGED outageVars
    BY <2>1 DEF OutageInv, OutageClock, NoticeRows, NoticeHolds, Outage!OneNoticeADay, Outage!Rows,
                Outage!RecoveryWasAnnounced, outageVars
  <2>2. CASE Outage!Next
    <3>1. Outage!Rows = NoticeRows
      BY DEF Outage!Rows, NoticeRows
    <3>. QED
      BY <2>2, <3>1, FailsKeeps, WaitsKeep, AcceptedKeeps, UnlinkKeeps, DeliveriesKeep, RecoveryKeeps DEF Outage!Next
  <2>. QED
    BY <1>2, <2>1, <2>2
<1>4. OutageInv /\ [PartsNext]_all => [Fresh]_(Outage!vars)
  <2>. SUFFICES ASSUME OutageInv, Outage!Next, NEW i \in NoticeRows, notices'[i].posted, ~notices[i].posted
                PROVE  notices[i].outage = since \/ notices[i].late
    BY <1>2 DEF Outage!vars, outageVars, Outage!Rows, NoticeRows
  <2>1. notices \in Seq(Outage!Notice) /\ notices[i] \in Outage!Notice /\ NoticeHolds(notices[i])
    BY DEF OutageInv, NoticeRows
  <2>2. CASE notices[i].status \in Outage!Pending
    BY <2>1, <2>2 DEF NoticeHolds
  <2>3. CASE notices[i].status \notin Outage!Pending
    <3>1. notices'[i] = notices[i]
      <4>1. ASSUME NEW j \in NoticeRows, NEW row, Outage!Put(j, row), j # i PROVE notices'[i] = notices[i]
        BY <2>1, <4>1 DEF Outage!Put, NoticeRows
      <4>2. ASSUME NEW j \in NoticeRows,
                   Outage!Send(j) \/ Outage!Delivered(j) \/ Outage!Undelivered(j) \/ Outage!Resume(j)
            PROVE  notices'[i] = notices[i]
        <5>1. j # i
          BY <2>3, <4>2
          DEF Outage!Send, Outage!Delivered, Outage!Undelivered, Outage!Resume, Outage!Pending
        <5>. QED
          BY <4>1, <4>2, <5>1 DEF Outage!Send, Outage!Delivered, Outage!Undelivered, Outage!Resume
      <4>3. CASE notices' = Outage!ClosedAll
        <5>1. Outage!Closed(notices[i]) = notices[i]
          BY <2>3 DEF Outage!Closed, Outage!Unstarted, Outage!Pending
        <5>. QED
          BY <4>3, <5>1 DEF Outage!ClosedAll, Outage!Rows, NoticeRows
      <4>4. CASE Outage!Fails
        <5>1. notices' = notices \/ \E q : notices' = Append(notices, q)
          BY <4>4 DEF Outage!Fails
        <5>2. ASSUME NEW q, notices' = Append(notices, q) PROVE notices'[i] = notices[i]
          BY <2>1, <5>2 DEF NoticeRows
        <5>. QED
          BY <5>1, <5>2
      <4>5. CASE \/ Outage!WaitsOrDies \/ Outage!LinkAgain \/ Outage!LeaveOrReturn
                 \/ Outage!DeliverRecovery \/ Outage!Tick
        BY <4>5
        DEF Outage!WaitsOrDies, Outage!LinkAgain, Outage!LeaveOrReturn, Outage!DeliverRecovery, Outage!Tick
      <4>6. CASE Outage!Accepted \/ Outage!Unlink
        BY <4>3, <4>6 DEF Outage!Accepted, Outage!Unlink
      <4>7. Outage!Rows = NoticeRows
        BY DEF Outage!Rows, NoticeRows
      <4>. QED
        BY <4>2, <4>4, <4>5, <4>6, <4>7 DEF Outage!Next
    <3>. QED
      BY <3>1
  <2>. QED
    BY <2>2, <2>3
<1>5. OutageInv => (part = "outages" => Outage!OneNoticeADay /\ Outage!RecoveryWasAnnounced)
  BY DEF OutageInv
<1>. QED
  BY <1>1, <1>3, <1>4, <1>5, PTL DEF PartsSpec, OutagesAreTold, Outage!NoStaleNotice


-----------------------------------------------------------------------------
(* Parked work (ParkedWork), from what JobQueueProofs says of any instance *)

Queue == INSTANCE JobQueueProofs WITH
  Keys <- {"notice"}, GuildKeys <- {"notice"}, Fenced <- {}, Notices <- {}, Workers <- {"w"},
  NoWorker <- "no worker", Errors <- {"blocked", "disabled"}, MaxJobs <- 3, MaxInputs <- 3,
  MaxAttempts <- 1, MaxFaults <- 0, Resumes <- {{"disabled"}, {"disabled", "blocked"}},
  RequeueAttempts <- 2, worker <- pool, guildActive <- owner, faults <- rowFaults

LEMMA QueueConstants ==
  /\ Queue!ParkedConstantsOK
  /\ {"notice"} # {} /\ {"notice"} \subseteq {"notice"} /\ {} \subseteq {"notice"}
  /\ "no worker" \notin {"w"}
  /\ 3 \in Nat /\ 3 \in Nat /\ 0 \in Nat /\ 1 \in Nat \ {0}
  /\ {"blocked", "disabled"} \subseteq {"waiting", "transient", "blocked", "disabled", "gone", "invalid"}
BY DEF Queue!ParkedConstantsOK

LEMMA SameQueue ==
  /\ Rows!ParkedInit <=> Queue!ParkedInit
  /\ Rows!ParkedNext <=> Queue!ParkedNext
<1>1. Rows!ParkedInit <=> Queue!ParkedInit
  BY DEF Rows!ParkedInit, Queue!ParkedInit, Rows!Init, Queue!Init, Rows!NoPass, Queue!NoPass,
     Rows!Ids, Queue!Ids, Rows!NewRow, Queue!NewRow, Rows!Idle, Queue!Idle
<1>2. Rows!ParkedNext <=> Queue!ParkedNext
  BY DEF
     Rows!ParkedNext, Queue!ParkedNext, Rows!BesidePass, Queue!BesidePass, Rows!PassStep,
     Queue!PassStep, Rows!CrashAll, Queue!CrashAll, Rows!QueueStep, Queue!QueueStep,
     Rows!Produce, Queue!Produce, Rows!Progress, Queue!Progress, Rows!Fault, Queue!Fault,
     Rows!Clock, Queue!Clock, Rows!Enqueue, Queue!Enqueue, Rows!ScheduleJob,
     Queue!ScheduleJob, Rows!NotifyRunning, Queue!NotifyRunning, Rows!CloseUnstarted,
     Queue!CloseUnstarted, Rows!GuardRefuses, Queue!GuardRefuses, Rows!Return, Queue!Return,
     Rows!Throw, Queue!Throw, Rows!Publish, Queue!Publish, Rows!RecordFailure,
     Queue!RecordFailure, Rows!PublishLost, Queue!PublishLost, Rows!RecordLost,
     Queue!RecordLost, Rows!Claim, Queue!Claim, Rows!ClaimLost, Queue!ClaimLost,
     Rows!Claimable, Queue!Claimable, Rows!Claimed, Queue!Claimed, Rows!DueArrives,
     Queue!DueArrives, Rows!SweepBlocked, Queue!SweepBlocked, Rows!LeaseExpires,
     Queue!LeaseExpires, Rows!LeaseStalls, Queue!LeaseStalls, Rows!GuildLeavesOrReturns,
     Queue!GuildLeavesOrReturns, Rows!RetryJob, Queue!RetryJob, Rows!TrackedEnqueue,
     Queue!TrackedEnqueue, Rows!Waits, Queue!Waits, Rows!Locked, Queue!Locked, Rows!BeginPass,
     Queue!BeginPass, Rows!Supersede, Queue!Supersede, Rows!Requeue, Queue!Requeue,
     Rows!RequeueConflict, Queue!RequeueConflict, Rows!InsertLinks, Queue!InsertLinks,
     Rows!DeleteLinks, Queue!DeleteLinks, Rows!Abort, Queue!Abort, Rows!Crash, Queue!Crash,
     Rows!Parked, Queue!Parked, Rows!SameKey, Queue!SameKey, Rows!Loses, Queue!Loses,
     Rows!ActiveInPass, Queue!ActiveInPass, Rows!Tracked, Queue!Tracked, Rows!HoldersOf,
     Queue!HoldersOf, Rows!Remaining, Queue!Remaining, Rows!IndexRefuses, Queue!IndexRefuses,
     Rows!ClosedRow, Queue!ClosedRow, Rows!ResumedRow, Queue!ResumedRow, Rows!NoPass,
     Queue!NoPass, Rows!Active, Queue!Active, Rows!Unstarted, Queue!Unstarted, Rows!Ids,
     Queue!Ids, Rows!NewRow, Queue!NewRow, Rows!NextRow, Queue!NextRow, Rows!Holders,
     Queue!Holders, Rows!Others, Queue!Others, Rows!Write, Queue!Write, Rows!WriteIndexed,
     Queue!WriteIndexed, Rows!Idle, Queue!Idle, Rows!Set, Queue!Set, Rows!Job, Queue!Job,
     Rows!Busy, Queue!Busy, Rows!Owns, Queue!Owns, Rows!Superseded, Queue!Superseded,
     Rows!Attended, Queue!Attended, Rows!Threw, Queue!Threw, Rows!Published, Queue!Published,
     Rows!Recorded, Queue!Recorded, Rows!Outcome, Queue!Outcome, Rows!Waiting, Queue!Waiting,
     Rows!Pred, Queue!Pred, Rows!vars, Queue!vars
<1>. QED  BY <1>1, <1>2

\* The instance injects no faults into the queue.
LEMMA NothingIsLost == ASSUME rowFaults = 0, Rows!ParkedNext PROVE rowFaults' = 0
<1>1. ~(rowFaults < 0)
  OBVIOUS
<1>2. rowFaults' = rowFaults
  BY <1>1, Zenon DEF Rows!ParkedNext, Rows!BesidePass, Rows!PassStep, Rows!CrashAll, Rows!QueueStep,
     Rows!Produce, Rows!Progress, Rows!Fault, Rows!Clock, Rows!Enqueue, Rows!ScheduleJob,
     Rows!NotifyRunning, Rows!CloseUnstarted, Rows!GuardRefuses, Rows!Return, Rows!Throw,
     Rows!Publish, Rows!RecordFailure, Rows!PublishLost, Rows!RecordLost, Rows!Claim,
     Rows!ClaimLost, Rows!DueArrives, Rows!SweepBlocked, Rows!LeaseExpires, Rows!LeaseStalls,
     Rows!GuildLeavesOrReturns, Rows!RetryJob, Rows!TrackedEnqueue, Rows!BeginPass,
     Rows!Supersede, Rows!Requeue, Rows!RequeueConflict, Rows!InsertLinks, Rows!DeleteLinks,
     Rows!Abort, Rows!Crash, Rows!vars
<1>. QED  BY <1>2

\* A row of the queue is closed as superseded only for newer work of its key.
THEOREM RowsYieldToNewer == PartsSpec => []SupersededByNewer
<1>. DEFINE all == <<part, vars, postVars, outageVars, rowVars, gateVars, statusVars, webVars>>
<1>1. PartsInit => Queue!ParkedInit /\ rowFaults = 0
  BY SameQueue DEF PartsInit, Rows!ParkedInit, Rows!Init
<1>2. [PartsNext]_all => [Queue!ParkedNext]_(Queue!parkedVars)
  BY SameQueue DEF PartsNext, Moves, all, rowVars, Queue!parkedVars, Queue!vars
<1>3. rowFaults = 0 /\ [PartsNext]_all => (rowFaults = 0)'
  BY NothingIsLost DEF PartsNext, Moves, all, rowVars
<1>4. (rowFaults = 0 => Queue!SupersededByNewer) /\ rowFaults = 0 => SupersededByNewer
  BY DEF SupersededByNewer, Rows!SupersededByNewer, Queue!SupersededByNewer, Rows!Ids, Queue!Ids,
     Rows!SameKey, Queue!SameKey
<1>5. Queue!ParkedSpec => [](rowFaults = 0 => Queue!SupersededByNewer)
  BY QueueConstants, Queue!NewerWorkWins
<1>6. PartsSpec => Queue!ParkedSpec
  BY <1>1, <1>2, PTL DEF PartsSpec, Queue!ParkedSpec
<1>7. PartsSpec => [](rowFaults = 0)
  BY <1>1, <1>3, PTL DEF PartsSpec
<1>. QED  BY <1>4, <1>5, <1>6, <1>7, PTL

-----------------------------------------------------------------------------
(* Status notices (StatusNotices) *)

Flagged == [Flags -> Status!Values]
StatusEntries == [joined : Nat, from : Flagged, to : Flagged, departed : SUBSET Departures]
MemberRows == [joined : Nat, announced : Flagged, current : Flagged, departed : SUBSET Departures,
         since : {"none", "young", "due"}, batch : Nat, entry : StatusEntries]
\* Past the dispatcher's look at the settings, and with a batch in hand.
Delivering == {"resume", "window", "freeze", "send", "deliver", "mark", "guard"}
HasBatch == {"send", "deliver", "mark"}
Tellers == [pc : Delivering \cup {"idle", "begin", "drop", "finish"},
            channel : Channels \cup {NoChannel}, batch : Nat, resumed : BOOLEAN,
            cutoff : SUBSET Users, then : {"idle", "window", "guard"},
            entries : UNION {[S -> StatusEntries] : S \in SUBSET Users}]

StatusTypes ==
  /\ memberRow \in [Users -> MemberRows] /\ told \in [Users -> Flagged] /\ joins \in [Users -> Nat \ {0}]
  /\ officers \in Channels \cup {NoChannel}
  /\ teller \in [PostWorkers -> Tellers]
  /\ spent \in [records : Nat, settings : Nat, faults : Nat, batches : Nat]
  /\ delivered \cup remembered \subseteq 1 .. spent.batches

\* A batch that Discord shows or has shown, or that is marked as posted next.
BatchShown(b) ==
  \/ b \in delivered \cup remembered
  \/ \E w \in PostWorkers : teller[w].pc \in {"deliver", "mark"} /\ teller[w].batch = b

\* The mark will take the flag of the frozen entry as announced.
TellsFlag(s, f) == s.entry.joined = s.joined /\ s.entry.from[f] \notin {"unset", s.entry.to[f]}

\* Between a freeze and its mark a flag that the entry changes was told as the entry
\* has it once the batch was shown; every other flag was told as announced.
MemberHolds(u) ==
  /\ memberRow[u].batch <= spent.batches
  /\ \A f \in Flags : memberRow[u].entry.from[f] \notin {"unset", memberRow[u].entry.to[f]}
                        => memberRow[u].entry.to[f] # "unset"
  /\ \A f \in Flags : "unset" \notin {memberRow[u].announced[f], told[u][f]} =>
       IF memberRow[u].batch # 0 /\ TellsFlag(memberRow[u], f)
       THEN BatchShown(memberRow[u].batch) => told[u][f] = memberRow[u].entry.to[f]
       ELSE told[u][f] = memberRow[u].announced[f]

TellerHolds(w) ==
  /\ teller[w].pc \in Delivering => teller[w].channel # NoChannel
  /\ teller[w].pc \in HasBatch => teller[w].batch \in 1 .. spent.batches
  /\ teller[w].pc = "send" => \A u \in Users : memberRow[u].batch = teller[w].batch =>
       u \in DOMAIN teller[w].entries /\ teller[w].entries[u] = memberRow[u].entry

StatusInv ==
  /\ StatusTypes
  /\ \A u \in Users : MemberHolds(u)
  /\ \A w \in PostWorkers : TellerHolds(w)
  /\ Status!NothingKeptUnset

-----------------------------------------------------------------------------
(* The rules *)

LEMMA UnknownType == Status!Unknown \in Flagged
  BY DEF Status!Unknown, Flagged, Status!Values
LEMMA NoEntryType == Status!NoEntry \in StatusEntries /\ \A f \in Flags : Status!NoEntry.from[f] = "unset"
  BY UnknownType DEF Status!NoEntry, StatusEntries, Status!Unknown

LEMMA ObservedType ==
  ASSUME NEW s \in MemberRows, NEW seen \in Observations, NEW join \in Nat
  PROVE  /\ Status!Observe(s, seen, join) \in MemberRows
         /\ Status!Observe(s, seen, join).batch = s.batch
         /\ Status!Observe(s, seen, join).entry = s.entry
<1>. DEFINE base == Status!Rebased(s, join)
<1>1. base \in MemberRows /\ base.batch = s.batch /\ base.entry = s.entry
  BY UnknownType DEF Status!Rebased, MemberRows
<1>2. seen \in [Flags -> [value : Status!Values, decisive : BOOLEAN]]
  BY StatusAssumption DEF Status!ConstantsOK
<1>. HIDE DEF base
<1>3. PICK next : next = Status!Observe(s, seen, join)
  OBVIOUS
<1>4. next.announced \in Flagged /\ next.current \in Flagged
  BY <1>1, <1>2, <1>3 DEF Status!Observe, base, MemberRows, Flagged, Status!Values
<1>5. next = [base EXCEPT !.announced = next.announced, !.current = next.current]
  BY <1>1, <1>3 DEF Status!Observe, base, MemberRows
<1>. QED  BY <1>1, <1>3, <1>4, <1>5 DEF MemberRows

LEMMA EntryRules ==
  ASSUME NEW s \in MemberRows
  PROVE  /\ Status!Entry(s) \in StatusEntries /\ Status!Entry(s).joined = s.joined
         /\ Status!Entry(s).from = s.announced
         /\ \A f \in Flags : Status!Entry(s).from[f] \notin {"unset", Status!Entry(s).to[f]} => Status!Entry(s).to[f] # "unset"
  BY DEF Status!Entry, StatusEntries, MemberRows, Flagged, Status!Changed

LEMMA PostedType ==
  ASSUME NEW s \in MemberRows, NEW e \in StatusEntries
  PROVE  /\ Status!ApplyPosted(s, e) \in MemberRows
         /\ Status!ApplyPosted(s, e).batch = s.batch /\ Status!ApplyPosted(s, e).entry = s.entry
         /\ Status!ApplyPosted(s, e).joined = s.joined
         /\ \A f \in Flags : Status!ApplyPosted(s, e).announced[f] =
              IF /\ e.joined = s.joined /\ e.from[f] \notin {"unset", e.to[f]}
                 /\ s.announced[f] = e.from[f]
              THEN e.to[f] ELSE s.announced[f]
<1>. DEFINE flags == [f \in Flags |-> IF /\ e.joined = s.joined /\ e.from[f] \notin {"unset", e.to[f]}
                                         /\ s.announced[f] = e.from[f]
                                      THEN e.to[f] ELSE s.announced[f]]
<1>1. flags \in Flagged
  BY DEF StatusEntries, MemberRows, Flagged
<1>2. Status!ApplyPosted(s, e) = [s EXCEPT !.departed = s.departed \ e.departed, !.announced = flags]
  BY DEF Status!ApplyPosted, MemberRows
<1>3. flags = flags /\ \A f \in Flags : flags[f] =
              IF /\ e.joined = s.joined /\ e.from[f] \notin {"unset", e.to[f]}
                 /\ s.announced[f] = e.from[f]
              THEN e.to[f] ELSE s.announced[f]
  OBVIOUS
<1>. HIDE DEF flags
<1>. QED  BY <1>1, <1>2, <1>3 DEF MemberRows

LEMMA DroppedType ==
  ASSUME NEW s \in MemberRows
  PROVE  /\ Status!DropPending(s) \in MemberRows /\ Status!DropPending(s).batch = s.batch
         /\ Status!DropPending(s).entry = s.entry
         /\ Status!Cleared(Status!DropPending(s)) \in MemberRows /\ Status!Cleared(Status!DropPending(s)).batch = 0
         /\ Status!Cleared(Status!DropPending(s)).entry = Status!NoEntry /\ Status!Cleared(Status!DropPending(s)).since = "none"
         /\ Status!Cleared(Status!DropPending(s)).announced = Status!DropPending(s).announced
         /\ Status!Cleared(Status!DropPending(s)).joined = Status!DropPending(s).joined
  BY NoEntryType DEF Status!DropPending, Status!Cleared, MemberRows

LEMMA ClearedRow ==
  ASSUME NEW s \in MemberRows
  PROVE  /\ Status!Cleared(s) \in MemberRows /\ Status!Cleared(s).batch = 0
         /\ Status!Cleared(s).entry = Status!NoEntry
         /\ Status!Cleared(s).announced = s.announced /\ Status!Cleared(s).joined = s.joined
  BY NoEntryType DEF Status!Cleared, MemberRows

LEMMA TellerIdle == Status!Idle \in Tellers /\ Status!Idle.pc = "idle"
<1>1. Status!Idle.entries \in [{} -> StatusEntries]
  BY DEF Status!Idle
<1>2. Status!Idle.entries \in UNION {[S -> StatusEntries] : S \in SUBSET Users}
  BY <1>1
<1>. QED  BY <1>2 DEF Status!Idle, Tellers

-----------------------------------------------------------------------------
(* What a step may do to an attempt and to a member *)

\* An attempt goes on as an attempt may: the others stay.
MayGoTo(next) ==
  /\ next \in Tellers
  /\ next.pc \in Delivering => next.channel # NoChannel
  /\ next.pc \in HasBatch => next.batch \in 1 .. spent.batches
  /\ next.pc = "send" => \A u \in Users : memberRow[u].batch = next.batch =>
       u \in DOMAIN next.entries /\ next.entries[u] = memberRow[u].entry
  /\ next.pc \in {"deliver", "mark"} => BatchShown(next.batch)

\* Only what the invariant does not read has changed.
OnlyLooks ==
  /\ UNCHANGED <<memberRow, told, officers>>
  /\ spent' \in [records : Nat, settings : Nat, faults : Nat, batches : Nat]
  /\ spent'.batches = spent.batches
  /\ joins' \in [Users -> Nat \ {0}]

LEMMA GoesTelling ==
  ASSUME StatusInv, NEW w \in PostWorkers, NEW next, MayGoTo(next), Status!Goes(w, next), OnlyLooks,
         \A b \in (delivered \cup remembered)' : BatchShown(b) /\ b \in 1 .. spent.batches
  PROVE  StatusInv'
<1>1. teller'[w] = next /\ (\A v \in PostWorkers \ {w} : teller'[v] = teller[v])
      /\ teller' \in [PostWorkers -> Tellers]
  BY DEF Status!Goes, StatusInv, StatusTypes, MayGoTo
<1>2. StatusTypes'
  BY <1>1 DEF StatusInv, StatusTypes, OnlyLooks
<1>3. ASSUME NEW b, BatchShown(b)' PROVE BatchShown(b)
  <2>1. CASE b \in (delivered \cup remembered)'
    BY <2>1 DEF BatchShown
  <2>2. CASE \E v \in PostWorkers : teller'[v].pc \in {"deliver", "mark"} /\ teller'[v].batch = b
    <3>1. PICK v \in PostWorkers : teller'[v].pc \in {"deliver", "mark"} /\ teller'[v].batch = b
      BY <2>2
    <3>. QED  BY <3>1, <1>1 DEF BatchShown, MayGoTo
  <2>. QED  BY <1>3, <2>1, <2>2 DEF BatchShown
<1>4. ASSUME NEW u \in Users PROVE MemberHolds(u)'
  <2>1. MemberHolds(u) /\ memberRow'[u] = memberRow[u] /\ told'[u] = told[u]
    BY DEF StatusInv, OnlyLooks
  <2>2. TellsFlag(memberRow[u], 0)' = TellsFlag(memberRow[u], 0)
    BY <2>1 DEF TellsFlag
  <2>. QED  BY <2>1, <1>3 DEF MemberHolds, OnlyLooks, TellsFlag
<1>5. ASSUME NEW v \in PostWorkers PROVE TellerHolds(v)'
  BY <1>1 DEF TellerHolds, StatusInv, OnlyLooks, MayGoTo
<1>6. Status!NothingKeptUnset'
  BY DEF Status!NothingKeptUnset, StatusInv, OnlyLooks, Status!Waiting
<1>. QED  BY <1>2, <1>4, <1>5, <1>6 DEF StatusInv

LEMMA GoesKeeps ==
  ASSUME StatusInv, NEW w \in PostWorkers, NEW next, MayGoTo(next), Status!Goes(w, next), OnlyLooks,
         UNCHANGED <<delivered, remembered>>
  PROVE  StatusInv'
<1>1. \A b \in (delivered \cup remembered)' : BatchShown(b) /\ b \in 1 .. spent.batches
  BY DEF BatchShown, StatusInv, StatusTypes
<1>. QED  BY <1>1, GoesTelling

LEMMA IdleGoes ==
  ASSUME StatusInv PROVE MayGoTo(Status!Idle)
  BY TellerIdle DEF MayGoTo, Delivering, HasBatch

\* The attempts as the invariant reads them.
SameTellers ==
  /\ teller' \in [PostWorkers -> Tellers]
  /\ \A w \in PostWorkers : /\ teller'[w].pc = teller[w].pc /\ teller'[w].batch = teller[w].batch
                        /\ teller'[w].channel = teller[w].channel
                        /\ teller'[w].entries = teller[w].entries
  /\ UNCHANGED <<delivered, remembered>>

LEMMA RestartedSame ==
  ASSUME StatusInv, NEW users, Status!Restarted(users), UNCHANGED <<delivered, remembered>>
  PROVE  SameTellers
<1>1. ASSUME NEW w \in PostWorkers
      PROVE  /\ teller'[w] \in Tellers /\ teller'[w].pc = teller[w].pc
             /\ teller'[w].batch = teller[w].batch /\ teller'[w].channel = teller[w].channel
             /\ teller'[w].entries = teller[w].entries
  BY DEF Status!Restarted, StatusInv, StatusTypes, Tellers
<1>2. teller' = [w \in PostWorkers |-> teller'[w]]
  BY DEF Status!Restarted
<1>. QED  BY <1>1, <1>2 DEF SameTellers

\* What a transaction may do to a member's row: the batch and its entry stay, or go.
MemberKeeps(u) ==
  /\ memberRow'[u] \in MemberRows /\ told'[u] \in Flagged
  /\ \/ memberRow'[u].batch = memberRow[u].batch /\ memberRow'[u].entry = memberRow[u].entry
     \/ memberRow'[u].batch = 0
  /\ MemberHolds(u)'
  /\ officers' = NoChannel => memberRow'[u].since = "none" /\ memberRow'[u].batch = 0

LEMMA MembersKeep ==
  ASSUME StatusInv, SameTellers \/ (UNCHANGED <<teller, delivered, remembered>>),
         memberRow' = [u \in Users |-> memberRow'[u]], told' = [u \in Users |-> told'[u]],
         \A u \in Users : MemberKeeps(u),
         spent' \in [records : Nat, settings : Nat, faults : Nat, batches : Nat],
         spent'.batches = spent.batches, joins' \in [Users -> Nat \ {0}],
         officers' \in Channels \cup {NoChannel}
  PROVE  StatusInv'
<1>1. SameTellers
  BY DEF SameTellers, StatusInv, StatusTypes
<1>2. memberRow' \in [Users -> MemberRows] /\ told' \in [Users -> Flagged]
  BY DEF MemberKeeps
<1>3. StatusTypes'
  BY <1>1, <1>2 DEF StatusTypes, StatusInv, SameTellers
<1>4. ASSUME NEW w \in PostWorkers PROVE TellerHolds(w)'
  <2>1. TellerHolds(w) /\ (teller[w].pc = "send" => teller[w].batch # 0)
    BY DEF StatusInv, TellerHolds, HasBatch, StatusTypes
  <2>. QED  BY <2>1, <1>1 DEF TellerHolds, SameTellers, MemberKeeps
<1>5. Status!NothingKeptUnset'
  BY DEF Status!NothingKeptUnset, MemberKeeps, Status!Waiting
<1>. QED  BY <1>3, <1>4, <1>5 DEF StatusInv, MemberKeeps

\* A silent change of what is announced.
LEMMA SilentKeeps ==
  ASSUME StatusInv, NEW u \in Users, NEW new \in MemberRows, new.batch = memberRow[u].batch,
         new.entry = memberRow[u].entry, SameTellers, spent'.batches = spent.batches,
         told'[u] = Status!Silently(u, new),
         memberRow'[u] \in MemberRows, memberRow'[u].joined = new.joined,
         memberRow'[u].announced = new.announced,
         memberRow'[u].batch = new.batch,
         memberRow'[u].entry = IF new.batch = 0 THEN memberRow'[u].entry ELSE new.entry,
         memberRow'[u].entry \in {new.entry, Status!NoEntry}
  PROVE  MemberHolds(u)' /\ told'[u] \in Flagged
<1>1. memberRow[u] \in MemberRows /\ told[u] \in Flagged /\ MemberHolds(u)
  BY DEF StatusInv, StatusTypes
<1>2. told'[u] \in Flagged
  BY <1>1 DEF Status!Silently, Flagged, Status!Values, MemberRows
<1>3. ASSUME NEW f \in Flags
      PROVE  told'[u][f] = IF new.joined = memberRow[u].joined /\ new.announced[f] = memberRow[u].announced[f]
                           THEN told[u][f]
                           ELSE IF memberRow[u].batch # 0 THEN "unset" ELSE new.announced[f]
  BY DEF Status!Silently
<1>4. \A b : BatchShown(b)' <=> BatchShown(b)
  BY DEF BatchShown, SameTellers
<1>5. ASSUME NEW f \in Flags
      PROVE  memberRow'[u].entry.from[f] \notin {"unset", memberRow'[u].entry.to[f]}
               => memberRow'[u].entry.to[f] # "unset"
  BY <1>1, NoEntryType DEF MemberHolds
<1>6. ASSUME NEW f \in Flags, "unset" \notin {memberRow'[u].announced[f], told'[u][f]}
      PROVE  IF memberRow'[u].batch # 0 /\ TellsFlag(memberRow'[u], f)
             THEN BatchShown(memberRow[u].batch) => told'[u][f] = memberRow'[u].entry.to[f]
             ELSE told'[u][f] = memberRow'[u].announced[f]
  <2>1. CASE memberRow[u].batch = 0
    BY <2>1, <1>1, <1>3, <1>6 DEF MemberHolds
  <2>2. CASE memberRow[u].batch # 0
    <3>1. new.joined = memberRow[u].joined /\ new.announced[f] = memberRow[u].announced[f]
          /\ told'[u][f] = told[u][f]
      BY <2>2, <1>3, <1>6
    <3>2. TellsFlag(memberRow'[u], f) <=> TellsFlag(memberRow[u], f)
      BY <2>2, <3>1 DEF TellsFlag
    <3>. QED  BY <1>1, <1>4, <1>6, <2>2, <3>1, <3>2 DEF MemberHolds
  <2>. QED  BY <2>1, <2>2
<1>7. memberRow'[u].batch <= spent'.batches
  BY <1>1 DEF MemberHolds
<1>8. BatchShown(memberRow[u].batch)' <=> BatchShown(memberRow[u].batch)
  BY DEF BatchShown, SameTellers
<1>9. \A f \in Flags : "unset" \notin {memberRow'[u].announced[f], told'[u][f]} =>
        IF memberRow'[u].batch # 0 /\ TellsFlag(memberRow[u], f)'
        THEN BatchShown(memberRow[u].batch)' => told'[u][f] = memberRow'[u].entry.to[f]
        ELSE told'[u][f] = memberRow'[u].announced[f]
  BY <1>6, <1>8 DEF TellsFlag
<1>. QED  BY <1>2, <1>5, <1>7, <1>9 DEF MemberHolds

\* A member whose batch, entry and announced flags stay.
LEMMA QuietMember ==
  ASSUME StatusInv, NEW u \in Users, SameTellers, spent'.batches = spent.batches,
         memberRow'[u] \in MemberRows, memberRow'[u].joined = memberRow[u].joined,
         memberRow'[u].announced = memberRow[u].announced,
         memberRow'[u].batch = memberRow[u].batch, memberRow'[u].entry = memberRow[u].entry,
         told'[u] = told[u],
         officers' = NoChannel => memberRow'[u].since = "none" /\ memberRow'[u].batch = 0
  PROVE  MemberKeeps(u)
<1>1. told'[u] \in Flagged /\ MemberHolds(u)
  BY DEF StatusInv, StatusTypes
<1>2. \A b : BatchShown(b)' <=> BatchShown(b)
  BY DEF BatchShown, SameTellers
<1>3. BatchShown(memberRow[u].batch)' <=> BatchShown(memberRow[u].batch)
  BY DEF BatchShown, SameTellers
<1>4. \A f \in Flags : TellsFlag(memberRow[u], f)' <=> TellsFlag(memberRow[u], f)
  BY DEF TellsFlag
<1>5. MemberHolds(u)'
  BY <1>1, <1>3, <1>4 DEF MemberHolds
<1>. QED  BY <1>1, <1>5 DEF MemberKeeps

\* A member nothing is written for.
LEMMA SameMember ==
  ASSUME StatusInv, NEW u \in Users, SameTellers, spent'.batches = spent.batches,
         memberRow'[u] = memberRow[u], told'[u] = told[u], officers' = NoChannel => ~Status!Waiting(u)
  PROVE  MemberKeeps(u)
<1>1. memberRow[u] \in MemberRows
  BY DEF StatusInv, StatusTypes
<1>. QED  BY <1>1, QuietMember DEF Status!Waiting

LEMMA SpentType ==
  ASSUME StatusInv, NEW kind \in {"records", "settings", "faults"}, NEW bound,
         Status!Spend(kind, bound)
  PROVE  /\ spent' \in [records : Nat, settings : Nat, faults : Nat, batches : Nat]
         /\ spent'.batches = spent.batches
  BY DEF Status!Spend, StatusInv, StatusTypes

LEMMA RecordsKeep ==
  ASSUME StatusInv, NEW u \in Users, Status!Record(u) PROVE StatusInv'
<1>1. PICK seen \in Observations, join \in {joins[u], joins[u] - 1} \ {0} :
        LET next == Status!Observe(memberRow[u], seen, join)
            moved == Status!Moved(memberRow[u], seen, join)
        IN /\ Status!Spend("records", MaxRecords)
           /\ IF officers = NoChannel
              THEN /\ memberRow' = [memberRow EXCEPT ![u] = Status!Cleared(Status!DropPending(next))]
                   /\ told' = [told EXCEPT ![u] = Status!Silently(u, Status!DropPending(next))]
                   /\ UNCHANGED <<statusJob, teller>>
              ELSE /\ memberRow' = [memberRow EXCEPT ![u] =
                        [next EXCEPT !.since = IF Status!Pending(next) THEN Status!Since(u) ELSE "none"]]
                   /\ IF memberRow[u].since = "none" THEN Status!Restarted({u}) ELSE UNCHANGED teller
                   /\ told' = [told EXCEPT ![u] = Status!Silently(u, next)]
                   /\ IF moved THEN Status!QueueStatus ELSE UNCHANGED statusJob
           /\ UNCHANGED <<joins, officers, effects, delivered, remembered>>
  BY DEF Status!Record
<1>. DEFINE next == Status!Observe(memberRow[u], seen, join)
<1>2. memberRow \in [Users -> MemberRows] /\ told \in [Users -> Flagged] /\ join \in Nat
  BY DEF StatusInv, StatusTypes
<1>3. next \in MemberRows /\ next.batch = memberRow[u].batch /\ next.entry = memberRow[u].entry
  BY <1>2, ObservedType
<1>. HIDE DEF next
<1>4. /\ spent' \in [records : Nat, settings : Nat, faults : Nat, batches : Nat]
      /\ spent'.batches = spent.batches
  BY <1>1, SpentType
<1>5. CASE officers = NoChannel
  <2>1. /\ memberRow' = [memberRow EXCEPT ![u] = Status!Cleared(Status!DropPending(next))]
        /\ told' = [told EXCEPT ![u] = Status!Silently(u, Status!DropPending(next))]
        /\ UNCHANGED <<joins, officers, teller, delivered, remembered>>
    BY <1>1, <1>5 DEF next
  <2>2. SameTellers
    BY <2>1 DEF SameTellers, StatusInv, StatusTypes
  <2>3. memberRow[u].batch = 0
    BY <1>5 DEF StatusInv, Status!NothingKeptUnset, Status!Waiting
  <2>4. Status!DropPending(next) \in MemberRows /\ Status!DropPending(next).batch = 0
        /\ Status!DropPending(next).entry = memberRow[u].entry
    BY <1>3, <2>3, DroppedType
  <2>5. memberRow'[u] = Status!Cleared(Status!DropPending(next))
        /\ told'[u] = Status!Silently(u, Status!DropPending(next))
    BY <1>2, <2>1
  <2>6. MemberHolds(u)' /\ told'[u] \in Flagged
    BY <1>3, <1>4, <2>2, <2>3, <2>4, <2>5, DroppedType, SilentKeeps
  <2>7. MemberKeeps(u)
    BY <1>3, <2>5, <2>6, DroppedType DEF MemberKeeps
  <2>8. \A v \in Users \ {u} : MemberKeeps(v)
    BY <1>2, <1>4, <1>5, <2>1, <2>2, SameMember DEF StatusInv, Status!NothingKeptUnset
  <2>9. memberRow' = [v \in Users |-> memberRow'[v]] /\ told' = [v \in Users |-> told'[v]]
    BY <1>2, <2>1
  <2>10. joins' \in [Users -> Nat \ {0}] /\ officers' \in Channels \cup {NoChannel}
    BY <2>1 DEF StatusInv, StatusTypes
  <2>. QED  BY <1>4, <2>2, <2>7, <2>8, <2>9, <2>10, MembersKeep
<1>6. CASE officers # NoChannel
  <2>1. /\ \E when : memberRow' = [memberRow EXCEPT ![u] = [next EXCEPT !.since = when]]
                     /\ when \in {"none", "young", "due"}
        /\ Status!Restarted({u}) \/ UNCHANGED teller
        /\ told' = [told EXCEPT ![u] = Status!Silently(u, next)]
        /\ UNCHANGED <<joins, officers, delivered, remembered>>
    <3>1. Status!Since(u) \in {"none", "young", "due"}
      BY <1>2 DEF Status!Since, MemberRows
    <3>. QED  BY <1>1, <1>6, <3>1 DEF next
  <2>2. SameTellers
    BY <2>1, RestartedSame DEF SameTellers, StatusInv, StatusTypes
  <2>3. PICK when \in {"none", "young", "due"} :
          memberRow' = [memberRow EXCEPT ![u] = [next EXCEPT !.since = when]]
    BY <2>1
  <2>4. memberRow'[u] \in MemberRows /\ memberRow'[u].joined = next.joined
        /\ memberRow'[u].announced = next.announced
        /\ memberRow'[u].batch = next.batch /\ memberRow'[u].entry = next.entry
    BY <1>2, <1>3, <2>3 DEF MemberRows
  <2>5. told'[u] = Status!Silently(u, next)
    BY <1>2, <2>1
  <2>6. MemberHolds(u)' /\ told'[u] \in Flagged
    BY <1>3, <1>4, <2>2, <2>4, <2>5, SilentKeeps
  <2>7. MemberKeeps(u)
    BY <1>3, <1>6, <2>1, <2>4, <2>6 DEF MemberKeeps
  <2>8. \A v \in Users \ {u} : MemberKeeps(v)
    BY <1>2, <1>4, <1>6, <2>1, <2>2, <2>3, SameMember
  <2>9. memberRow' = [v \in Users |-> memberRow'[v]] /\ told' = [v \in Users |-> told'[v]]
    BY <1>2, <2>1, <2>3
  <2>10. joins' \in [Users -> Nat \ {0}] /\ officers' \in Channels \cup {NoChannel}
    BY <2>1 DEF StatusInv, StatusTypes
  <2>. QED  BY <1>4, <2>2, <2>7, <2>8, <2>9, <2>10, MembersKeep
<1>. QED  BY <1>5, <1>6

LEMMA DeparturesKeep ==
  ASSUME StatusInv, NEW u \in Users, NEW d \in Departures, Status!RecordDeparture(u, d)
  PROVE  StatusInv'
<1>1. memberRow \in [Users -> MemberRows] /\ told \in [Users -> Flagged]
  BY DEF StatusInv, StatusTypes
<1>2. /\ spent' \in [records : Nat, settings : Nat, faults : Nat, batches : Nat]
      /\ spent'.batches = spent.batches
  BY SpentType DEF Status!RecordDeparture
<1>3. SameTellers
  BY RestartedSame DEF Status!RecordDeparture, SameTellers, StatusInv, StatusTypes
<1>4. memberRow'[u] = [memberRow[u] EXCEPT !.departed = memberRow[u].departed \cup {d}, !.since = Status!Since(u)]
      /\ \A v \in Users \ {u} : memberRow'[v] = memberRow[v]
  BY <1>1 DEF Status!RecordDeparture, MemberRows
<1>5. Status!Since(u) \in {"young", "due"}
  BY <1>1 DEF Status!Since, MemberRows
<1>6. memberRow'[u] \in MemberRows /\ memberRow'[u].joined = memberRow[u].joined
      /\ memberRow'[u].announced = memberRow[u].announced
      /\ memberRow'[u].batch = memberRow[u].batch /\ memberRow'[u].entry = memberRow[u].entry
  <2>1. memberRow[u] \in MemberRows /\ memberRow[u].departed \cup {d} \in SUBSET Departures
    BY <1>1 DEF MemberRows
  <2>2. PICK gone \in SUBSET Departures : gone = memberRow[u].departed \cup {d}
    BY <2>1
  <2>3. memberRow'[u] = [memberRow[u] EXCEPT !.departed = gone, !.since = Status!Since(u)]
    BY <1>4, <2>2
  <2>. QED  BY <2>1, <2>3, <1>5 DEF MemberRows
<1>7. UNCHANGED <<joins, officers, delivered, remembered, told>> /\ officers # NoChannel
  BY DEF Status!RecordDeparture
<1>8. \A v \in Users : MemberKeeps(v)
  BY <1>2, <1>3, <1>4, <1>6, <1>7, QuietMember, SameMember
<1>9. memberRow' = [v \in Users |-> memberRow'[v]] /\ told' = [v \in Users |-> told'[v]]
  BY <1>1 DEF Status!RecordDeparture
<1>10. joins' \in [Users -> Nat \ {0}] /\ officers' \in Channels \cup {NoChannel}
  BY <1>7 DEF StatusInv, StatusTypes
<1>. QED  BY <1>2, <1>3, <1>8, <1>9, <1>10, MembersKeep

LEMMA RejoinsKeep ==
  ASSUME StatusInv, NEW u \in Users, Status!Rejoin(u) \/ Status!WindowEnds(u) PROVE StatusInv'
<1>1. memberRow \in [Users -> MemberRows] /\ told \in [Users -> Flagged]
      /\ joins \in [Users -> Nat \ {0}]
  BY DEF StatusInv, StatusTypes
<1>2. /\ spent' \in [records : Nat, settings : Nat, faults : Nat, batches : Nat]
      /\ spent'.batches = spent.batches
  BY SpentType DEF Status!Rejoin, Status!WindowEnds, StatusInv, StatusTypes
<1>3. SameTellers
  BY DEF Status!Rejoin, Status!WindowEnds, SameTellers, StatusInv, StatusTypes
<1>4. joins' \in [Users -> Nat \ {0}]
  BY <1>1 DEF Status!Rejoin, Status!WindowEnds
<1>5. \A v \in Users : /\ memberRow'[v] \in MemberRows /\ memberRow'[v].joined = memberRow[v].joined
                       /\ memberRow'[v].announced = memberRow[v].announced /\ memberRow'[v].batch = memberRow[v].batch
                       /\ memberRow'[v].entry = memberRow[v].entry /\ told'[v] = told[v]
                       /\ memberRow'[v].since = "none" <=> memberRow[v].since = "none"
  BY <1>1 DEF Status!Rejoin, Status!WindowEnds, MemberRows
<1>6. officers' = officers
  BY DEF Status!Rejoin, Status!WindowEnds
<1>7. \A v \in Users : MemberKeeps(v)
  BY <1>2, <1>3, <1>5, <1>6, QuietMember DEF StatusInv, Status!NothingKeptUnset, Status!Waiting
<1>8. memberRow' = [v \in Users |-> memberRow'[v]] /\ told' = [v \in Users |-> told'[v]]
  BY <1>1 DEF Status!Rejoin, Status!WindowEnds
<1>9. officers' \in Channels \cup {NoChannel}
  BY <1>6 DEF StatusInv, StatusTypes
<1>. QED  BY <1>2, <1>3, <1>4, <1>7, <1>8, <1>9, MembersKeep

\* Whoever waits has nothing to be told of once everything is taken as announced.
LEMMA DroppedKeeps ==
  ASSUME StatusInv, Status!DropWaiting, UNCHANGED <<teller, delivered, remembered, joins>>,
         spent' \in [records : Nat, settings : Nat, faults : Nat, batches : Nat],
         spent'.batches = spent.batches, officers' \in Channels \cup {NoChannel}
  PROVE  StatusInv'
<1>1. memberRow \in [Users -> MemberRows] /\ told \in [Users -> Flagged]
      /\ joins \in [Users -> Nat \ {0}]
  BY DEF StatusInv, StatusTypes
<1>2. SameTellers
  BY DEF SameTellers, StatusInv, StatusTypes
<1>3. ASSUME NEW u \in Users PROVE MemberKeeps(u)
  <2>1. CASE Status!Waiting(u)
    <3>1. memberRow'[u] = Status!Cleared(Status!DropPending(memberRow[u]))
          /\ told'[u] = Status!DropPending(memberRow[u]).announced
      BY <2>1 DEF Status!DropWaiting
    <3>2. memberRow'[u] \in MemberRows /\ memberRow'[u].batch = 0
          /\ memberRow'[u].entry = Status!NoEntry
          /\ memberRow'[u].since = "none" /\ memberRow'[u].announced = told'[u]
      BY <1>1, <3>1, DroppedType
    <3>3. told'[u] \in Flagged
      BY <3>2 DEF MemberRows
    <3>4. MemberHolds(u)'
      BY <3>2, NoEntryType, <1>1 DEF MemberHolds, StatusInv, StatusTypes
    <3>. QED  BY <3>2, <3>3, <3>4 DEF MemberKeeps
  <2>2. CASE ~Status!Waiting(u)
    BY <1>2, <2>2, SameMember DEF Status!DropWaiting
  <2>. QED  BY <2>1, <2>2
<1>4. memberRow' = [v \in Users |-> memberRow'[v]] /\ told' = [v \in Users |-> told'[v]]
  BY DEF Status!DropWaiting
<1>. QED  BY <1>1, <1>2, <1>3, <1>4, MembersKeep

LEMMA OfficersKeep ==
  ASSUME StatusInv, Status!SetEffects \/ \E c \in Channels \cup {NoChannel} : Status!SetChannel(c)
  PROVE  StatusInv'
<1>1. memberRow \in [Users -> MemberRows] /\ told \in [Users -> Flagged]
      /\ joins \in [Users -> Nat \ {0}]
      /\ officers \in Channels \cup {NoChannel}
  BY DEF StatusInv, StatusTypes
<1>2. /\ spent' \in [records : Nat, settings : Nat, faults : Nat, batches : Nat]
      /\ spent'.batches = spent.batches
  BY SpentType DEF Status!SetEffects, Status!SetChannel
<1>3. UNCHANGED <<teller, delivered, remembered, joins>> /\ officers' \in Channels \cup {NoChannel}
  BY <1>1 DEF Status!SetEffects, Status!SetChannel
<1>4. CASE officers' = NoChannel /\ officers' # officers
  BY <1>2, <1>3, <1>4, DroppedKeeps DEF Status!SetEffects, Status!SetChannel
<1>5. CASE officers' # NoChannel \/ officers' = officers
  <2>1. UNCHANGED <<memberRow, told>>
    BY <1>5 DEF Status!SetEffects, Status!SetChannel
  <2>2. SameTellers
    BY <1>3 DEF SameTellers, StatusInv, StatusTypes
  <2>3. \A v \in Users : MemberKeeps(v)
    BY <1>2, <1>5, <2>1, <2>2, SameMember DEF StatusInv, Status!NothingKeptUnset
  <2>4. memberRow' = [v \in Users |-> memberRow'[v]] /\ told' = [v \in Users |-> told'[v]]
    BY <1>1, <2>1
  <2>. QED  BY <1>1, <1>2, <1>3, <2>2, <2>3, <2>4, MembersKeep
<1>. QED  BY <1>4, <1>5

-----------------------------------------------------------------------------
(* Delivery *)

LEMMA TellerEnds ==
  ASSUME StatusInv, NEW w \in PostWorkers, NEW ends, Status!Ends(w, ends),
         UNCHANGED <<memberRow, told, officers, joins, spent, delivered, remembered>>
  PROVE  StatusInv'
<1>1. OnlyLooks
  BY DEF OnlyLooks, StatusInv, StatusTypes
<1>. QED  BY <1>1, IdleGoes, GoesKeeps DEF Status!Ends

\* An attempt goes to a stage in which it holds no batch.
LEMMA StageOnlyKeeps ==
  ASSUME StatusInv, NEW w \in PostWorkers,
         NEW pc \in Delivering \cup {"idle", "begin", "drop", "finish"},
         pc \notin HasBatch, pc \in Delivering => teller[w].channel # NoChannel,
         Status!Goes(w, [teller[w] EXCEPT !.pc = pc]),
         UNCHANGED <<memberRow, told, officers, joins, spent, delivered, remembered>>
  PROVE  StatusInv'
<1>1. teller[w] \in Tellers
  BY DEF StatusInv, StatusTypes
<1>2. [teller[w] EXCEPT !.pc = pc] \in Tellers
      /\ [teller[w] EXCEPT !.pc = pc].pc = pc
      /\ [teller[w] EXCEPT !.pc = pc].channel = teller[w].channel
  BY <1>1 DEF Tellers
<1>3. MayGoTo([teller[w] EXCEPT !.pc = pc])
  BY <1>2 DEF MayGoTo, HasBatch
<1>4. OnlyLooks
  BY DEF OnlyLooks, StatusInv, StatusTypes
<1>. QED  BY <1>3, <1>4, GoesKeeps

LEMMA TellerClaims ==
  ASSUME StatusInv, NEW w \in PostWorkers, Status!Claim(w) PROVE StatusInv'
<1>1. [Status!Idle EXCEPT !.pc = "begin"] \in Tellers
      /\ [Status!Idle EXCEPT !.pc = "begin"].pc = "begin"
  BY TellerIdle DEF Tellers
<1>2. MayGoTo([Status!Idle EXCEPT !.pc = "begin"])
  BY <1>1 DEF MayGoTo, Delivering, HasBatch
<1>3. OnlyLooks
  BY DEF OnlyLooks, StatusInv, StatusTypes, Status!Claim
<1>. QED  BY <1>2, <1>3, GoesKeeps DEF Status!Claim

LEMMA TellerBegins ==
  ASSUME StatusInv, NEW w \in PostWorkers, Status!Begin(w) PROVE StatusInv'
<1>1. UNCHANGED <<memberRow, told, officers, joins, spent, delivered, remembered>>
  BY DEF Status!Begin
<1>2. CASE Status!Goes(w, [teller[w] EXCEPT !.pc = "drop"])
  <2>1. /\ "drop" \in Delivering \cup {"idle", "begin", "drop", "finish"}
        /\ "drop" \notin Delivering /\ "drop" \notin HasBatch
    BY DEF Delivering, HasBatch
  <2>. QED  BY <1>1, <1>2, <2>1, StageOnlyKeeps
<1>3. CASE officers # NoChannel /\ Status!Goes(w, [teller[w] EXCEPT !.pc = "resume", !.channel = officers])
  <2>1. teller[w] \in Tellers /\ officers \in Channels \cup {NoChannel}
    BY DEF StatusInv, StatusTypes
  <2>2. [teller[w] EXCEPT !.pc = "resume", !.channel = officers] \in Tellers
        /\ [teller[w] EXCEPT !.pc = "resume", !.channel = officers].pc = "resume"
        /\ [teller[w] EXCEPT !.pc = "resume", !.channel = officers].channel = officers
    BY <2>1 DEF Tellers, Delivering
  <2>3. MayGoTo([teller[w] EXCEPT !.pc = "resume", !.channel = officers])
    BY <1>3, <2>2 DEF MayGoTo, HasBatch
  <2>4. OnlyLooks
    BY <1>1 DEF OnlyLooks, StatusInv, StatusTypes
  <2>. QED  BY <1>1, <1>3, <2>3, <2>4, GoesKeeps
<1>4. CASE \E ends : Status!Ends(w, ends)
  BY <1>1, <1>4, TellerEnds
<1>5. \/ Status!Goes(w, [teller[w] EXCEPT !.pc = "drop"])
      \/ officers # NoChannel /\ Status!Goes(w, [teller[w] EXCEPT !.pc = "resume", !.channel = officers])
      \/ \E ends : Status!Ends(w, ends)
  BY Zenon DEF Status!Begin
<1>. QED  BY <1>2, <1>3, <1>4, <1>5

\* A batch taken up again: its rows and their entries.
LEMMA PostingGoes ==
  ASSUME StatusInv, NEW w \in PostWorkers, NEW b \in Status!FrozenBatches,
         teller[w].pc \in Delivering, NEW then \in {"window", "guard"}
  PROVE  MayGoTo(Status!Posting(w, b, TRUE, then))
<1>1. memberRow \in [Users -> MemberRows] /\ teller[w] \in Tellers /\ TellerHolds(w)
  BY DEF StatusInv, StatusTypes
<1>2. PICK u \in Users : b = memberRow[u].batch /\ b # 0
  BY DEF Status!FrozenBatches
<1>3. b \in 1 .. spent.batches /\ b \in Nat
  BY <1>1, <1>2 DEF StatusInv, MemberHolds, StatusTypes, MemberRows
<1>4. [v \in Status!Frozen(b) |-> memberRow[v].entry] \in [Status!Frozen(b) -> StatusEntries]
      /\ Status!Frozen(b) \in SUBSET Users
  BY <1>1 DEF Status!Frozen, MemberRows
<1>5. [v \in Status!Frozen(b) |-> memberRow[v].entry] \in UNION {[S -> StatusEntries] : S \in SUBSET Users}
  BY <1>4
<1>6. PICK next : next = Status!Posting(w, b, TRUE, then)
  OBVIOUS
<1>7. PICK frozen \in UNION {[S -> StatusEntries] : S \in SUBSET Users} :
        frozen = [v \in Status!Frozen(b) |-> memberRow[v].entry]
  BY <1>5
<1>8. next = [teller[w] EXCEPT !.pc = IF b \in delivered THEN "mark" ELSE "send",
                !.batch = b, !.resumed = TRUE, !.then = then, !.entries = frozen]
  BY <1>6, <1>7 DEF Status!Posting
<1>9. /\ next \in Tellers /\ next.batch = b /\ next.entries = frozen
      /\ next.channel = teller[w].channel
      /\ next.pc = IF b \in delivered THEN "mark" ELSE "send"
  BY <1>1, <1>3, <1>8 DEF Tellers, Delivering
<1>10. \A v \in Users : memberRow[v].batch = b => v \in DOMAIN frozen /\ frozen[v] = memberRow[v].entry
  BY <1>7 DEF Status!Frozen
<1>11. next.pc = "mark" => BatchShown(b)
  BY <1>9 DEF BatchShown
<1>12. next.channel # NoChannel
  BY <1>1, <1>9 DEF TellerHolds
<1>13. MayGoTo(next)
  BY <1>3, <1>9, <1>10, <1>11, <1>12 DEF MayGoTo
<1>. QED  BY <1>6, <1>13

LEMMA TellerResumes ==
  ASSUME StatusInv, NEW w \in PostWorkers, Status!Resume(w) PROVE StatusInv'
<1>1. UNCHANGED <<memberRow, told, officers, joins, spent, delivered, remembered>>
      /\ teller[w].pc = "resume"
  BY DEF Status!Resume
<1>2. teller[w].channel # NoChannel
  BY <1>1 DEF StatusInv, TellerHolds, Delivering
<1>3. CASE Status!Goes(w, [teller[w] EXCEPT !.pc = "window"])
  BY <1>1, <1>2, <1>3, StageOnlyKeeps DEF Delivering, HasBatch
<1>4. CASE \E b \in Status!FrozenBatches : Status!Goes(w, Status!Posting(w, b, TRUE, "window"))
  <2>1. PICK b \in Status!FrozenBatches : Status!Goes(w, Status!Posting(w, b, TRUE, "window"))
    BY <1>4
  <2>2. OnlyLooks
    BY <1>1 DEF OnlyLooks, StatusInv, StatusTypes
  <2>3. MayGoTo(Status!Posting(w, b, TRUE, "window"))
    BY <1>1, PostingGoes DEF Delivering
  <2>. QED  BY <1>1, <2>1, <2>2, <2>3, GoesKeeps
<1>5. CASE Status!Ends(w, "queued")
  BY <1>1, <1>5, TellerEnds
<1>. QED  BY <1>3, <1>4, <1>5 DEF Status!Resume

LEMMA TellerWaits ==
  ASSUME StatusInv, NEW w \in PostWorkers, Status!Window(w) PROVE StatusInv'
<1>1. UNCHANGED <<memberRow, told, officers, joins, spent, delivered, remembered>>
      /\ teller[w].pc = "window"
  BY DEF Status!Window
<1>2. teller[w].channel # NoChannel /\ teller[w] \in Tellers
  BY <1>1 DEF StatusInv, TellerHolds, Delivering, StatusTypes
<1>3. CASE Status!Goes(w, [teller[w] EXCEPT !.pc = "finish"])
  <2>1. /\ "finish" \in Delivering \cup {"idle", "begin", "drop", "finish"}
        /\ "finish" \notin Delivering /\ "finish" \notin HasBatch
    BY DEF Delivering, HasBatch
  <2>. QED  BY <1>1, <1>3, <2>1, StageOnlyKeeps
<1>4. CASE Status!Ends(w, "queued")
  BY <1>1, <1>4, TellerEnds
<1>5. CASE Status!Goes(w, [teller[w] EXCEPT !.pc = "freeze", !.cutoff = {u \in Users : memberRow[u].since # "none"}])
  <2>1. PICK cut \in SUBSET Users : cut = {u \in Users : memberRow[u].since # "none"}
    OBVIOUS
  <2>2. [teller[w] EXCEPT !.pc = "freeze", !.cutoff = cut] \in Tellers
        /\ [teller[w] EXCEPT !.pc = "freeze", !.cutoff = cut].pc = "freeze"
        /\ [teller[w] EXCEPT !.pc = "freeze", !.cutoff = cut].channel = teller[w].channel
    BY <1>2 DEF Tellers, Delivering
  <2>3. MayGoTo([teller[w] EXCEPT !.pc = "freeze", !.cutoff = cut])
    BY <1>2, <2>2 DEF MayGoTo, HasBatch
  <2>4. OnlyLooks
    BY <1>1 DEF OnlyLooks, StatusInv, StatusTypes
  <2>. QED  BY <1>1, <1>5, <2>1, <2>3, <2>4, GoesKeeps
<1>6. \/ Status!Goes(w, [teller[w] EXCEPT !.pc = "finish"])
      \/ Status!Ends(w, "queued")
      \/ Status!Goes(w, [teller[w] EXCEPT !.pc = "freeze", !.cutoff = {u \in Users : memberRow[u].since # "none"}])
  BY Zenon DEF Status!Window
<1>. QED  BY <1>3, <1>4, <1>5, <1>6


\* The dispatcher's run for a guild without a channel.
LEMMA TellerDrops ==
  ASSUME StatusInv, NEW w \in PostWorkers, Status!Drop(w) PROVE StatusInv'
<1>. DEFINE next == [teller[w] EXCEPT !.pc = "finish"]
<1>1. teller \in [PostWorkers -> Tellers] /\ memberRow \in [Users -> MemberRows]
  BY DEF StatusInv, StatusTypes
<1>2. teller[w].pc = "drop" /\ Status!DropWaiting /\ teller' = [teller EXCEPT ![w] = next]
      /\ UNCHANGED <<joins, officers, delivered, remembered, spent>>
  BY DEF Status!Drop, Status!Goes
<1>3. next \in Tellers /\ next.pc = "finish"
  BY <1>1 DEF Tellers
<1>. HIDE DEF next
<1>4. teller'[w] = next /\ (\A v \in PostWorkers \ {w} : teller'[v] = teller[v])
      /\ teller' \in [PostWorkers -> Tellers]
  BY <1>1, <1>2, <1>3
<1>5. \A b : BatchShown(b)' <=> BatchShown(b)
  BY <1>2, <1>3, <1>4 DEF BatchShown
<1>6. ASSUME NEW u \in Users
      PROVE  /\ memberRow'[u] \in MemberRows /\ told'[u] \in Flagged /\ MemberHolds(u)'
             /\ \/ memberRow'[u].batch = memberRow[u].batch /\ memberRow'[u].entry = memberRow[u].entry
                \/ memberRow'[u].batch = 0
             /\ officers' = NoChannel => ~Status!Waiting(u)'
  <2>1. CASE Status!Waiting(u)
    <3>1. memberRow'[u] = Status!Cleared(Status!DropPending(memberRow[u]))
          /\ told'[u] = Status!DropPending(memberRow[u]).announced
      BY <1>2, <2>1 DEF Status!DropWaiting
    <3>2. memberRow'[u] \in MemberRows /\ memberRow'[u].batch = 0
          /\ memberRow'[u].entry = Status!NoEntry
          /\ memberRow'[u].since = "none" /\ memberRow'[u].announced = told'[u]
      BY <1>1, <3>1, DroppedType
    <3>3. told'[u] \in Flagged
      BY <3>2 DEF MemberRows
    <3>4. MemberHolds(u)'
      BY <1>2, <3>2, NoEntryType DEF MemberHolds, StatusInv, StatusTypes
    <3>. QED  BY <3>2, <3>3, <3>4 DEF Status!Waiting
  <2>2. CASE ~Status!Waiting(u)
    <3>1. memberRow'[u] = memberRow[u] /\ told'[u] = told[u]
      BY <1>2, <2>2 DEF Status!DropWaiting
    <3>2. BatchShown(memberRow[u].batch)' <=> BatchShown(memberRow[u].batch)
      BY <1>2, <1>3, <1>4, <3>1 DEF BatchShown
    <3>3. \A f \in Flags : TellsFlag(memberRow[u], f)' <=> TellsFlag(memberRow[u], f)
      BY <3>1 DEF TellsFlag
    <3>4. MemberHolds(u)'
      BY <1>2, <3>1, <3>2, <3>3 DEF MemberHolds, StatusInv
    <3>. QED  BY <1>1, <2>2, <3>1, <3>4 DEF Status!Waiting, StatusInv, StatusTypes
  <2>. QED  BY <2>1, <2>2
<1>7. StatusTypes'
  <2>1. memberRow' = [u \in Users |-> memberRow'[u]] /\ told' = [u \in Users |-> told'[u]]
    BY <1>2 DEF Status!DropWaiting
  <2>2. memberRow' \in [Users -> MemberRows] /\ told' \in [Users -> Flagged]
    BY <1>6, <2>1
  <2>. QED  BY <1>2, <1>4, <2>2 DEF StatusTypes, StatusInv
<1>8. ASSUME NEW v \in PostWorkers PROVE TellerHolds(v)'
  <2>1. CASE v = w
    BY <1>3, <1>4, <2>1 DEF TellerHolds, Delivering, HasBatch
  <2>2. CASE v # w
    <3>1. TellerHolds(v) /\ (teller[v].pc = "send" => teller[v].batch # 0)
      BY DEF StatusInv, TellerHolds, HasBatch, StatusTypes
    <3>. QED  BY <1>2, <1>4, <1>6, <2>2, <3>1 DEF TellerHolds
  <2>. QED  BY <2>1, <2>2
<1>9. Status!NothingKeptUnset'
  BY <1>6 DEF Status!NothingKeptUnset, Status!Waiting
<1>. QED  BY <1>6, <1>7, <1>8, <1>9 DEF StatusInv

\* What a batch of a freeze does to the rows it looks at.
LEMMA AnnouncedType ==
  ASSUME NEW s \in MemberRows
  PROVE  /\ Status!Announced(s) \in MemberRows /\ Status!Announced(s).batch = s.batch
         /\ Status!Announced(s).entry = s.entry
<1>1. Status!ApplyPosted(s, Status!Entry(s)) \in MemberRows
      /\ Status!ApplyPosted(s, Status!Entry(s)).batch = s.batch
      /\ Status!ApplyPosted(s, Status!Entry(s)).entry = s.entry
  BY EntryRules, PostedType
<1>. QED  BY <1>1 DEF Status!Announced, MemberRows

LEMMA NewBatchKeeps ==
  ASSUME StatusInv, NEW w \in PostWorkers, NEW pick \in (SUBSET Users) \X (SUBSET Users),
         pick[1] \cap pick[2] = {}, Status!NewBatch(w, pick), Status!FrozenBatches = {},
         teller[w].pc = "freeze",
         officers # NoChannel, UNCHANGED <<joins, officers, delivered, remembered>>
  PROVE  StatusInv'
<1>. DEFINE id == spent.batches + 1
<1>1. /\ memberRow \in [Users -> MemberRows] /\ told \in [Users -> Flagged]
      /\ teller \in [PostWorkers -> Tellers]
      /\ spent \in [records : Nat, settings : Nat, faults : Nat, batches : Nat] /\ id \in Nat
  BY DEF StatusInv, StatusTypes
<1>2. \A u \in Users : memberRow[u].batch = 0
  BY DEF Status!FrozenBatches
<1>3. PICK chosen \in SUBSET Users, silent \in SUBSET Users :
        chosen = pick[1] /\ silent = pick[2] /\ chosen \cap silent = {}
  OBVIOUS
<1>4. /\ memberRow' = [u \in Users |->
           IF u \in chosen THEN [memberRow[u] EXCEPT !.batch = id, !.entry = Status!Entry(memberRow[u])]
           ELSE IF u \in silent THEN Status!Announced(memberRow[u]) ELSE memberRow[u]]
      /\ told' = [u \in Users |->
           IF u \in silent THEN Status!Silently(u, Status!Announced(memberRow[u])) ELSE told[u]]
      /\ IF chosen = {}
         THEN teller' = [teller EXCEPT ![w] = [teller[w] EXCEPT !.pc = "finish"]] /\ spent' = spent
         ELSE /\ teller' = [teller EXCEPT ![w] = [teller[w] EXCEPT !.pc = "send", !.batch = id,
                             !.resumed = FALSE, !.then = "guard",
                             !.entries = [u \in chosen |-> Status!Entry(memberRow[u])]]]
              /\ spent' = [spent EXCEPT !.batches = id]
  BY <1>3, Zenon DEF Status!NewBatch, Status!Goes
<1>5. /\ spent' \in [records : Nat, settings : Nat, faults : Nat, batches : Nat]
      /\ spent'.batches = IF chosen = {} THEN spent.batches ELSE id
  BY <1>1, <1>4, Zenon
<1>6. \E next \in Tellers :
        /\ teller' = [teller EXCEPT ![w] = next]
        /\ next.channel = teller[w].channel /\ next.pc \in {"finish", "send"}
        /\ chosen = {} <=> next.pc = "finish"
        /\ chosen # {} => next.batch = id /\ next.entries = [u \in chosen |-> Status!Entry(memberRow[u])]
  <2>1. teller[w] \in Tellers
    BY <1>1
  <2>2. CASE chosen = {}
    BY <1>4, <2>1, <2>2 DEF Tellers
  <2>3. CASE chosen # {}
    <3>1. [u \in chosen |-> Status!Entry(memberRow[u])] \in [chosen -> StatusEntries]
      BY <1>1, EntryRules
    <3>2. PICK frozen \in UNION {[S -> StatusEntries] : S \in SUBSET Users} :
            frozen = [u \in chosen |-> Status!Entry(memberRow[u])]
      BY <3>1
    <3>3. teller' = [teller EXCEPT ![w] = [teller[w] EXCEPT !.pc = "send", !.batch = id,
                       !.resumed = FALSE, !.then = "guard", !.entries = frozen]]
      BY <1>4, <2>3, <3>2, Zenon
    <3>4. PICK next : next = [teller[w] EXCEPT !.pc = "send", !.batch = id, !.resumed = FALSE,
                                !.then = "guard", !.entries = frozen]
      OBVIOUS
    <3>5. next \in Tellers /\ next.channel = teller[w].channel /\ next.pc = "send"
          /\ next.batch = id /\ next.entries = frozen
      BY <1>1, <2>1, <3>4 DEF Tellers, Delivering
    <3>. QED  BY <2>3, <3>2, <3>3, <3>4, <3>5, Zenon
  <2>. QED  BY <2>2, <2>3
<1>. HIDE DEF id
<1>7. PICK next \in Tellers :
        /\ teller'[w] = next /\ (\A v \in PostWorkers \ {w} : teller'[v] = teller[v])
        /\ teller' \in [PostWorkers -> Tellers]
        /\ next.channel = teller[w].channel /\ next.pc \in {"finish", "send"}
        /\ chosen = {} <=> next.pc = "finish"
        /\ chosen # {} => next.batch = id /\ next.entries = [u \in chosen |-> Status!Entry(memberRow[u])]
  <2>1. PICK next \in Tellers :
          /\ teller' = [teller EXCEPT ![w] = next]
          /\ next.channel = teller[w].channel /\ next.pc \in {"finish", "send"}
          /\ chosen = {} <=> next.pc = "finish"
          /\ chosen # {} => next.batch = id /\ next.entries = [u \in chosen |-> Status!Entry(memberRow[u])]
    BY <1>6
  <2>2. /\ teller'[w] = next /\ (\A v \in PostWorkers \ {w} : teller'[v] = teller[v])
        /\ teller' \in [PostWorkers -> Tellers]
    BY <1>1, <2>1
  <2>. QED  BY <2>1, <2>2
<1>8. ASSUME NEW u \in Users
      PROVE  /\ memberRow'[u] \in MemberRows /\ told'[u] \in Flagged
             /\ memberRow'[u].batch = IF u \in chosen THEN id ELSE 0
             /\ u \in chosen => memberRow'[u].entry = Status!Entry(memberRow[u])
  <2>1. memberRow[u] \in MemberRows /\ told[u] \in Flagged
    BY <1>1
  <2>2. CASE u \in chosen
    <3>1. memberRow'[u] = [memberRow[u] EXCEPT !.batch = id, !.entry = Status!Entry(memberRow[u])]
      BY <1>4, <2>2, Zenon
    <3>2. Status!Entry(memberRow[u]) \in StatusEntries
      BY <2>1, EntryRules
    <3>3. memberRow'[u] \in MemberRows /\ memberRow'[u].batch = id
          /\ memberRow'[u].entry = Status!Entry(memberRow[u])
      BY <1>1, <2>1, <3>1, <3>2 DEF MemberRows
    <3>4. told'[u] \in Flagged
      BY <1>3, <1>4, <2>1, <2>2, Zenon
    <3>. QED  BY <2>2, <3>3, <3>4
  <2>3. CASE u \notin chosen
    <3>1. Status!Announced(memberRow[u]) \in MemberRows /\ Status!Announced(memberRow[u]).batch = 0
      BY <1>2, <2>1, AnnouncedType
    <3>2. Status!Silently(u, Status!Announced(memberRow[u])) \in Flagged
      BY <2>1, <3>1 DEF Status!Silently, Flagged, Status!Values, MemberRows
    <3>. QED  BY <1>2, <1>4, <2>1, <2>3, <3>1, <3>2, Zenon
  <2>. QED  BY <2>2, <2>3
<1>9. \A b : BatchShown(b) => b \in 1 .. spent.batches
  BY DEF BatchShown, StatusInv, StatusTypes, TellerHolds, HasBatch
<1>10. \A b : BatchShown(b)' => BatchShown(b)
  BY <1>7 DEF BatchShown
<1>11. ASSUME NEW u \in Users PROVE MemberHolds(u)'
  <2>1. memberRow[u] \in MemberRows /\ told[u] \in Flagged /\ MemberHolds(u)
        /\ memberRow[u].batch = 0
    BY <1>1, <1>2 DEF StatusInv
  <2>2. CASE u \in chosen
    <3>1. /\ memberRow'[u].batch = id /\ memberRow'[u].entry = Status!Entry(memberRow[u])
          /\ memberRow'[u].announced = memberRow[u].announced /\ memberRow'[u].joined = memberRow[u].joined
          /\ told'[u] = told[u]
      BY <1>3, <1>4, <1>8, <2>1, <2>2, Zenon DEF MemberRows
    <3>2. ~BatchShown(id)
      BY <1>1, <1>9 DEF id
    <3>3. ~BatchShown(memberRow[u].batch)'
      BY <1>10, <3>1, <3>2 DEF BatchShown
    <3>4. \A f \in Flags : memberRow'[u].entry.from[f] \notin {"unset", memberRow'[u].entry.to[f]}
                             => memberRow'[u].entry.to[f] # "unset"
      BY <2>1, <3>1, EntryRules
    <3>5. memberRow'[u].batch <= spent'.batches
      BY <1>1, <1>5, <2>2, <3>1
    <3>. QED  BY <2>1, <3>1, <3>3, <3>4, <3>5 DEF MemberHolds
  <2>3. CASE u \in silent
    <3>1. memberRow'[u] = Status!Announced(memberRow[u])
          /\ told'[u] = Status!Silently(u, Status!Announced(memberRow[u]))
      BY <1>3, <1>4, <2>3, Zenon
    <3>2. memberRow'[u].batch = 0 /\ memberRow'[u].entry = memberRow[u].entry
      BY <2>1, <3>1, AnnouncedType
    <3>3. \A f \in Flags : "unset" \notin {memberRow'[u].announced[f], told'[u][f]} =>
            told'[u][f] = memberRow'[u].announced[f]
      BY <2>1, <3>1 DEF Status!Silently, MemberHolds
    <3>4. 0 <= spent'.batches
      BY <1>5
    <3>. QED  BY <2>1, <3>2, <3>3, <3>4 DEF MemberHolds
  <2>4. CASE u \notin chosen /\ u \notin silent
    <3>1. memberRow'[u] = memberRow[u] /\ told'[u] = told[u]
      BY <1>4, <2>4, Zenon
    <3>2. 0 <= spent'.batches
      BY <1>5
    <3>. QED  BY <2>1, <3>1, <3>2 DEF MemberHolds
  <2>. QED  BY <2>2, <2>3, <2>4
<1>12. StatusTypes'
  <2>1. memberRow' \in [Users -> MemberRows] /\ told' \in [Users -> Flagged]
    BY <1>4, <1>8, Zenon
  <2>2. 1 .. spent.batches \subseteq 1 .. spent'.batches
    BY <1>1, <1>5 DEF id
  <2>. QED  BY <1>5, <1>7, <2>1, <2>2 DEF StatusTypes, StatusInv
<1>13. ASSUME NEW v \in PostWorkers PROVE TellerHolds(v)'
  <2>1. TellerHolds(v) /\ TellerHolds(w)
    BY DEF StatusInv
  <2>2. CASE v = w
    <3>1. teller'[v] = next /\ next.channel # NoChannel
      BY <1>7, <2>1, <2>2 DEF TellerHolds, Delivering
    <3>2. CASE next.pc = "finish"
      BY <3>1, <3>2 DEF TellerHolds, Delivering, HasBatch
    <3>3. CASE next.pc = "send"
      <4>1. next.batch = id /\ next.entries = [u \in chosen |-> Status!Entry(memberRow[u])]
            /\ chosen # {}
        BY <1>7, <3>3
      <4>2. id \in 1 .. spent'.batches /\ id # 0
        BY <1>1, <1>5, <4>1 DEF id
      <4>3. \A u \in Users : memberRow'[u].batch = id =>
              u \in DOMAIN next.entries /\ next.entries[u] = memberRow'[u].entry
        BY <1>8, <4>1, <4>2
      <4>. QED  BY <3>1, <3>3, <4>1, <4>2, <4>3 DEF TellerHolds
    <3>. QED  BY <1>7, <3>2, <3>3
  <2>3. CASE v # w
    <3>1. teller'[v] = teller[v] /\ teller[v] \in Tellers
      BY <1>1, <1>7, <2>3
    <3>2. teller[v].pc \in HasBatch =>
            /\ teller[v].batch \in 1 .. spent'.batches
            /\ teller[v].batch # 0 /\ teller[v].batch # id
      BY <1>1, <1>5, <2>1 DEF TellerHolds, id
    <3>. QED  BY <1>8, <2>1, <3>1, <3>2 DEF TellerHolds, HasBatch
  <2>. QED  BY <2>2, <2>3
<1>14. Status!NothingKeptUnset'
  BY DEF Status!NothingKeptUnset
<1>. QED  BY <1>11, <1>12, <1>13, <1>14 DEF StatusInv

LEMMA TellerFreezes ==
  ASSUME StatusInv, NEW w \in PostWorkers, Status!Freeze(w) PROVE StatusInv'
<1>1. UNCHANGED <<officers, joins, delivered, remembered>> /\ teller[w].pc = "freeze"
  BY DEF Status!Freeze
<1>2. teller[w].channel # NoChannel /\ teller[w] \in Tellers
  BY <1>1 DEF StatusInv, TellerHolds, Delivering, StatusTypes
<1>3. CASE UNCHANGED <<memberRow, told, spent>> /\ Status!Ends(w, "queued")
  BY <1>1, <1>3, TellerEnds
<1>4. CASE UNCHANGED <<memberRow, told, spent>>
           /\ \E b \in Status!FrozenBatches : Status!Goes(w, Status!Posting(w, b, TRUE, "guard"))
  <2>1. PICK b \in Status!FrozenBatches : Status!Goes(w, Status!Posting(w, b, TRUE, "guard"))
    BY <1>4
  <2>2. OnlyLooks
    BY <1>1, <1>4 DEF OnlyLooks, StatusInv, StatusTypes
  <2>3. MayGoTo(Status!Posting(w, b, TRUE, "guard"))
    BY <1>1, PostingGoes DEF Delivering
  <2>. QED  BY <1>1, <2>1, <2>2, <2>3, GoesKeeps
<1>5. CASE /\ Status!FrozenBatches = {} /\ officers = teller[w].channel
           /\ \E pick \in Status!Chosen({u \in teller[w].cutoff : memberRow[u].since # "none"}) :
                Status!NewBatch(w, pick)
  <2>1. PICK pick \in Status!Chosen({u \in teller[w].cutoff : memberRow[u].since # "none"}) : Status!NewBatch(w, pick)
    BY <1>5
  <2>2. {u \in teller[w].cutoff : memberRow[u].since # "none"} \subseteq Users
    BY <1>2 DEF Tellers
  <2>3. pick \in (SUBSET Users) \X (SUBSET Users) /\ pick[1] \cap pick[2] = {}
    BY <2>2 DEF Status!Chosen
  <2>. QED  BY <1>1, <1>2, <1>5, <2>1, <2>3, NewBatchKeeps
<1>6. \/ UNCHANGED <<memberRow, told, spent>> /\ Status!Ends(w, "queued")
      \/ UNCHANGED <<memberRow, told, spent>>
           /\ \E b \in Status!FrozenBatches : Status!Goes(w, Status!Posting(w, b, TRUE, "guard"))
      \/ /\ Status!FrozenBatches = {} /\ officers = teller[w].channel
         /\ \E pick \in Status!Chosen({u \in teller[w].cutoff : memberRow[u].since # "none"}) :
                Status!NewBatch(w, pick)
  BY Zenon DEF Status!Freeze
<1>. QED  BY <1>3, <1>4, <1>5, <1>6

\* What Discord shows of a batch: the readers learn what its entries say.
LEMMA ShowingKeeps ==
  ASSUME StatusInv, NEW w \in PostWorkers, teller[w].pc = "send", Status!Reads(w),
         remembered' = remembered \cup {teller[w].batch},
         UNCHANGED <<memberRow, officers, delivered>>,
         NEW next \in Tellers, Status!Goes(w, next), next.pc \in {"idle", "deliver"},
         next.pc = "deliver" => next.batch = teller[w].batch /\ next.channel = teller[w].channel,
         spent' \in [records : Nat, settings : Nat, faults : Nat, batches : Nat],
         spent'.batches = spent.batches, joins' \in [Users -> Nat \ {0}]
  PROVE  StatusInv'
<1>1. PICK b : b = teller[w].batch
  OBVIOUS
<1>2. /\ memberRow \in [Users -> MemberRows] /\ told \in [Users -> Flagged]
      /\ b \in 1 .. spent.batches /\ b # 0 /\ TellerHolds(w)
  BY <1>1 DEF StatusInv, StatusTypes, TellerHolds, HasBatch
<1>3. teller'[w] = next /\ (\A v \in PostWorkers \ {w} : teller'[v] = teller[v])
      /\ teller' \in [PostWorkers -> Tellers]
  BY DEF Status!Goes, StatusInv, StatusTypes
<1>4. ASSUME NEW u \in Users
      PROVE  told'[u] = IF memberRow[u].batch = b
                        THEN [f \in Flags |-> IF TellsFlag(memberRow[u], f) THEN memberRow[u].entry.to[f]
                                              ELSE told[u][f]]
                        ELSE told[u]
  <2>1. CASE memberRow[u].batch = b
    <3>1. u \in DOMAIN teller[w].entries /\ teller[w].entries[u] = memberRow[u].entry
      BY <1>1, <1>2, <2>1 DEF TellerHolds
    <3>2. told'[u] = [f \in Flags |->
            IF /\ teller[w].entries[u].joined = memberRow[u].joined
               /\ teller[w].entries[u].from[f] \notin {"unset", teller[w].entries[u].to[f]}
            THEN teller[w].entries[u].to[f] ELSE told[u][f]]
      BY <1>1, <2>1, <3>1 DEF Status!Reads
    <3>. QED  BY <2>1, <3>1, <3>2 DEF TellsFlag
  <2>2. CASE memberRow[u].batch # b
    BY <1>1, <2>2 DEF Status!Reads
  <2>. QED  BY <2>1, <2>2
<1>5. ASSUME NEW u \in Users PROVE told'[u] \in Flagged
  <2>1. told[u] \in [Flags -> Status!Values] /\ memberRow[u].entry.to \in [Flags -> Status!Values]
    BY <1>2 DEF MemberRows, StatusEntries, Flagged
  <2>2. CASE memberRow[u].batch = b
    <3>1. told'[u] = [f \in Flags |-> IF TellsFlag(memberRow[u], f) THEN memberRow[u].entry.to[f] ELSE told[u][f]]
      BY <1>4, <2>2
    <3>. QED  BY <2>1, <3>1 DEF Flagged
  <2>3. CASE memberRow[u].batch # b
    BY <1>2, <1>4, <2>3
  <2>. QED  BY <2>2, <2>3
<1>6. StatusTypes'
  <2>1. told' = [u \in Users |-> told'[u]]
    BY DEF Status!Reads
  <2>2. told' \in [Users -> Flagged]
    BY <1>5, <2>1
  <2>. QED  BY <1>1, <1>2, <1>3, <2>2 DEF StatusTypes, StatusInv
<1>7. \A c : BatchShown(c)' => BatchShown(c) \/ c = b
  BY <1>1, <1>3 DEF BatchShown
<1>8. ASSUME NEW u \in Users PROVE MemberHolds(u)'
  <2>1. MemberHolds(u) /\ memberRow'[u] = memberRow[u] /\ memberRow[u] \in MemberRows
        /\ told[u] \in Flagged
    BY <1>2 DEF StatusInv
  <2>2. BatchShown(memberRow[u].batch)' => BatchShown(memberRow[u].batch) \/ memberRow[u].batch = b
    BY <1>1, <1>3, <2>1 DEF BatchShown
  <2>3. \A f \in Flags : TellsFlag(memberRow[u], f)' <=> TellsFlag(memberRow[u], f)
    BY <2>1 DEF TellsFlag
  <2>4. CASE memberRow[u].batch = b
    <3>1. \A f \in Flags : told'[u][f] = IF TellsFlag(memberRow[u], f) THEN memberRow[u].entry.to[f] ELSE told[u][f]
      BY <1>4, <2>4
    <3>. QED  BY <1>1, <1>2, <2>1, <2>3, <2>4, <3>1 DEF MemberHolds
  <2>5. CASE memberRow[u].batch # b
    BY <1>4, <2>1, <2>2, <2>3, <2>5 DEF MemberHolds
  <2>. QED  BY <2>4, <2>5
<1>9. ASSUME NEW v \in PostWorkers PROVE TellerHolds(v)'
  BY <1>1, <1>2, <1>3 DEF TellerHolds, StatusInv, Delivering, HasBatch
<1>10. Status!NothingKeptUnset'
  BY DEF Status!NothingKeptUnset, StatusInv, Status!Waiting
<1>. QED  BY <1>6, <1>8, <1>9, <1>10 DEF StatusInv

LEMMA TellerSends ==
  ASSUME StatusInv, NEW w \in PostWorkers, Status!Send(w) PROVE StatusInv'
<1>1. /\ UNCHANGED <<memberRow, joins, officers, delivered, spent>> /\ teller[w].pc = "send"
      /\ Status!Goes(w, [teller[w] EXCEPT !.pc = "deliver"])
  BY DEF Status!Send
<1>2. teller[w] \in Tellers /\ TellerHolds(w)
  BY DEF StatusInv, StatusTypes
<1>3. PICK next : next = [teller[w] EXCEPT !.pc = "deliver"]
  OBVIOUS
<1>4. next \in Tellers /\ next.pc = "deliver" /\ next.batch = teller[w].batch
      /\ next.channel = teller[w].channel
  BY <1>2, <1>3 DEF Tellers, Delivering
<1>5. CASE teller[w].batch \in remembered
  <2>1. UNCHANGED <<told, remembered>>
    BY <1>5 DEF Status!Send, Status!Shows
  <2>2. BatchShown(next.batch)
    BY <1>4, <1>5 DEF BatchShown
  <2>3. MayGoTo(next)
    BY <1>1, <1>2, <1>4, <2>2 DEF MayGoTo, TellerHolds, Delivering, HasBatch
  <2>4. OnlyLooks
    BY <1>1, <2>1 DEF OnlyLooks, StatusInv, StatusTypes
  <2>. QED  BY <1>1, <1>3, <2>1, <2>3, <2>4, GoesKeeps
<1>6. CASE teller[w].batch \notin remembered
  <2>1. Status!Reads(w) /\ remembered' = remembered \cup {teller[w].batch}
    BY <1>6 DEF Status!Send, Status!Shows
  <2>2. spent' \in [records : Nat, settings : Nat, faults : Nat, batches : Nat]
        /\ spent'.batches = spent.batches /\ joins' \in [Users -> Nat \ {0}]
    BY <1>1 DEF StatusInv, StatusTypes
  <2>. QED  BY <1>1, <1>3, <1>4, <2>1, <2>2, ShowingKeeps
<1>. QED  BY <1>5, <1>6

LEMMA TellerFails ==
  ASSUME StatusInv, NEW w \in PostWorkers, Status!SendFails(w) PROVE StatusInv'
<1>1. /\ UNCHANGED <<memberRow, joins, officers, delivered>> /\ teller[w].pc = "send"
      /\ Status!Goes(w, Status!Idle) /\ (Status!Shows(w) \/ UNCHANGED <<told, remembered>>)
  BY DEF Status!SendFails, Status!Ends
<1>2. /\ spent' \in [records : Nat, settings : Nat, faults : Nat, batches : Nat]
      /\ spent'.batches = spent.batches
  BY SpentType DEF Status!SendFails
<1>3. joins' \in [Users -> Nat \ {0}]
  BY <1>1 DEF StatusInv, StatusTypes
<1>4. CASE UNCHANGED <<told, remembered>>
  <2>1. OnlyLooks
    BY <1>1, <1>2, <1>3, <1>4 DEF OnlyLooks
  <2>. QED  BY <1>1, <1>4, <2>1, IdleGoes, GoesKeeps
<1>5. CASE Status!Reads(w) /\ remembered' = remembered \cup {teller[w].batch}
  BY <1>1, <1>2, <1>3, <1>5, TellerIdle, ShowingKeeps
<1>. QED  BY <1>1, <1>4, <1>5 DEF Status!Shows

LEMMA TellerDelivers ==
  ASSUME StatusInv, NEW w \in PostWorkers, Status!Deliver(w) PROVE StatusInv'
<1>1. /\ UNCHANGED <<memberRow, told, joins, officers, remembered, spent>>
      /\ teller[w].pc = "deliver"
      /\ delivered' = delivered \cup {teller[w].batch}
      /\ Status!Goes(w, [teller[w] EXCEPT !.pc = "mark"])
  BY DEF Status!Deliver
<1>2. teller[w] \in Tellers /\ TellerHolds(w)
  BY DEF StatusInv, StatusTypes
<1>3. PICK next : next = [teller[w] EXCEPT !.pc = "mark"]
  OBVIOUS
<1>4. next \in Tellers /\ next.pc = "mark" /\ next.batch = teller[w].batch
      /\ next.channel = teller[w].channel
  BY <1>2, <1>3 DEF Tellers, Delivering
<1>5. BatchShown(teller[w].batch) /\ teller[w].batch \in 1 .. spent.batches
  BY <1>1, <1>2 DEF BatchShown, TellerHolds, HasBatch
<1>6. MayGoTo(next)
  BY <1>1, <1>2, <1>4, <1>5 DEF MayGoTo, TellerHolds, Delivering, HasBatch
<1>7. OnlyLooks
  BY <1>1 DEF OnlyLooks, StatusInv, StatusTypes
<1>8. \A b \in (delivered \cup remembered)' : BatchShown(b) /\ b \in 1 .. spent.batches
  BY <1>1, <1>5 DEF BatchShown, StatusInv, StatusTypes
<1>. QED  BY <1>1, <1>3, <1>6, <1>7, <1>8, GoesTelling

\* The mark takes what was posted as announced; what changed since waits from now.
LEMMA TellerMarks ==
  ASSUME StatusInv, NEW w \in PostWorkers, Status!Mark(w) PROVE StatusInv'
<1>1. PICK b : b = teller[w].batch
  OBVIOUS
<1>2. /\ memberRow \in [Users -> MemberRows] /\ told \in [Users -> Flagged]
      /\ teller \in [PostWorkers -> Tellers]
      /\ teller[w].pc = "mark" /\ TellerHolds(w)
      /\ UNCHANGED <<joins, officers, delivered, remembered, told, spent>>
  BY DEF StatusInv, StatusTypes, Status!Mark
<1>3. b \in 1 .. spent.batches /\ b # 0 /\ BatchShown(b)
  BY <1>1, <1>2 DEF TellerHolds, HasBatch, BatchShown
<1>4. /\ memberRow' = [u \in Users |->
            IF u \notin Status!Frozen(b) THEN memberRow[u]
            ELSE [Status!Cleared(Status!ApplyPosted(memberRow[u], memberRow[u].entry)) EXCEPT
                    !.since = IF Status!Pending(Status!ApplyPosted(memberRow[u], memberRow[u].entry)) THEN "young" ELSE "none"]]
      /\ teller' = [v \in PostWorkers |->
            IF v = w THEN [teller[w] EXCEPT !.pc = teller[w].then,
                             !.cutoff = teller[w].cutoff \ Status!Frozen(b), !.entries = Status!Idle.entries]
            ELSE [teller[v] EXCEPT !.cutoff = teller[v].cutoff \ Status!Frozen(b)]]
  BY <1>1 DEF Status!Mark
<1>5. ASSUME NEW u \in Status!Frozen(b)
      PROVE  /\ u \in Users /\ memberRow[u] \in MemberRows /\ memberRow[u].batch = b
             /\ memberRow'[u] \in MemberRows /\ memberRow'[u].batch = 0 /\ memberRow'[u].entry = Status!NoEntry
             /\ \A f \in Flags : memberRow'[u].announced[f] =
                  IF TellsFlag(memberRow[u], f) /\ memberRow[u].announced[f] = memberRow[u].entry.from[f]
                  THEN memberRow[u].entry.to[f] ELSE memberRow[u].announced[f]
  <2>1. u \in Users /\ memberRow[u] \in MemberRows /\ memberRow[u].batch = b
        /\ memberRow[u].entry \in StatusEntries
    BY <1>2 DEF Status!Frozen, MemberRows
  <2>2. PICK done : done = Status!ApplyPosted(memberRow[u], memberRow[u].entry)
    OBVIOUS
  <2>3. done \in MemberRows /\ \A f \in Flags : done.announced[f] =
          IF TellsFlag(memberRow[u], f) /\ memberRow[u].announced[f] = memberRow[u].entry.from[f]
          THEN memberRow[u].entry.to[f] ELSE memberRow[u].announced[f]
    BY <2>1, <2>2, PostedType DEF TellsFlag
  <2>4. Status!Cleared(done) \in MemberRows /\ Status!Cleared(done).batch = 0
        /\ Status!Cleared(done).entry = Status!NoEntry
        /\ Status!Cleared(done).announced = done.announced
    BY <2>3, ClearedRow
  <2>5. memberRow'[u] = [Status!Cleared(done) EXCEPT !.since = IF Status!Pending(done) THEN "young" ELSE "none"]
    BY <1>4, <2>1, <2>2
  <2>6. /\ memberRow'[u] \in MemberRows /\ memberRow'[u].batch = 0
        /\ memberRow'[u].entry = Status!NoEntry
        /\ memberRow'[u].announced = done.announced
    BY <2>4, <2>5 DEF MemberRows
  <2>. QED  BY <2>1, <2>3, <2>6
<1>6. ASSUME NEW u \in Users, u \notin Status!Frozen(b)
      PROVE  memberRow'[u] = memberRow[u] /\ memberRow[u].batch # b
  BY <1>4, <1>6, Zenon DEF Status!Frozen
<1>7. ASSUME NEW v \in PostWorkers
      PROVE  /\ teller'[v] \in Tellers /\ teller'[v].channel = teller[v].channel
             /\ teller'[v].pc = IF v = w THEN teller[w].then ELSE teller[v].pc
             /\ v # w => teller'[v].batch = teller[v].batch /\ teller'[v].entries = teller[v].entries
  <2>1. teller[v] \in Tellers /\ Status!Idle.entries \in UNION {[S -> StatusEntries] : S \in SUBSET Users}
    BY <1>2, TellerIdle DEF Tellers
  <2>2. PICK cut \in SUBSET Users : cut = teller[v].cutoff \ Status!Frozen(b)
    BY <2>1 DEF Tellers
  <2>3. CASE v = w
    <3>1. teller'[v] = [teller[v] EXCEPT !.pc = teller[v].then, !.cutoff = cut, !.entries = Status!Idle.entries]
      BY <1>4, <2>2, <2>3
    <3>. QED  BY <2>1, <2>3, <3>1 DEF Tellers, Delivering
  <2>4. CASE v # w
    <3>1. teller'[v] = [teller[v] EXCEPT !.cutoff = cut]
      BY <1>4, <2>2, <2>4
    <3>. QED  BY <2>1, <2>4, <3>1 DEF Tellers
  <2>. QED  BY <2>3, <2>4
<1>8. teller[w].then \in {"idle", "window", "guard"}
  BY <1>2 DEF Tellers
<1>9. \A c : BatchShown(c)' => BatchShown(c)
  BY <1>2, <1>7, <1>8 DEF BatchShown
<1>10. StatusTypes'
  <2>1. memberRow' = [u \in Users |-> memberRow'[u]] /\ teller' = [v \in PostWorkers |-> teller'[v]]
    BY <1>4
  <2>2. memberRow' \in [Users -> MemberRows] /\ teller' \in [PostWorkers -> Tellers]
    BY <1>2, <1>5, <1>6, <1>7, <2>1
  <2>. QED  BY <1>2, <2>2 DEF StatusTypes, StatusInv
<1>11. ASSUME NEW u \in Users PROVE MemberHolds(u)'
  <2>1. MemberHolds(u) /\ told[u] \in Flagged /\ memberRow[u] \in MemberRows /\ told'[u] = told[u]
        /\ spent' = spent
    BY <1>2 DEF StatusInv
  <2>2. CASE u \in Status!Frozen(b)
    <3>1. ASSUME NEW f \in Flags, "unset" \notin {memberRow'[u].announced[f], told[u][f]}
          PROVE  told[u][f] = memberRow'[u].announced[f]
      <4>1. /\ memberRow[u].announced[f] \in Status!Values
            /\ memberRow[u].entry.from[f] \in Status!Values
            /\ memberRow[u].entry.to[f] \in Status!Values
        BY <2>1 DEF MemberRows, StatusEntries, Flagged
      <4>2. CASE TellsFlag(memberRow[u], f)
        <5>1. memberRow[u].announced[f] # "unset"
          BY <1>5, <2>2, <3>1, <4>2 DEF TellsFlag
        <5>2. told[u][f] = memberRow[u].entry.to[f]
          BY <1>3, <1>5, <2>1, <2>2, <3>1, <4>2, <5>1 DEF MemberHolds
        <5>. QED  BY <1>5, <2>2, <3>1, <4>1, <4>2, <5>1, <5>2 DEF TellsFlag, Status!Values
      <4>3. CASE ~TellsFlag(memberRow[u], f)
        BY <1>5, <2>1, <2>2, <3>1, <4>3 DEF MemberHolds
      <4>. QED  BY <4>2, <4>3
    <3>2. memberRow'[u].batch = 0 /\ memberRow'[u].entry = Status!NoEntry
      BY <1>5, <2>2
    <3>3. 0 <= spent.batches
      BY DEF StatusInv, StatusTypes
    <3>. QED  BY <2>1, <3>1, <3>2, <3>3, NoEntryType DEF MemberHolds
  <2>3. CASE u \notin Status!Frozen(b)
    <3>1. memberRow'[u] = memberRow[u]
      BY <1>6, <2>3
    <3>2. BatchShown(memberRow[u].batch)' => BatchShown(memberRow[u].batch)
      BY <1>2, <1>7, <1>8, <3>1 DEF BatchShown
    <3>3. \A f \in Flags : TellsFlag(memberRow[u], f)' <=> TellsFlag(memberRow[u], f)
      BY <3>1 DEF TellsFlag
    <3>. QED  BY <2>1, <3>1, <3>2, <3>3 DEF MemberHolds
  <2>. QED  BY <2>2, <2>3
<1>12. ASSUME NEW v \in PostWorkers PROVE TellerHolds(v)'
  <2>1. TellerHolds(v)
    BY DEF StatusInv
  <2>2. CASE v = w
    BY <1>2, <1>7, <1>8, <2>1, <2>2 DEF TellerHolds, Delivering, HasBatch
  <2>3. CASE v # w
    <3>1. teller[v].pc \in HasBatch => teller[v].batch # 0
      BY <2>1 DEF TellerHolds, StatusInv, StatusTypes
    <3>. QED  BY <1>2, <1>5, <1>6, <1>7, <2>1, <2>3, <3>1 DEF TellerHolds, HasBatch
  <2>. QED  BY <2>2, <2>3
<1>13. Status!NothingKeptUnset'
  <2>1. CASE officers = NoChannel
    <3>1. \A u \in Users : ~Status!Waiting(u)
      BY <2>1 DEF StatusInv, Status!NothingKeptUnset
    <3>2. \A u \in Users : memberRow'[u] = memberRow[u]
      BY <1>3, <1>5, <1>6, <3>1 DEF Status!Waiting
    <3>. QED  BY <3>1, <3>2 DEF Status!NothingKeptUnset, Status!Waiting
  <2>2. CASE officers # NoChannel
    BY <1>2, <2>2 DEF Status!NothingKeptUnset
  <2>. QED  BY <2>1, <2>2
<1>. QED  BY <1>10, <1>11, <1>12, <1>13 DEF StatusInv

LEMMA TellerGuards ==
  ASSUME StatusInv, NEW w \in PostWorkers, Status!Guard(w) \/ Status!Finish(w) PROVE StatusInv'
<1>1. UNCHANGED <<memberRow, told, officers, joins, spent, delivered, remembered>>
  BY DEF Status!Guard, Status!Finish
<1>2. CASE teller[w].pc = "guard" /\ Status!Goes(w, [teller[w] EXCEPT !.pc = "freeze"])
  <2>1. teller[w].channel # NoChannel
    BY <1>2 DEF StatusInv, TellerHolds, Delivering
  <2>2. "freeze" \in Delivering /\ "freeze" \notin HasBatch
    BY DEF Delivering, HasBatch
  <2>. QED  BY <1>1, <1>2, <2>1, <2>2, StageOnlyKeeps
<1>3. CASE \E ends : Status!Ends(w, ends)
  BY <1>1, <1>3, TellerEnds
<1>. QED  BY <1>2, <1>3 DEF Status!Guard, Status!Finish

LEMMA StatusFaultsKeep ==
  ASSUME StatusInv, \/ \E w \in PostWorkers : Status!Lapse(w)
                    \/ \E b \in remembered : Status!NonceExpires(b)
  PROVE  StatusInv'
<1>1. /\ UNCHANGED <<memberRow, joins, officers, delivered, told>>
      /\ remembered' \subseteq remembered
      /\ spent' \in [records : Nat, settings : Nat, faults : Nat, batches : Nat]
      /\ spent'.batches = spent.batches
  BY SpentType DEF Status!Lapse, Status!NonceExpires, StatusInv, StatusTypes
<1>2. CASE teller' = teller
  <2>1. StatusTypes'
    BY <1>1, <1>2 DEF StatusTypes, StatusInv
  <2>2. ASSUME NEW u \in Users PROVE MemberHolds(u)'
    <3>1. BatchShown(memberRow[u].batch)' => BatchShown(memberRow[u].batch)
      BY <1>1, <1>2 DEF BatchShown
    <3>2. \A f \in Flags : TellsFlag(memberRow[u], f)' <=> TellsFlag(memberRow[u], f)
      BY <1>1 DEF TellsFlag
    <3>. QED  BY <1>1, <3>1, <3>2 DEF MemberHolds, StatusInv
  <2>3. ASSUME NEW w \in PostWorkers PROVE TellerHolds(w)'
    BY <1>1, <1>2 DEF TellerHolds, StatusInv
  <2>4. Status!NothingKeptUnset'
    BY <1>1 DEF Status!NothingKeptUnset, StatusInv, Status!Waiting
  <2>. QED  BY <2>1, <2>2, <2>3, <2>4 DEF StatusInv
<1>3. CASE remembered' = remembered /\ \E w \in PostWorkers : Status!Goes(w, Status!Idle)
  <2>1. OnlyLooks
    BY <1>1 DEF OnlyLooks, StatusInv, StatusTypes
  <2>. QED  BY <1>1, <1>3, <2>1, IdleGoes, GoesKeeps
<1>. QED  BY <1>2, <1>3 DEF Status!Lapse, Status!NonceExpires

LEMMA StatusStart == Status!Init => StatusInv
<1>. SUFFICES ASSUME Status!Init PROVE StatusInv
  OBVIOUS
<1>1. /\ \A u \in Users : /\ memberRow[u] = Status!Fresh /\ told[u] = Status!Unknown /\ joins[u] = 1
      /\ memberRow = [u \in Users |-> Status!Fresh] /\ told = [u \in Users |-> Status!Unknown]
      /\ joins = [u \in Users |-> 1] /\ teller = [w \in PostWorkers |-> Status!Idle]
      /\ officers \in Channels /\ delivered = {} /\ remembered = {}
      /\ spent = [records |-> 0, settings |-> 0, faults |-> 0, batches |-> 0]
  BY DEF Status!Init
<1>2. Status!Fresh \in MemberRows /\ Status!Fresh.batch = 0 /\ Status!Fresh.entry = Status!NoEntry
      /\ Status!Fresh.announced = Status!Unknown /\ Status!Fresh.since = "none"
  BY UnknownType, NoEntryType DEF Status!Fresh, MemberRows
<1>3. StatusTypes
  BY <1>1, <1>2, UnknownType, TellerIdle DEF StatusTypes
<1>4. \A u \in Users : MemberHolds(u)
  BY <1>1, <1>2, NoEntryType DEF MemberHolds, Status!Unknown
<1>5. \A w \in PostWorkers : TellerHolds(w)
  BY <1>1, TellerIdle DEF TellerHolds, Delivering, HasBatch
<1>6. Status!NothingKeptUnset
  BY <1>1, StatusAssumption DEF Status!NothingKeptUnset, Status!ConstantsOK
<1>. QED  BY <1>3, <1>4, <1>5, <1>6 DEF StatusInv

LEMMA StatusStep ==
  ASSUME StatusInv, Status!Next \/ UNCHANGED Status!vars PROVE StatusInv'
<1>1. CASE UNCHANGED Status!vars
  <2>1. ASSUME NEW u \in Users PROVE MemberHolds(u)'
    BY <1>1 DEF Status!vars, MemberHolds, BatchShown, TellsFlag, StatusInv
  <2>2. ASSUME NEW w \in PostWorkers PROVE TellerHolds(w)'
    BY <1>1 DEF Status!vars, TellerHolds, StatusInv
  <2>3. StatusTypes' /\ Status!NothingKeptUnset'
    BY <1>1 DEF Status!vars, StatusTypes, Status!NothingKeptUnset, Status!Waiting, StatusInv
  <2>. QED  BY <2>1, <2>2, <2>3 DEF StatusInv
<1>2. CASE \E u \in Users : Status!Record(u) \/ Status!Rejoin(u) \/ Status!WindowEnds(u)
  BY <1>2, RecordsKeep, RejoinsKeep
<1>3. CASE \E u \in Users, d \in Departures : Status!RecordDeparture(u, d)
  BY <1>3, DeparturesKeep
<1>4. CASE Status!SetEffects \/ \E c \in Channels \cup {NoChannel} : Status!SetChannel(c)
  BY <1>4, OfficersKeep
<1>5. CASE \E w \in PostWorkers : Status!Claim(w) \/ Status!Steps(w) \/ Status!SendFails(w) \/ Status!Lapse(w)
  <2>1. PICK w \in PostWorkers : Status!Claim(w) \/ Status!Steps(w) \/ Status!SendFails(w) \/ Status!Lapse(w)
    BY <1>5
  <2>2. CASE Status!Steps(w)
    BY <2>2, TellerBegins, TellerDrops, TellerResumes, TellerWaits, TellerFreezes, TellerSends,
       TellerDelivers, TellerMarks, TellerGuards DEF Status!Steps
  <2>. QED  BY <2>1, <2>2, TellerClaims, TellerFails, StatusFaultsKeep
<1>6. CASE \E b \in remembered : Status!NonceExpires(b)
  BY <1>6, StatusFaultsKeep
<1>7. \/ UNCHANGED Status!vars
      \/ \E u \in Users : Status!Record(u) \/ Status!Rejoin(u) \/ Status!WindowEnds(u)
      \/ \E u \in Users, d \in Departures : Status!RecordDeparture(u, d)
      \/ Status!SetEffects \/ \E c \in Channels \cup {NoChannel} : Status!SetChannel(c)
      \/ \E w \in PostWorkers : Status!Claim(w) \/ Status!Steps(w) \/ Status!SendFails(w) \/ Status!Lapse(w)
      \/ \E b \in remembered : Status!NonceExpires(b)
  BY Zenon DEF Status!Next
<1>. QED  BY <1>1, <1>2, <1>3, <1>4, <1>5, <1>6, <1>7

LEMMA StatusTrue == StatusInv => Status!AnnouncedIsTold /\ Status!NothingKeptUnset
  BY DEF StatusInv, MemberHolds, Status!AnnouncedIsTold

\* Through crashes, lost answers, repeated sends, rejoins and changes made while a post is
\* sent, what a row calls announced was told, and nothing waits without a channel.
THEOREM NoticesStayTrue == PartsSpec => []NoticesAreTrue
<1>. DEFINE all == <<part, vars, postVars, outageVars, rowVars, gateVars, statusVars, webVars>>
<1>1. PartsInit => StatusInv
  BY StatusStart DEF PartsInit
<1>2. [PartsNext]_all => Status!Next \/ UNCHANGED Status!vars
  BY DEF PartsNext, Moves, statusVars, Status!vars
<1>3. StatusInv /\ [PartsNext]_all => StatusInv'
  BY <1>2, StatusStep
<1>4. StatusInv => NoticesAreTrue
  BY StatusTrue DEF NoticesAreTrue
<1>. QED
  BY <1>1, <1>3, <1>4, PTL DEF PartsSpec

-----------------------------------------------------------------------------
(* The Lodestone's gate (LodestoneGate) *)

Those(places) == {r \in Requests : req[r].pc \in places}

\* A sequence that lists the members of a set, each once.
Lists(s, S) ==
  /\ s \in Seq(Requests) /\ Gate!ToSet(s) = S
  /\ \A i, j \in 1..Len(s) : s[i] = s[j] => i = j

GateTypes ==
  /\ time \in 0..GateHorizon /\ strikes \in Nat /\ lost \in BOOLEAN
  /\ req \in [Requests -> [pc : Gate!Places, attempt : 1..Attempts]]

\* The two queues list the requests that wait in them, and only the head of the start line
\* waits for its start slot.
LinesOK ==
  /\ Lists(line, Those({"line", "pacing"})) /\ Lists(waiting, Those({"queued"}))
  /\ \A r \in Requests : req[r].pc = "pacing" => line # <<>> /\ Head(line) = r

\* The slots in use and those a woken request is about to take leave none for who waits.
SlotsOK ==
  /\ slots = Cardinality(Those(Gate!Holding)) /\ slots <= Concurrency
  /\ waiting # <<>> => Concurrency <= slots + Cardinality(Those({"woken"}))

GateInv == GateTypes /\ LinesOK /\ SlotsOK

\* A request that starts may: the start spacing has passed and no cooldown runs.
StartsAllowed ==
  \A r \in Requests : req[r].pc = "pacing" /\ req'[r].pc = "fetch" =>
    ~Gate!Cooling /\ lastStart' >= lastStart + Spacing

LEMMA GateConstants ==
  /\ IsFiniteSet(Requests) /\ Concurrency \in Nat \ {0} /\ Attempts \in Nat \ {0}
  /\ GateHorizon \in Nat
  BY GateAssumption DEF Gate!ConstantsOK, Gate!IsFiniteSet, IsFiniteSet

LEMMA GateCounts ==
  /\ \A S : Gate!Cardinality(S) = Cardinality(S)
  /\ \A places : IsFiniteSet(Those(places)) /\ Cardinality(Those(places)) \in Nat
<1>1. ASSUME NEW S PROVE Gate!Cardinality(S) = Cardinality(S)
  BY DEF Gate!Cardinality, Cardinality
<1>2. ASSUME NEW places PROVE IsFiniteSet(Those(places)) /\ Cardinality(Those(places)) \in Nat
  <2>1. Those(places) \subseteq Requests
    BY DEF Those
  <2>. QED  BY <2>1, GateConstants, FS_Subset, FS_CardinalityType
<1>. QED  BY <1>1, <1>2

LEMMA ListsAppend ==
  ASSUME NEW s, NEW S, Lists(s, S), NEW x \in Requests \ S
  PROVE  Lists(Append(s, x), S \cup {x}) /\ (s # <<>> => Head(Append(s, x)) = Head(s)) /\ Append(s, x) # <<>>
<1>1. s \in Seq(Requests) /\ \A y : y \in S <=> \E i \in 1..Len(s) : y = s[i]
  BY DEF Lists, Gate!ToSet
<1>2. PICK t : t = Append(s, x)
  OBVIOUS
<1>3. /\ t \in Seq(Requests) /\ Len(t) = Len(s) + 1 /\ t[Len(t)] = x /\ \A i \in 1..Len(s) : t[i] = s[i]
      /\ Len(s) \in Nat
  BY <1>1, <1>2
<1>4. \A y : y \in S \cup {x} <=> \E i \in 1..Len(t) : y = t[i]
  <2>1. ASSUME NEW i \in 1..Len(t) PROVE t[i] \in S \cup {x}
    <3>1. i \in 1..Len(s) \/ i = Len(t)
      BY <1>3
    <3>. QED  BY <1>1, <1>3, <3>1
  <2>2. ASSUME NEW y \in S PROVE \E i \in 1..Len(t) : y = t[i]
    <3>1. PICK i \in 1..Len(s) : y = s[i]
      BY <1>1
    <3>2. i \in 1..Len(t) /\ t[i] = y
      BY <1>3, <3>1
    <3>. QED  BY <3>2
  <2>3. Len(t) \in 1..Len(t)
    BY <1>3
  <2>. QED  BY <1>3, <2>1, <2>2, <2>3
<1>5. ASSUME NEW i \in 1..Len(t), NEW j \in 1..Len(t), t[i] = t[j] PROVE i = j
  <2>1. (i \in 1..Len(s) \/ i = Len(t)) /\ (j \in 1..Len(s) \/ j = Len(t))
    BY <1>3
  <2>2. \A k \in 1..Len(s) : s[k] # x
    BY <1>1
  <2>. QED  BY <1>3, <1>5, <2>1, <2>2 DEF Lists
<1>6. s # <<>> => Head(t) = Head(s)
  BY <1>1, <1>3
<1>7. Gate!ToSet(t) = S \cup {x}
  BY <1>3, <1>4 DEF Gate!ToSet
<1>8. t # <<>>
  BY <1>3
<1>. QED  BY <1>2, <1>3, <1>5, <1>6, <1>7, <1>8 DEF Lists

LEMMA ListsTail ==
  ASSUME NEW s, NEW S, Lists(s, S), s # <<>>
  PROVE  Head(s) \in S /\ Lists(Tail(s), S \ {Head(s)})
<1>1. s \in Seq(Requests) /\ \A y : y \in S <=> \E i \in 1..Len(s) : y = s[i]
  BY DEF Lists, Gate!ToSet
<1>2. PICK t : t = Tail(s)
  OBVIOUS
<1>3. /\ t \in Seq(Requests) /\ Len(s) \in Nat \ {0} /\ Len(t) = Len(s) - 1 /\ Head(s) = s[1]
      /\ \A i \in 1..Len(t) : t[i] = s[i + 1]
  BY <1>1, <1>2
<1>4. ASSUME NEW i \in 1..Len(t) PROVE t[i] \in S /\ t[i] # s[1]
  <2>1. i + 1 \in 1..Len(s) /\ 1 \in 1..Len(s) /\ i + 1 # 1
    BY <1>3
  <2>. QED  BY <1>1, <1>3, <2>1 DEF Lists
<1>5. ASSUME NEW y \in S, y # s[1] PROVE \E i \in 1..Len(t) : y = t[i]
  <2>1. PICK i \in 1..Len(s) : y = s[i]
    BY <1>1
  <2>2. i - 1 \in 1..Len(t) /\ t[i - 1] = s[i]
    BY <1>3, <1>5, <2>1
  <2>. QED  BY <2>1, <2>2
<1>6. Gate!ToSet(t) = S \ {Head(s)}
  BY <1>3, <1>4, <1>5 DEF Gate!ToSet
<1>7. ASSUME NEW i \in 1..Len(t), NEW j \in 1..Len(t), t[i] = t[j] PROVE i = j
  <2>1. i + 1 \in 1..Len(s) /\ j + 1 \in 1..Len(s) /\ s[i + 1] = s[j + 1]
    BY <1>3, <1>7
  <2>2. i + 1 = j + 1
    BY <2>1 DEF Lists
  <2>. QED  BY <2>2
<1>8. Head(s) \in S
  <2>1. 1 \in 1..Len(s)
    BY <1>3
  <2>. QED  BY <1>1, <1>3, <2>1
<1>. QED  BY <1>2, <1>3, <1>6, <1>7, <1>8 DEF Lists

LEMMA ListsRemove ==
  ASSUME NEW s, NEW S, Lists(s, S), NEW k \in DOMAIN s
  PROVE  Lists(Gate!RemoveAt(s, k), S \ {s[k]})
<1>1. s \in Seq(Requests) /\ \A y : y \in S <=> \E i \in 1..Len(s) : y = s[i]
  BY DEF Lists, Gate!ToSet
<1>2. k \in 1..Len(s) /\ Len(s) \in Nat
  BY <1>1
<1>3. PICK a : a = SubSeq(s, 1, k - 1)
  OBVIOUS
<1>4. PICK b : b = SubSeq(s, k + 1, Len(s))
  OBVIOUS
<1>5. PICK t : t = Gate!RemoveAt(s, k)
  OBVIOUS
<1>6. /\ a \in Seq(Requests) /\ Len(a) = k - 1 /\ \A i \in 1..(k - 1) : a[i] = s[i]
      /\ b \in Seq(Requests) /\ Len(b) = Len(s) - k /\ \A i \in 1..Len(b) : b[i] = s[k + i]
  <2>1. a \in Seq(Requests) /\ Len(a) = k - 1 /\ \A i \in 1..(k - 1) : a[i] = s[i]
    BY <1>1, <1>2, <1>3
  <2>2. b \in Seq(Requests) /\ Len(b) = Len(s) - k
    BY <1>1, <1>2, <1>4
  <2>3. ASSUME NEW i \in 1..Len(b) PROVE b[i] = s[k + i]
    <3>1. i \in 1..(Len(s) - k) /\ Len(s) - k \in Nat
      BY <1>2, <2>2
    <3>. QED  BY <1>1, <1>2, <1>4, <3>1
  <2>. QED  BY <2>1, <2>2, <2>3
<1>7. t = a \o b
  BY <1>3, <1>4, <1>5 DEF Gate!RemoveAt
<1>8. t \in Seq(Requests) /\ Len(t) = Len(s) - 1
  BY <1>2, <1>6, <1>7
<1>9. ASSUME NEW i \in 1..Len(t)
      PROVE  IF i < k THEN i \in 1..Len(s) /\ t[i] = s[i] ELSE i + 1 \in 1..Len(s) /\ t[i] = s[i + 1]
  <2>1. CASE i < k
    BY <1>2, <1>6, <1>7, <1>8, <2>1
  <2>2. CASE ~(i < k)
    <3>1. i - (k - 1) \in 1..Len(b) /\ k + (i - (k - 1)) = i + 1 /\ i + 1 \in 1..Len(s)
      BY <1>2, <1>6, <1>8, <2>2
    <3>2. t[i] = b[i - (k - 1)]
      <4>1. i \in 1..(Len(a) + Len(b)) /\ i > Len(a) /\ a \in Seq(Requests) /\ b \in Seq(Requests)
        BY <1>2, <1>6, <1>8, <2>2
      <4>2. (a \o b)[i] = b[i - Len(a)]
        BY <4>1
      <4>. QED  BY <1>6, <1>7, <4>2
    <3>3. b[i - (k - 1)] = s[k + (i - (k - 1))]
      BY <1>6, <3>1
    <3>. QED  BY <2>2, <3>1, <3>2, <3>3
  <2>. QED  BY <2>1, <2>2
<1>10. \A i \in 1..Len(t) : t[i] \in S /\ t[i] # s[k]
  <2>1. ASSUME NEW i \in 1..Len(t) PROVE t[i] \in S /\ t[i] # s[k]
    <3>1. PICK j \in 1..Len(s) : t[i] = s[j] /\ j # k
      BY <1>2, <1>8, <1>9
    <3>. QED  BY <1>1, <1>2, <3>1 DEF Lists
  <2>. QED  BY <2>1
<1>11. ASSUME NEW y \in S, y # s[k] PROVE \E i \in 1..Len(t) : y = t[i]
  <2>1. PICK i \in 1..Len(s) : y = s[i]
    BY <1>1
  <2>2. CASE i < k
    <3>1. i \in 1..Len(t) /\ t[i] = s[i]
      BY <1>2, <1>8, <1>9, <2>2
    <3>. QED  BY <2>1, <3>1
  <2>3. CASE i > k
    <3>1. i - 1 \in 1..Len(t) /\ ~(i - 1 < k) /\ (i - 1) + 1 = i
      BY <1>2, <1>8, <2>3
    <3>2. t[i - 1] = s[(i - 1) + 1]
      BY <1>9, <3>1
    <3>. QED  BY <2>1, <3>1, <3>2
  <2>. QED  BY <1>2, <1>11, <2>1, <2>2, <2>3
<1>12. Gate!ToSet(t) = S \ {s[k]}
  BY <1>8, <1>10, <1>11 DEF Gate!ToSet
<1>13. ASSUME NEW i \in 1..Len(t), NEW j \in 1..Len(t), t[i] = t[j] PROVE i = j
  <2>1. PICK m \in 1..Len(s) : t[i] = s[m] /\ m = IF i < k THEN i ELSE i + 1
    BY <1>9
  <2>2. PICK n \in 1..Len(s) : t[j] = s[n] /\ n = IF j < k THEN j ELSE j + 1
    BY <1>9
  <2>3. m = n
    BY <1>13, <2>1, <2>2 DEF Lists
  <2>. QED  BY <1>2, <2>1, <2>2, <2>3
<1>. QED  BY <1>5, <1>8, <1>12, <1>13 DEF Lists

-----------------------------------------------------------------------------
LEMMA OneMoves ==
  ASSUME GateTypes, NEW r \in Requests, NEW pc \in Gate!Places,
         req' = [req EXCEPT ![r].pc = pc]
  PROVE  /\ req' \in [Requests -> [pc : Gate!Places, attempt : 1..Attempts]]
         /\ req'[r].pc = pc /\ \A q \in Requests \ {r} : req'[q] = req[q]
         /\ \A places : {q \in Requests : req'[q].pc \in places} =
              IF pc \in places THEN Those(places) \cup {r} ELSE Those(places) \ {r}
<1>1. /\ req \in [Requests -> [pc : Gate!Places, attempt : 1..Attempts]]
      /\ req[r] \in [pc : Gate!Places, attempt : 1..Attempts]
  BY DEF GateTypes
<1>2. PICK new : new = [req[r] EXCEPT !.pc = pc]
  OBVIOUS
<1>3. new \in [pc : Gate!Places, attempt : 1..Attempts] /\ new.pc = pc
  BY <1>1, <1>2
<1>4. req' = [req EXCEPT ![r] = new]
  BY <1>2
<1>5. /\ req' \in [Requests -> [pc : Gate!Places, attempt : 1..Attempts]]
      /\ req'[r].pc = pc /\ \A q \in Requests \ {r} : req'[q] = req[q]
  BY <1>1, <1>3, <1>4
<1>6. ASSUME NEW places
      PROVE  {q \in Requests : req'[q].pc \in places} =
               IF pc \in places THEN Those(places) \cup {r} ELSE Those(places) \ {r}
  BY <1>5 DEF Those
<1>. QED  BY <1>5, <1>6

LEMMA CountWith ==
  ASSUME NEW S, IsFiniteSet(S), NEW x
  PROVE  /\ Cardinality(S) \in Nat
         /\ Cardinality(S \cup {x}) = IF x \in S THEN Cardinality(S) ELSE Cardinality(S) + 1
         /\ Cardinality(S \ {x}) = IF x \in S THEN Cardinality(S) - 1 ELSE Cardinality(S)
  BY FS_CardinalityType, FS_AddElement, FS_RemoveElement

\* A request takes a free slot or waits for one.
LEMMA EnterKeeps ==
  ASSUME GateInv, NEW r \in Requests, Gate!Enter(r), req[r].pc \in {"idle", "backoff", "woken"},
         UNCHANGED <<time, strikes, lost>>
  PROVE  GateInv' /\ StartsAllowed
<1>1. /\ Lists(line, Those({"line", "pacing"})) /\ Lists(waiting, Those({"queued"}))
      /\ \A q \in Requests : req[q].pc = "pacing" => line # <<>> /\ Head(line) = q
      /\ slots = Cardinality(Those(Gate!Holding)) /\ slots <= Concurrency
      /\ waiting # <<>> => Concurrency <= slots + Cardinality(Those({"woken"}))
      /\ slots \in Nat /\ Cardinality(Those({"woken"})) \in Nat /\ Concurrency \in Nat
  BY GateCounts, GateConstants DEF GateInv, LinesOK, SlotsOK
<1>2. /\ r \notin Those({"line", "pacing"}) /\ r \notin Those({"queued"}) /\ r \notin Those(Gate!Holding)
      /\ IsFiniteSet(Those({"woken"})) /\ IsFiniteSet(Those(Gate!Holding))
  BY GateCounts DEF Those, Gate!Holding
<1>3. CASE slots < Concurrency
  <2>1. /\ slots' = slots + 1 /\ line' = Append(line, r) /\ waiting' = waiting
        /\ req' = [req EXCEPT ![r].pc = "line"]
    BY <1>3 DEF Gate!Enter, Gate!Move
  <2>2. /\ req' \in [Requests -> [pc : Gate!Places, attempt : 1..Attempts]]
        /\ req'[r].pc = "line" /\ \A q \in Requests \ {r} : req'[q] = req[q]
        /\ \A places : {q \in Requests : req'[q].pc \in places} =
              IF "line" \in places THEN Those(places) \cup {r} ELSE Those(places) \ {r}
    BY <2>1, OneMoves DEF GateInv, Gate!Places
  <2>3. /\ Those({"line", "pacing"})' = Those({"line", "pacing"}) \cup {r}
        /\ Those({"queued"})' = Those({"queued"})
        /\ Those(Gate!Holding)' = Those(Gate!Holding) \cup {r}
        /\ Those({"woken"})' = Those({"woken"}) \ {r}
    BY <1>2, <2>2 DEF Those, Gate!Holding
  <2>4. Lists(line', Those({"line", "pacing"})') /\ (line # <<>> => Head(line') = Head(line)) /\ line' # <<>>
    BY <1>1, <1>2, <2>1, <2>3, ListsAppend
  <2>5. LinesOK'
    BY <1>1, <2>1, <2>2, <2>3, <2>4 DEF LinesOK, Lists
  <2>6. /\ Cardinality(Those(Gate!Holding) \cup {r}) = slots + 1
        /\ Cardinality(Those({"woken"}) \ {r}) \in {Cardinality(Those({"woken"})), Cardinality(Those({"woken"})) - 1}
    BY <1>1, <1>2, CountWith
  <2>7. /\ slots' = Cardinality(Those(Gate!Holding)') /\ slots' <= Concurrency
        /\ Cardinality(Those({"woken"})') \in Int
        /\ Cardinality(Those({"woken"})') >= Cardinality(Those({"woken"})) - 1
    <3>1. slots' = Cardinality(Those(Gate!Holding)')
      BY <2>1, <2>3, <2>6
    <3>2. slots' <= Concurrency
      BY <1>1, <1>3, <2>1
    <3>3. PICK n : n = Cardinality(Those({"woken"}) \ {r})
      OBVIOUS
    <3>4. n \in Int /\ n >= Cardinality(Those({"woken"})) - 1
      BY <1>1, <2>6, <3>3
    <3>5. Cardinality(Those({"woken"})') = n
      BY <2>3, <3>3
    <3>. QED  BY <3>1, <3>2, <3>4, <3>5
  <2>8. waiting' # <<>> => Concurrency <= slots' + Cardinality(Those({"woken"})')
    BY <1>1, <2>1, <2>7
  <2>9. SlotsOK'
    BY <2>7, <2>8 DEF SlotsOK
  <2>. QED  BY <2>2, <2>5, <2>9 DEF GateInv, GateTypes, StartsAllowed
<1>4. CASE ~(slots < Concurrency)
  <2>1. /\ slots' = slots /\ line' = line /\ waiting' = Append(waiting, r)
        /\ req' = [req EXCEPT ![r].pc = "queued"]
    BY <1>4 DEF Gate!Enter, Gate!Move
  <2>2. /\ req' \in [Requests -> [pc : Gate!Places, attempt : 1..Attempts]]
        /\ req'[r].pc = "queued" /\ \A q \in Requests \ {r} : req'[q] = req[q]
        /\ \A places : {q \in Requests : req'[q].pc \in places} =
              IF "queued" \in places THEN Those(places) \cup {r} ELSE Those(places) \ {r}
    BY <2>1, OneMoves DEF GateInv, Gate!Places
  <2>3. /\ Those({"line", "pacing"})' = Those({"line", "pacing"})
        /\ Those({"queued"})' = Those({"queued"}) \cup {r}
        /\ Those(Gate!Holding)' = Those(Gate!Holding)
        /\ Those({"woken"})' = Those({"woken"}) \ {r}
    BY <1>2, <2>2 DEF Those, Gate!Holding
  <2>4. Lists(waiting', Those({"queued"})')
    BY <1>1, <1>2, <2>1, <2>3, ListsAppend
  <2>5. LinesOK'
    BY <1>1, <2>1, <2>2, <2>3, <2>4 DEF LinesOK, Lists
  <2>6. Cardinality(Those({"woken"}) \ {r}) \in Nat
    BY <1>2, FS_RemoveElement, FS_CardinalityType
  <2>7. /\ slots' = Cardinality(Those(Gate!Holding)') /\ slots' <= Concurrency
        /\ Concurrency <= slots' + Cardinality(Those({"woken"})')
    <3>1. Cardinality(Those({"woken"})') \in Nat
      BY <2>3, <2>6
    <3>2. slots' = Cardinality(Those(Gate!Holding)')
      BY <1>1, <2>1, <2>3
    <3>. QED  BY <1>1, <1>4, <2>1, <3>1, <3>2
  <2>8. SlotsOK'
    BY <2>7 DEF SlotsOK
  <2>. QED  BY <2>2, <2>5, <2>8 DEF GateInv, GateTypes, StartsAllowed
<1>. QED  BY <1>3, <1>4

\* What an attempt leaves behind when it ends.
LEMMA AfterType ==
  ASSUME GateTypes, NEW r \in Requests, NEW code
  PROVE  /\ Gate!After(r, code) \in [pc : Gate!Places, attempt : 1..Attempts]
         /\ Gate!After(r, code).pc \in {"backoff", "ended"}
<1>1. req[r] \in [pc : Gate!Places, attempt : 1..Attempts] /\ Attempts \in Nat
  BY GateConstants DEF GateTypes
<1>. QED  BY <1>1 DEF Gate!After, Gate!Places

\* The release of a slot wakes the first who waits.
LEMMA LeaveKeeps ==
  ASSUME GateInv, NEW r \in Requests, NEW code, Gate!Leave(r, code), req[r].pc \in Gate!Holding,
         \/ req[r].pc = "fetch" /\ line' = line
         \/ req[r].pc # "fetch" /\ line # <<>> /\ Head(line) = r /\ line' = Tail(line),
         time' = time, strikes' \in Nat
  PROVE  GateInv' /\ StartsAllowed
<1>1. /\ Lists(line, Those({"line", "pacing"})) /\ Lists(waiting, Those({"queued"}))
      /\ \A q \in Requests : req[q].pc = "pacing" => line # <<>> /\ Head(line) = q
      /\ slots = Cardinality(Those(Gate!Holding)) /\ slots <= Concurrency
      /\ waiting # <<>> => Concurrency <= slots + Cardinality(Those({"woken"}))
      /\ slots \in Nat /\ Cardinality(Those({"woken"})) \in Nat /\ Concurrency \in Nat
      /\ IsFiniteSet(Those({"woken"})) /\ IsFiniteSet(Those(Gate!Holding))
  BY GateCounts, GateConstants DEF GateInv, LinesOK, SlotsOK
<1>2. /\ Gate!After(r, code) \in [pc : Gate!Places, attempt : 1..Attempts]
      /\ Gate!After(r, code).pc \in {"backoff", "ended"}
      /\ req \in [Requests -> [pc : Gate!Places, attempt : 1..Attempts]]
      /\ time \in 0..GateHorizon /\ lost \in BOOLEAN
  BY AfterType DEF GateInv, GateTypes
<1>3. lost' \in BOOLEAN
  <2>1. lost' = IF Gate!After(r, code).pc = "ended" THEN code \in Gate!Unreachable ELSE lost
    BY DEF Gate!Leave, Gate!Reached
  <2>2. ASSUME NEW b, b = (code \in Gate!Unreachable) PROVE b \in BOOLEAN
    BY <2>2
  <2>. QED  BY <1>2, <2>1, <2>2
<1>. DEFINE woken == IF waiting = <<>> THEN {} ELSE {Head(waiting)}
<1>4. woken \subseteq Those({"queued"}) /\ r \notin woken /\ waiting' = IF waiting = <<>> THEN <<>> ELSE Tail(waiting)
  <2>1. waiting # <<>> => Head(waiting) \in Those({"queued"})
    BY <1>1, ListsTail
  <2>2. r \notin Those({"queued"})
    BY DEF Those, Gate!Holding
  <2>3. waiting' = IF waiting = <<>> THEN <<>> ELSE Tail(waiting)
    BY DEF Gate!Leave
  <2>. QED  BY <2>1, <2>2, <2>3
<1>5. /\ req' \in [Requests -> [pc : Gate!Places, attempt : 1..Attempts]]
      /\ req'[r].pc \in {"backoff", "ended"}
      /\ \A q \in woken : req'[q].pc = "woken"
      /\ \A q \in Requests \ ({r} \cup woken) : req'[q] = req[q]
  <2>1. req' = [q \in Requests |->
          IF q = r THEN Gate!After(r, code)
          ELSE IF q \in woken THEN [req[q] EXCEPT !.pc = "woken"] ELSE req[q]]
    <3>1. req' = [q \in Requests |->
            IF q = r THEN Gate!After(r, code)
            ELSE IF waiting # <<>> /\ q = Head(waiting) /\ Gate!At(q, "queued")
                 THEN [req[q] EXCEPT !.pc = "woken"]
            ELSE req[q]]
      BY DEF Gate!Leave
    <3>2. \A q \in Requests :
            (waiting # <<>> /\ q = Head(waiting) /\ Gate!At(q, "queued")) <=> q \in woken
      BY <1>4 DEF Gate!At, Those
    <3>. QED  BY <3>1, <3>2
  <2>2. \A q \in Requests : [req[q] EXCEPT !.pc = "woken"] \in [pc : Gate!Places, attempt : 1..Attempts]
                            /\ [req[q] EXCEPT !.pc = "woken"].pc = "woken"
    BY <1>2 DEF Gate!Places
  <2>3. woken \subseteq Requests
    BY <1>4 DEF Those
  <2>. QED  BY <1>2, <1>4, <2>1, <2>2, <2>3
<1>6. /\ Those({"line", "pacing"})' = Those({"line", "pacing"}) \ {r}
      /\ Those({"queued"})' = Those({"queued"}) \ woken
      /\ Those(Gate!Holding)' = Those(Gate!Holding) \ {r}
      /\ Those({"woken"})' = Those({"woken"}) \cup woken
  <2>1. \A q \in woken : req[q].pc = "queued" /\ q \in Requests
    BY <1>4 DEF Those
  <2>. QED  BY <1>4, <1>5, <2>1 DEF Those, Gate!Holding
<1>7. Lists(waiting', Those({"queued"})')
  <2>1. CASE waiting = <<>>
    BY <1>1, <1>4, <1>6, <2>1
  <2>2. CASE waiting # <<>>
    BY <1>1, <1>4, <1>6, <2>2, ListsTail
  <2>. QED  BY <2>1, <2>2
<1>8. Lists(line', Those({"line", "pacing"})')
  <2>1. CASE req[r].pc = "fetch"
    <3>1. r \notin Those({"line", "pacing"})
      BY <2>1 DEF Those
    <3>2. line' = line /\ Those({"line", "pacing"})' = Those({"line", "pacing"})
      BY <1>6, <2>1, <3>1
    <3>. QED  BY <1>1, <3>2
  <2>2. CASE req[r].pc # "fetch"
    <3>1. line # <<>> /\ Head(line) = r /\ line' = Tail(line)
      BY <2>2
    <3>2. Lists(Tail(line), Those({"line", "pacing"}) \ {Head(line)})
      BY <1>1, <3>1, ListsTail
    <3>. QED  BY <1>6, <3>1, <3>2
  <2>. QED  BY <2>1, <2>2
<1>9. \A q \in Requests : req'[q].pc \in {"pacing", "fetch"} => q # r /\ req[q] = req'[q]
  BY <1>4, <1>5
<1>10. LinesOK'
  <2>1. \A q \in Requests : req'[q].pc = "pacing" => line' # <<>> /\ Head(line') = q
    BY <1>1, <1>9
  <2>. QED  BY <1>7, <1>8, <2>1 DEF LinesOK, Lists
<1>11. SlotsOK'
  <2>1. slots' = slots - 1 /\ r \in Those(Gate!Holding)
    BY DEF Gate!Leave, Those
  <2>2. Cardinality(Those(Gate!Holding) \ {r}) = slots - 1
    BY <1>1, <2>1, CountWith
  <2>3. CASE waiting = <<>>
    BY <1>1, <1>4, <1>6, <2>1, <2>2, <2>3 DEF SlotsOK
  <2>4. CASE waiting # <<>>
    <3>1. Head(waiting) \notin Those({"woken"}) /\ woken = {Head(waiting)}
      BY <1>4, <2>4 DEF Those
    <3>2. Cardinality(Those({"woken"}) \cup {Head(waiting)}) = Cardinality(Those({"woken"})) + 1
      BY <1>1, <3>1, CountWith
    <3>3. /\ slots' = Cardinality(Those(Gate!Holding)') /\ slots' <= Concurrency
          /\ Concurrency <= slots' + Cardinality(Those({"woken"})')
      <4>1. slots' = Cardinality(Those(Gate!Holding)')
        BY <1>6, <2>1, <2>2
      <4>2. slots' <= Concurrency
        BY <1>1, <2>1
      <4>3. Cardinality(Those({"woken"})') = Cardinality(Those({"woken"})) + 1
        BY <1>6, <3>1, <3>2
      <4>. QED  BY <1>1, <2>1, <2>4, <4>1, <4>2, <4>3
    <3>. QED  BY <3>3 DEF SlotsOK
  <2>. QED  BY <2>3, <2>4
<1>12. StartsAllowed
  BY <1>9 DEF StartsAllowed
<1>. QED  BY <1>2, <1>3, <1>5, <1>10, <1>11, <1>12 DEF GateInv, GateTypes

LEMMA GateFacts ==
  ASSUME GateInv
  PROVE  /\ Lists(line, Those({"line", "pacing"})) /\ Lists(waiting, Those({"queued"}))
         /\ \A q \in Requests : req[q].pc = "pacing" => line # <<>> /\ Head(line) = q
         /\ \A q \in Requests : req[q].pc \in {"line", "pacing"} => line # <<>>
         /\ req \in [Requests -> [pc : Gate!Places, attempt : 1..Attempts]]
         /\ time \in 0..GateHorizon /\ strikes \in Nat /\ lost \in BOOLEAN
<1>1. Lists(line, Those({"line", "pacing"})) /\ Lists(waiting, Those({"queued"}))
  BY DEF GateInv, LinesOK
<1>2. ASSUME NEW q \in Requests, req[q].pc \in {"line", "pacing"} PROVE line # <<>>
  <2>1. q \in Gate!ToSet(line)
    BY <1>1, <1>2 DEF Lists, Those
  <2>2. PICK i \in DOMAIN line : q = line[i]
    BY <2>1 DEF Gate!ToSet
  <2>. QED  BY <1>1, <2>2 DEF Lists
<1>. QED  BY <1>1, <1>2 DEF GateInv, LinesOK, GateTypes

\* The request's deadline while it waits for a slot.
LEMMA AbortKeeps ==
  ASSUME GateInv, NEW r \in Requests, Gate!AbortWait(r)
  PROVE  GateInv' /\ StartsAllowed
<1>1. PICK new : new = Gate!After(r, "unavailable")
  OBVIOUS
<1>2. /\ new \in [pc : Gate!Places, attempt : 1..Attempts] /\ new.pc \in {"backoff", "ended"}
      /\ req[r].pc = "queued" /\ req' = [req EXCEPT ![r] = new]
      /\ UNCHANGED <<time, slots, line, strikes>>
  BY <1>1, AfterType DEF GateInv, Gate!AbortWait, Gate!At, Gate!gate
<1>3. PICK i \in DOMAIN waiting : waiting[i] = r /\ waiting' = Gate!RemoveAt(waiting, i)
  BY DEF Gate!AbortWait
<1>4. /\ req' \in [Requests -> [pc : Gate!Places, attempt : 1..Attempts]]
      /\ req'[r] = new /\ \A q \in Requests \ {r} : req'[q] = req[q]
  BY <1>2, GateFacts
<1>5. lost' \in BOOLEAN
  <2>1. lost' = IF new.pc = "ended" THEN TRUE ELSE lost
    BY <1>1 DEF Gate!AbortWait, Gate!Reached, Gate!Unreachable
  <2>. QED  BY <2>1, GateFacts
<1>6. /\ Those({"line", "pacing"})' = Those({"line", "pacing"})
      /\ Those({"queued"})' = Those({"queued"}) \ {r}
      /\ Those(Gate!Holding)' = Those(Gate!Holding)
      /\ Those({"woken"})' = Those({"woken"})
  BY <1>2, <1>4 DEF Those, Gate!Holding
<1>7. Lists(waiting', Those({"queued"})')
  BY <1>3, <1>6, GateFacts, ListsRemove
<1>8. waiting # <<>>
  BY <1>3, GateFacts DEF Lists
<1>9. LinesOK'
  <2>1. \A q \in Requests : req'[q].pc = "pacing" => req[q].pc = "pacing"
    BY <1>2, <1>4
  <2>. QED  BY <1>2, <1>6, <1>7, <2>1, GateFacts DEF LinesOK, Lists
<1>10. SlotsOK'
  <2>1. slots' = Cardinality(Those(Gate!Holding)') /\ slots' <= Concurrency
        /\ Concurrency <= slots' + Cardinality(Those({"woken"})')
    BY <1>2, <1>6, <1>8 DEF GateInv, SlotsOK
  <2>. QED  BY <2>1 DEF SlotsOK
<1>11. StartsAllowed
  BY <1>2, <1>4 DEF StartsAllowed
<1>. QED  BY <1>2, <1>4, <1>5, <1>9, <1>10, <1>11, GateFacts DEF GateInv, GateTypes

LEMMA QuietlyKeeps ==
  ASSUME GateInv, NEW r \in Requests, NEW pc \in Gate!Places, req' = [req EXCEPT ![r].pc = pc],
         \/ req[r].pc = "backoff" /\ pc = "ended" /\ line' = line
         \/ req[r].pc = "line" /\ pc = "pacing" /\ Head(line) = r /\ line' = line
         \/ /\ req[r].pc = "pacing" /\ pc = "fetch" /\ line' = Tail(line)
            /\ ~Gate!Cooling /\ lastStart' >= lastStart + Spacing,
         UNCHANGED <<time, slots, waiting, strikes>>, lost' \in BOOLEAN
  PROVE  GateInv' /\ StartsAllowed
<1>1. /\ req' \in [Requests -> [pc : Gate!Places, attempt : 1..Attempts]]
      /\ req'[r].pc = pc /\ \A q \in Requests \ {r} : req'[q] = req[q]
      /\ \A places : {q \in Requests : req'[q].pc \in places} =
            IF pc \in places THEN Those(places) \cup {r} ELSE Those(places) \ {r}
  BY OneMoves DEF GateInv
<1>2. /\ Those({"queued"})' = Those({"queued"})
      /\ Those(Gate!Holding)' = Those(Gate!Holding)
      /\ Those({"woken"})' = Those({"woken"})
      /\ Those({"line", "pacing"})' = IF pc = "fetch" THEN Those({"line", "pacing"}) \ {r}
                                      ELSE Those({"line", "pacing"})
  BY <1>1 DEF Those, Gate!Holding
<1>3. Lists(line', Those({"line", "pacing"})')
  <2>1. CASE pc = "fetch"
    <3>1. line # <<>> /\ Head(line) = r /\ line' = Tail(line)
      BY <2>1, GateFacts
    <3>. QED  BY <1>2, <2>1, <3>1, GateFacts, ListsTail
  <2>2. CASE pc # "fetch"
    BY <1>2, <2>2, GateFacts
  <2>. QED  BY <2>1, <2>2
<1>4. \A q \in Requests : req'[q].pc = "pacing" => line' # <<>> /\ Head(line') = q
  <2>1. ASSUME NEW q \in Requests, req'[q].pc = "pacing" PROVE line' # <<>> /\ Head(line') = q
    <3>1. CASE q = r
      <4>1. pc = "pacing"
        BY <1>1, <2>1, <3>1
      <4>2. req[r].pc = "line" /\ Head(line) = r /\ line' = line
        BY <4>1
      <4>3. line # <<>>
        BY <4>2, GateFacts
      <4>. QED  BY <3>1, <4>2, <4>3
    <3>2. CASE q # r
      <4>1. req[q].pc = "pacing" /\ line # <<>> /\ Head(line) = q
        BY <1>1, <2>1, <3>2, GateFacts
      <4>2. req[r].pc # "pacing"
        BY <3>2, <4>1, GateFacts
      <4>. QED  BY <4>1, <4>2
    <3>. QED  BY <3>1, <3>2
  <2>. QED  BY <2>1
<1>5. LinesOK'
  <2>1. Lists(waiting', Those({"queued"})')
    BY <1>2, GateFacts
  <2>. QED  BY <1>3, <1>4, <2>1 DEF LinesOK, Lists
<1>6. SlotsOK'
  <2>1. /\ slots' = Cardinality(Those(Gate!Holding)') /\ slots' <= Concurrency
        /\ waiting' # <<>> => Concurrency <= slots' + Cardinality(Those({"woken"})')
    BY <1>2 DEF GateInv, SlotsOK
  <2>. QED  BY <2>1 DEF SlotsOK
<1>7. StartsAllowed
  BY <1>1 DEF StartsAllowed
<1>. QED  BY <1>1, <1>5, <1>6, <1>7, GateFacts DEF GateInv, GateTypes

LEMMA GateSteps ==
  ASSUME GateInv, Gate!Next
  PROVE  GateInv' /\ StartsAllowed
<1>1. ASSUME NEW r \in Requests, Gate!Ask(r) \/ Gate!Resume(r) PROVE GateInv' /\ StartsAllowed
  <2>1. Gate!Enter(r) /\ req[r].pc \in {"idle", "backoff", "woken"} /\ UNCHANGED <<time, strikes, lost>>
    BY <1>1 DEF Gate!Ask, Gate!Resume, Gate!At, Gate!gate
  <2>. QED  BY <2>1, EnterKeeps
<1>2. ASSUME NEW r \in Requests, Gate!AbortBackoff(r) PROVE GateInv' /\ StartsAllowed
  <2>1. "ended" \in Gate!Places
    BY DEF Gate!Places
  <2>2. /\ req' = [req EXCEPT ![r].pc = "ended"] /\ req[r].pc = "backoff" /\ line' = line
        /\ UNCHANGED <<time, slots, waiting, strikes>> /\ lost' \in BOOLEAN
    BY <1>2 DEF Gate!AbortBackoff, Gate!At, Gate!Move, Gate!gate
  <2>. QED  BY <2>1, <2>2, QuietlyKeeps
<1>3. ASSUME NEW r \in Requests, Gate!Admit(r) PROVE GateInv' /\ StartsAllowed
  <2>1. req[r].pc = "line" /\ line # <<>> /\ Head(line) = r /\ UNCHANGED <<time, strikes>>
    BY <1>3, GateFacts DEF Gate!Admit, Gate!At, Gate!gate
  <2>2. CASE Gate!Cooling
    <3>1. Gate!Leave(r, "rate_limited") /\ line' = Tail(line) /\ req[r].pc \in Gate!Holding
          /\ strikes' \in Nat /\ req[r].pc # "fetch"
      BY <1>3, <2>1, <2>2, GateFacts DEF Gate!Admit, Gate!Holding
    <3>. QED  BY <2>1, <3>1, LeaveKeeps
  <2>3. CASE ~Gate!Cooling
    <3>1. /\ req' = [req EXCEPT ![r].pc = "pacing"] /\ line' = line /\ UNCHANGED <<slots, waiting>>
          /\ lost' \in BOOLEAN /\ "pacing" \in Gate!Places
      BY <1>3, <2>3, GateFacts DEF Gate!Admit, Gate!Move, Gate!Places
    <3>. QED  BY <2>1, <3>1, QuietlyKeeps
  <2>. QED  BY <2>2, <2>3
<1>4. ASSUME NEW r \in Requests, Gate!Start(r) PROVE GateInv' /\ StartsAllowed
  <2>1. /\ req[r].pc = "pacing" /\ line # <<>> /\ Head(line) = r /\ line' = Tail(line)
        /\ time >= lastStart + Spacing /\ UNCHANGED <<time, strikes>>
    BY <1>4, GateFacts DEF Gate!Start, Gate!At
  <2>2. CASE Gate!Cooling
    <3>1. Gate!Leave(r, "rate_limited") /\ req[r].pc \in Gate!Holding /\ strikes' \in Nat
          /\ req[r].pc # "fetch"
      BY <1>4, <2>1, <2>2, GateFacts DEF Gate!Start, Gate!Holding
    <3>. QED  BY <2>1, <3>1, LeaveKeeps
  <2>3. CASE ~Gate!Cooling
    <3>1. /\ req' = [req EXCEPT ![r].pc = "fetch"] /\ lastStart' = time /\ UNCHANGED <<slots, waiting>>
          /\ lost' \in BOOLEAN /\ "fetch" \in Gate!Places
      BY <1>4, <2>3, GateFacts DEF Gate!Start, Gate!Move, Gate!Places
    <3>2. lastStart' >= lastStart + Spacing
      BY <2>1, <3>1
    <3>. QED  BY <2>1, <2>3, <3>1, <3>2, QuietlyKeeps
  <2>. QED  BY <2>2, <2>3
<1>5. ASSUME NEW r \in Requests, Gate!AbortPacing(r) PROVE GateInv' /\ StartsAllowed
  <2>1. /\ req[r].pc = "pacing" /\ line # <<>> /\ Head(line) = r /\ line' = Tail(line)
        /\ Gate!Leave(r, "unavailable") /\ UNCHANGED <<time, strikes>>
    BY <1>5, GateFacts DEF Gate!AbortPacing, Gate!At, Gate!gate
  <2>2. req[r].pc \in Gate!Holding /\ strikes' \in Nat /\ req[r].pc # "fetch"
    BY <2>1, GateFacts DEF Gate!Holding
  <2>. QED  BY <2>1, <2>2, LeaveKeeps
<1>6. ASSUME NEW r \in Requests, Gate!Fetch(r) PROVE GateInv' /\ StartsAllowed
  <2>1. /\ req[r].pc = "fetch" /\ line' = line /\ time' = time /\ strikes' \in Nat
        /\ \E code \in {"ok", "not_found", "unavailable", "rate_limited"} : Gate!Leave(r, code)
    <3>1. CASE Gate!Throttled(r)
      BY <3>1, GateFacts DEF Gate!Throttled, Gate!At
    <3>2. CASE Gate!Answered(r)
      BY <3>2 DEF Gate!Answered, Gate!At
    <3>3. CASE Gate!Unanswered(r)
      BY <3>3, GateFacts DEF Gate!Unanswered, Gate!At, Gate!gate
    <3>. QED  BY <1>6, <3>1, <3>2, <3>3 DEF Gate!Fetch
  <2>2. PICK code \in {"ok", "not_found", "unavailable", "rate_limited"} : Gate!Leave(r, code)
    BY <2>1
  <2>3. req[r].pc \in Gate!Holding
    BY <2>1 DEF Gate!Holding
  <2>. QED  BY <2>1, <2>2, <2>3, LeaveKeeps
<1>7. CASE Gate!Tick
  <2>1. UNCHANGED <<req, slots, waiting, line, strikes, lost>> /\ time' \in 0..GateHorizon
    BY <1>7, GateFacts, GateConstants DEF Gate!Tick, Gate!gate
  <2>2. GateTypes' /\ StartsAllowed
    BY <2>1, GateFacts DEF GateTypes, StartsAllowed
  <2>3. \A places : Those(places) = {r \in Requests : req'[r].pc \in places}
    BY <2>1 DEF Those
  <2>4. LinesOK' /\ SlotsOK'
    BY <2>1 DEF GateInv, LinesOK, SlotsOK, Those, Lists
  <2>. QED  BY <2>2, <2>4 DEF GateInv
<1>8. \/ Gate!Tick
      \/ \E r \in Requests : \/ Gate!Ask(r) \/ Gate!Resume(r) \/ Gate!AbortWait(r) \/ Gate!AbortBackoff(r)
                             \/ Gate!Admit(r) \/ Gate!Start(r) \/ Gate!AbortPacing(r) \/ Gate!Fetch(r)
  BY Zenon DEF Gate!Next, Gate!Slots, Gate!Gate
<1>. QED  BY <1>1, <1>2, <1>3, <1>4, <1>5, <1>6, <1>7, <1>8, AbortKeeps

LEMMA GateStart == Gate!Init => GateInv
<1>. SUFFICES ASSUME Gate!Init PROVE GateInv
  OBVIOUS
<1>1. \A r \in Requests : req[r].pc = "idle"
  BY DEF Gate!Init
<1>2. GateTypes
  <2>1. [pc |-> "idle", attempt |-> 1] \in [pc : Gate!Places, attempt : 1..Attempts]
    BY GateConstants DEF Gate!Places
  <2>2. req \in [Requests -> [pc : Gate!Places, attempt : 1..Attempts]]
    BY <2>1 DEF Gate!Init
  <2>3. time \in 0..GateHorizon /\ strikes \in Nat /\ lost \in BOOLEAN
    <3>1. time = 0 /\ strikes = 0 /\ GateHorizon \in Nat
      BY GateConstants DEF Gate!Init
    <3>2. lost = FALSE
      BY DEF Gate!Init
    <3>3. time \in 0..GateHorizon /\ strikes \in Nat
      BY <3>1
    <3>4. lost \in BOOLEAN
      BY <3>2, Zenon
    <3>. QED  BY <3>3, <3>4
  <2>. QED  BY <2>2, <2>3 DEF GateTypes
<1>3. Those({"line", "pacing"}) = {} /\ Those({"queued"}) = {} /\ Those(Gate!Holding) = {}
  BY <1>1 DEF Those, Gate!Holding
<1>4. Lists(<<>>, {})
  BY DEF Lists, Gate!ToSet
<1>5. LinesOK
  BY <1>1, <1>3, <1>4 DEF Gate!Init, LinesOK
<1>6. SlotsOK
  BY <1>3, FS_EmptySet, GateConstants DEF Gate!Init, SlotsOK
<1>. QED  BY <1>2, <1>5, <1>6 DEF GateInv

LEMMA GateSafe == GateInv => Gate!TypeOK /\ Gate!ParsesBounded /\ Gate!NoWakeupLost
<1>. SUFFICES ASSUME GateInv PROVE Gate!TypeOK /\ Gate!ParsesBounded /\ Gate!NoWakeupLost
  OBVIOUS
<1>1. /\ slots = Cardinality(Those(Gate!Holding)) /\ slots <= Concurrency /\ slots \in Nat
      /\ waiting # <<>> => Concurrency <= slots + Cardinality(Those({"woken"}))
      /\ IsFiniteSet(Those({"woken"}))
  BY GateCounts DEF GateInv, SlotsOK
<1>2. Gate!Cardinality({r \in Requests : req[r].pc \in Gate!Holding}) = slots
  <2>1. {r \in Requests : req[r].pc \in Gate!Holding} = Those(Gate!Holding)
    BY DEF Those
  <2>. QED  BY <1>1, <2>1, GateCounts
<1>3. Gate!TypeOK
  <2>1. Gate!ToSet(line) = {r \in Requests : req[r].pc \in {"line", "pacing"}}
    BY GateFacts DEF Lists, Those
  <2>. QED  BY <1>2, <2>1, GateFacts DEF Gate!TypeOK
<1>4. Gate!ParsesBounded
  BY <1>1, <1>2 DEF Gate!ParsesBounded
<1>5. Gate!NoWakeupLost
  <2>1. ASSUME slots < Concurrency, waiting # <<>> PROVE \E r \in Requests : Gate!At(r, "woken")
    <3>1. Those({"woken"}) # {}
      <4>1. Cardinality(Those({"woken"})) # 0
        BY <1>1, <2>1, GateConstants
      <4>. QED  BY <4>1, FS_EmptySet
    <3>. QED  BY <3>1 DEF Those, Gate!At
  <2>. QED  BY <2>1 DEF Gate!NoWakeupLost
<1>. QED  BY <1>3, <1>4, <1>5

\* For every limit, spacing, number of attempts and length of a cooldown: slots are bounded, no
\* wake-up is lost, and a request starts only when spacing and cooldown allow it.
THEOREM StartsStayAllowed == PartsSpec => StartsAreAllowed
<1>1. PartsInit => GateInv
  BY GateStart DEF PartsInit
<1>2. GateInv /\ [PartsNext]_<<part, vars, postVars, outageVars, rowVars, gateVars, statusVars, webVars>> =>
        GateInv' /\ StartsAllowed
  <2>. SUFFICES ASSUME GateInv,
                       [PartsNext]_<<part, vars, postVars, outageVars, rowVars, gateVars, statusVars, webVars>>
       PROVE  GateInv' /\ StartsAllowed
    OBVIOUS
  <2>1. CASE Gate!Next
    BY <2>1, GateSteps
  <2>2. CASE UNCHANGED gateVars
    <3>1. UNCHANGED <<time, req, slots, waiting, line, lastStart, coolUntil, strikes, lost>>
      BY <2>2 DEF gateVars
    <3>. QED  BY <3>1 DEF GateInv, GateTypes, LinesOK, SlotsOK, Those, Lists, StartsAllowed
  <2>. QED  BY <2>1, <2>2, Zenon DEF PartsNext, Moves
<1>3. GateInv => Gate!TypeOK /\ Gate!ParsesBounded /\ Gate!NoWakeupLost
  BY GateSafe
<1>4. StartsAllowed => [\A r \in Requests : Gate!At(r, "pacing") /\ req'[r].pc = "fetch" =>
                          ~Gate!Cooling /\ lastStart' >= lastStart + Spacing]_(Gate!vars)
  BY DEF StartsAllowed, Gate!At
<1>. QED  BY <1>1, <1>2, <1>3, <1>4, PTL DEF PartsSpec, StartsAreAllowed, Gate!StartsAreAllowed

-----------------------------------------------------------------------------
(* The gate of sign-in exchanges (ExchangeGate) *)

\* What the window in force does not hold began before it; what the one before does not
\* hold either began a window's length before.
Rates ==
  /\ instant \in Nat /\ begged \in Nat /\ paused = begged
  /\ begun \in Seq(Nat) /\ rate \in [start : Int, count : Nat]
  /\ rate.count <= ExchangeLimit /\ rate.count <= Len(begun) /\ rate.start <= instant
  /\ \A i \in 1 .. Len(begun) : begun[i] <= instant
  /\ \A i \in 1 .. Len(begun) : i <= Len(begun) - rate.count => begun[i] <= rate.start
  /\ \A i \in 1 .. Len(begun) :
       i + ExchangeLimit <= Len(begun) - rate.count => begun[i] + ExchangeWindow <= rate.start
Spared == \A i, j \in DOMAIN begun : j >= i + 2 * ExchangeLimit => begun[j] >= begun[i] + ExchangeWindow
ExchangeInv == Rates /\ Spared
KeepsPause == Len(begun') > Len(begun) => instant >= begged

LEMMA ExchangeConstants ==
  ExchangeLimit \in Nat \ {0} /\ ExchangeWindow \in Nat \ {0} /\ ExchangeDelays \subseteq Nat \ {0}
  BY ExchangesAssumption DEF Exchanges!ConstantsOK

LEMMA ExchangeStart == Exchanges!Init => ExchangeInv
BY ExchangeConstants DEF Exchanges!Init, Exchanges!NoRate, ExchangeInv, Rates, Spared

LEMMA BeginsKeeps ==
  ASSUME ExchangeInv, NEW e, Exchanges!Begins(e)
  PROVE  ExchangeInv' /\ KeepsPause
<1> DEFINE n == Len(begun)
           L == ExchangeLimit
           W == ExchangeWindow
<1>1. L \in Nat \ {0} /\ W \in Nat \ {0}
  BY ExchangeConstants
<1>2. /\ begun' = Append(begun, instant) /\ instant' = instant /\ begged' = begged /\ paused' = paused
      /\ instant >= paused /\ rate' = Exchanges!Counted /\ Exchanges!Allows
  BY DEF Exchanges!Begins
<1>3. /\ begun' \in Seq(Nat) /\ n \in Nat /\ Len(begun') = n + 1 /\ begun'[n + 1] = instant
      /\ \A i \in 1 .. n : begun'[i] = begun[i] /\ begun[i] \in Nat
  BY <1>2 DEF ExchangeInv, Rates
<1>4. /\ rate \in [start : Int, count : Nat] /\ rate.start \in Int /\ rate.count \in Nat /\ instant \in Nat
      /\ rate.count <= L /\ rate.count <= n /\ rate.start <= instant /\ paused = begged /\ begged \in Nat
  BY DEF ExchangeInv, Rates
<1>5. ASSUME NEW i \in 1 .. n
      PROVE  /\ begun[i] <= instant
             /\ i <= n - rate.count => begun[i] <= rate.start
             /\ i + L <= n - rate.count => begun[i] + W <= rate.start
  BY DEF ExchangeInv, Rates
<1>6. \A i, j \in 1 .. n : j >= i + 2 * L => begun[j] >= begun[i] + W
  BY DEF ExchangeInv, Spared
<1> HIDE DEF n, L, W
\* What the new window says of the exchanges before, whichever of the two it is.
<1>7. /\ rate' \in [start : Int, count : Nat] /\ rate'.start \in Int /\ rate'.count \in Nat
      /\ rate'.count <= L /\ rate'.count <= n + 1 /\ rate'.count > 0 /\ rate'.start <= instant
      /\ \A i \in 1 .. n : i <= n + 1 - rate'.count => begun[i] <= rate'.start
      /\ \A i \in 1 .. n : i + L <= n + 1 - rate'.count => begun[i] + W <= rate'.start
  <2>1. CASE Exchanges!Ended
    <3>1. rate' = [start |-> instant, count |-> 1] /\ instant >= rate.start + W
      BY <1>2, <2>1 DEF Exchanges!Counted, Exchanges!Ended, W
    <3>2. ASSUME NEW i \in 1 .. n, i + L <= n PROVE begun[i] + W <= instant
      <4>1. i <= n - rate.count
        BY <1>1, <1>3, <1>4, <3>2
      <4>. QED  BY <1>1, <1>3, <1>4, <1>5, <3>1, <4>1
    <3>3. rate'.start = instant /\ rate'.count = 1 /\ rate' \in [start : Int, count : Nat]
      BY <1>4, <3>1
    <3>. QED  BY <1>1, <1>3, <1>4, <1>5, <3>2, <3>3
  <2>2. CASE ~Exchanges!Ended
    <3>1. rate' = [rate EXCEPT !.count = @ + 1] /\ rate.count < L
      BY <1>2, <2>2 DEF Exchanges!Counted, Exchanges!Allows, L
    <3>2. rate' \in [start : Int, count : Nat] /\ rate'.start = rate.start /\ rate'.count = rate.count + 1
      BY <1>4, <3>1
    <3>3. n + 1 - rate'.count = n - rate.count
      BY <1>3, <1>4, <3>2
    <3>. QED  BY <1>1, <1>3, <1>4, <1>5, <3>1, <3>2, <3>3
  <2>. QED  BY <2>1, <2>2
<1>8. Rates'
  <2>1. \A i \in 1 .. n + 1 :
          /\ begun'[i] <= instant /\ (i <= n + 1 - rate'.count => begun'[i] <= rate'.start)
          /\ i + L <= n + 1 - rate'.count => begun'[i] + W <= rate'.start
    <3>. TAKE i \in 1 .. n + 1
    <3>1. CASE i \in 1 .. n
      BY <1>3, <1>5, <1>7, <3>1
    <3>2. CASE i = n + 1
      BY <1>1, <1>3, <1>4, <1>7, <3>2
    <3>. QED  BY <1>3, <3>1, <3>2
  <2>. QED  BY <1>2, <1>3, <1>4, <1>7, <2>1 DEF Rates, L, W
<1>9. Spared'
  <2>1. ASSUME NEW i \in 1 .. n + 1, NEW j \in 1 .. n + 1, j >= i + 2 * L
        PROVE  begun'[j] >= begun'[i] + W
    <3>1. i \in 1 .. n
      BY <1>1, <1>3, <2>1
    <3>2. CASE j \in 1 .. n
      BY <1>3, <1>6, <2>1, <3>1, <3>2
    <3>3. CASE j = n + 1
      <4>1. i + L <= n + 1 - rate'.count
        BY <1>1, <1>3, <1>7, <2>1, <3>3
      <4>2. begun[i] + W <= rate'.start
        BY <1>7, <3>1, <4>1
      <4>. QED  BY <1>1, <1>3, <1>4, <1>7, <3>1, <3>3, <4>2
    <3>. QED  BY <1>3, <3>2, <3>3
  <2>. QED  BY <1>3, <2>1 DEF Spared, L, W
<1>. QED  BY <1>2, <1>4, <1>8, <1>9 DEF ExchangeInv, KeepsPause

LEMMA ExchangeSteps ==
  ASSUME ExchangeInv, Exchanges!Next
  PROVE  ExchangeInv' /\ KeepsPause
<1>1. ASSUME NEW e, Exchanges!Begins(e) PROVE ExchangeInv' /\ KeepsPause
  BY <1>1, BeginsKeeps
<1>2. ASSUME NEW e, Exchanges!Finishes(e) PROVE ExchangeInv' /\ KeepsPause
  BY <1>2 DEF Exchanges!Finishes, ExchangeInv, Rates, Spared, KeepsPause
<1>3. ASSUME NEW e, NEW delay \in ExchangeDelays, Exchanges!Refused(e, delay)
      PROVE  ExchangeInv' /\ KeepsPause
  <2>1. /\ paused' = (IF paused > instant + delay THEN paused ELSE instant + delay)
        /\ begged' = (IF begged > instant + delay THEN begged ELSE instant + delay)
        /\ UNCHANGED <<instant, rate, begun>>
    BY <1>3 DEF Exchanges!Refused, Exchanges!PausedUntil
  <2>2. paused' = begged' /\ begged' \in Nat
    BY <2>1, ExchangeConstants DEF ExchangeInv, Rates
  <2>. QED  BY <2>1, <2>2 DEF ExchangeInv, Rates, Spared, KeepsPause
<1>4. CASE Exchanges!Tick
  <2>1. instant' = instant + 1 /\ UNCHANGED <<paused, rate, begged, begun>>
    BY <1>4 DEF Exchanges!Tick
  <2>2. \A i \in 1 .. Len(begun) : begun[i] \in Nat
    BY DEF ExchangeInv, Rates
  <2>. QED  BY <2>1, <2>2 DEF ExchangeInv, Rates, Spared, KeepsPause
<1>5. CASE Exchanges!Restart
  <2>1. begun' = <<>> /\ paused' = 0 /\ begged' = 0 /\ instant' = instant
        /\ rate' = [start |-> 0 - ExchangeWindow, count |-> 0]
    BY <1>5 DEF Exchanges!Restart, Exchanges!NoRate
  <2>. QED  BY <2>1, ExchangeConstants DEF ExchangeInv, Rates, Spared, KeepsPause
<1>. QED  BY <1>1, <1>2, <1>3, <1>4, <1>5 DEF Exchanges!Next

-----------------------------------------------------------------------------
(* The sessions of one user (WebSessions) *)

SessionRows == [created : Nat, seen : Nat]
Answering == [step : {"none", "admit", "create", "locks"}, browser : Browsers \cup {None},
              presented : SessionTokens \cup {None}, tx : Nat]
SessionTypes ==
  /\ hour \in Nat /\ used \in 0 .. Cardinality(SessionTokens)
  /\ rows \in [SessionTokens -> SessionRows \cup {None}] /\ cookie \in [Browsers -> SessionTokens \cup {None}]
  /\ signIn \in [Tries -> Answering]
\* A transaction's time is not after now, and no row has a token that was not handed out.
SessionInv ==
  /\ SessionTypes
  /\ \A k \in Tries : signIn[k].tx <= hour
  /\ \A t \in SessionTokens : t > used => rows[t] = None
  /\ Cardinality(Sessions!Live) <= SessionsPerUser
StaysOver == \A t \in 1 .. used : t \notin Sessions!Live => t \notin Sessions!Live'

LEMMA SessionCount == \A S : Sessions!Cardinality(S) = Cardinality(S)
  BY DEF Sessions!Cardinality, Cardinality

LEMMA SessionConstants ==
  /\ IsFiniteSet(SessionTokens) /\ Cardinality(SessionTokens) \in Nat
  /\ SessionTokens = 1 .. Cardinality(SessionTokens) /\ SessionsPerUser \in SessionTokens
  /\ SessionIdle \in Nat \ {0} /\ SessionAbsolute \in Nat \ {0} /\ SessionTouch \in Nat \ {0}
<1>1. IsFiniteSet(SessionTokens) /\ SessionTokens = 1 .. Cardinality(SessionTokens)
  BY SessionsAssumption, SessionCount DEF Sessions!ConstantsOK, Sessions!IsFiniteSet, IsFiniteSet
<1>2. Cardinality(SessionTokens) \in Nat
  BY <1>1, FS_CardinalityType
<1>. QED  BY <1>1, <1>2, SessionsAssumption DEF Sessions!ConstantsOK

\* A nonempty set of numbers has a least one.
LEMMA LeastOf ==
  ASSUME NEW S \in SUBSET Nat, S # {}
  PROVE  \E x \in S : \A y \in S : x <= y
<1>1. PICK x \in S : \A y \in S : ~(<<y, x>> \in OpToRel(<, Nat))
  BY NatLessThanWellFounded, WFMin
<1>2. \A y \in S : ~(y < x)
  BY <1>1 DEF OpToRel
<1>. QED  BY <1>2

\* Where each has fewer than n newer ones there are at most n: count from the oldest.
LEMMA FewNewerFew ==
  ASSUME NEW S \in SUBSET Nat, IsFiniteSet(S), NEW f \in [S -> Nat], NEW n \in Nat,
         \A t \in S : Cardinality({o \in S : f[o] > f[t] \/ (f[o] = f[t] /\ o > t)}) < n
  PROVE  Cardinality(S) <= n
<1>1. CASE S = {}
  BY <1>1, FS_EmptySet
<1>2. CASE S # {}
  <2> DEFINE times == {f[t] : t \in S}
  <2>1. times \in SUBSET Nat /\ times # {}
    BY <1>2
  <2>2. PICK m \in times : \A y \in times : m <= y
    BY <2>1, LeastOf
  <2> DEFINE first == {t \in S : f[t] = m}
  <2>3. first \in SUBSET Nat /\ first # {}
    BY <2>2
  <2>4. PICK x \in first : \A y \in first : x <= y
    BY <2>3, LeastOf
  <2>5. x \in S /\ f[x] = m /\ x \in Nat /\ m \in Nat
    BY <2>1, <2>4
  <2>6. ASSUME NEW o \in S PROVE o # x <=> f[o] > f[x] \/ (f[o] = f[x] /\ o > x)
    <3>1. m <= f[o] /\ (f[o] = m => x <= o) /\ f[o] \in Nat /\ o \in Nat
      BY <2>2, <2>4
    <3>. QED  BY <2>5, <3>1
  <2>7. S \ {x} = {o \in S : f[o] > f[x] \/ (f[o] = f[x] /\ o > x)}
    BY <2>6
  <2>8. Cardinality(S \ {x}) < n /\ Cardinality(S) \in Nat
    BY <2>5, <2>7, FS_CardinalityType
  <2>9. Cardinality(S \ {x}) = Cardinality(S) - 1
    BY <2>5, FS_RemoveElement
  <2>. QED  BY <2>8, <2>9
<1>. QED  BY <1>1, <1>2

\* At most the limit less one of the other sessions are kept.
LEMMA KeptAreFew ==
  ASSUME SessionTypes, NEW at \in Nat
  PROVE  Cardinality({t \in SessionTokens : Sessions!LiveAt(at, t)} \ Sessions!Evicted(at)) <= SessionsPerUser - 1
<1> DEFINE others == {t \in SessionTokens : Sessions!LiveAt(at, t)}
           kept == others \ Sessions!Evicted(at)
           f == [t \in kept |-> rows[t].created]
           n == SessionsPerUser - 1
<1>1. n \in Nat /\ IsFiniteSet(others) /\ IsFiniteSet(kept) /\ kept \subseteq Nat
  BY SessionConstants, FS_Subset
<1>2. f \in [kept -> Nat]
  BY DEF SessionTypes, SessionRows, Sessions!LiveAt
<1>3. ASSUME NEW t \in kept
      PROVE  Cardinality({o \in kept : f[o] > f[t] \/ (f[o] = f[t] /\ o > t)}) < n
  <2>1. {o \in kept : f[o] > f[t] \/ (f[o] = f[t] /\ o > t)} \subseteq {o \in others : Sessions!Newer(o, t)}
    BY DEF Sessions!Newer
  <2>2. IsFiniteSet({o \in others : Sessions!Newer(o, t)})
    BY <1>1, FS_Subset
  <2>3. ~(Cardinality({o \in others : Sessions!Newer(o, t)}) >= n)
    BY SessionCount DEF Sessions!Evicted
  <2>4. /\ Cardinality({o \in kept : f[o] > f[t] \/ (f[o] = f[t] /\ o > t)})
             <= Cardinality({o \in others : Sessions!Newer(o, t)})
        /\ Cardinality({o \in others : Sessions!Newer(o, t)}) \in Nat
        /\ Cardinality({o \in kept : f[o] > f[t] \/ (f[o] = f[t] /\ o > t)}) \in Nat
    BY <2>1, <2>2, FS_Subset, FS_CardinalityType
  <2>. QED  BY <1>1, <2>3, <2>4
<1> HIDE DEF f, n, kept
<1>4. Cardinality(kept) <= n
  BY <1>1, <1>2, <1>3, FewNewerFew
<1>. QED  BY <1>4 DEF kept, n

\* A row goes, or the clock does: no session becomes live.
LEMMA FewerLive ==
  ASSUME SessionInv, hour' \in Nat, hour <= hour', \A t \in SessionTokens : rows'[t] \in {rows[t], None}
  PROVE  Sessions!Live' \subseteq Sessions!Live
<1>1. ASSUME NEW t \in SessionTokens, Sessions!LiveAt(hour, t)' PROVE Sessions!LiveAt(hour, t)
  <2>1. rows'[t] # None /\ rows'[t] = rows[t]
    BY <1>1 DEF Sessions!LiveAt
  <2>2. rows[t] \in SessionRows
    BY <2>1 DEF SessionInv, SessionTypes
  <2>. QED  BY <1>1, <2>1, <2>2, SessionConstants DEF Sessions!LiveAt, SessionInv, SessionTypes, SessionRows
<1>. QED  BY <1>1 DEF Sessions!Live

LEMMA LiveShrinks ==
  ASSUME SessionInv, Sessions!Live' \subseteq Sessions!Live, SessionTypes', used' = used,
         \A k \in Tries : signIn'[k].tx <= hour', \A t \in SessionTokens : t > used => rows'[t] = None
  PROVE  SessionInv' /\ StaysOver
<1>1. Cardinality(Sessions!Live') <= Cardinality(Sessions!Live) /\ Cardinality(Sessions!Live) \in Nat
      /\ Cardinality(Sessions!Live') \in Nat
  <2>1. IsFiniteSet(Sessions!Live)
    BY SessionConstants, FS_Subset DEF Sessions!Live
  <2>2. IsFiniteSet(Sessions!Live')
    BY <2>1, FS_Subset
  <2>. QED  BY <2>1, <2>2, FS_Subset, FS_CardinalityType
<1>2. SessionsPerUser \in Nat
  BY SessionConstants
<1>3. Cardinality(Sessions!Live)' <= SessionsPerUser
  BY <1>1, <1>2 DEF SessionInv
<1>. QED  BY <1>3 DEF SessionInv, StaysOver

\* What removing rows, or the clock, does.
LEMMA RowsGo ==
  ASSUME SessionInv, hour' \in {hour, hour + 1}, used' = used,
         cookie' \in [Browsers -> SessionTokens \cup {None}], signIn' \in [Tries -> Answering],
         \A k \in Tries : signIn'[k].tx <= hour,
         rows' \in [SessionTokens -> SessionRows \cup {None}],
         \A t \in SessionTokens : rows'[t] \in {rows[t], None}
  PROVE  SessionInv' /\ StaysOver
<1>1. hour \in Nat /\ hour' \in Nat /\ hour <= hour'
  BY DEF SessionInv, SessionTypes
<1>2. Sessions!Live' \subseteq Sessions!Live
  BY <1>1, FewerLive
<1>3. SessionTypes'
  BY <1>1 DEF SessionInv, SessionTypes
<1>4. \A t \in SessionTokens : t > used => rows'[t] = None
  BY DEF SessionInv
<1>5. \A k \in Tries : signIn'[k].tx <= hour'
  <2>1. \A k \in Tries : signIn'[k].tx \in Nat
    BY DEF Answering
  <2>. QED  BY <1>1, <2>1
<1>. QED  BY <1>2, <1>3, <1>4, <1>5, LiveShrinks

LEMMA WithoutIs ==
  ASSUME SessionInv, NEW tokens, rows' = Sessions!Without(tokens)
  PROVE  /\ rows' \in [SessionTokens -> SessionRows \cup {None}]
         /\ \A t \in SessionTokens : rows'[t] \in {rows[t], None}
BY DEF SessionInv, SessionTypes, Sessions!Without

\* A sign-in's steps up to the new row.
LEMMA SigningKeeps ==
  ASSUME SessionInv, NEW k \in Tries,
         \/ \E b \in Browsers : Sessions!Callback(k, b)
         \/ Sessions!Admits(k) \/ Sessions!AdmissionFails(k) \/ Sessions!CreateBegins(k)
  PROVE  SessionInv' /\ StaysOver
<1>1. /\ hour \in Nat /\ signIn[k] \in Answering /\ cookie \in [Browsers -> SessionTokens \cup {None}]
      /\ rows \in [SessionTokens -> SessionRows \cup {None}] /\ signIn \in [Tries -> Answering]
      /\ \A j \in Tries : signIn[j].tx <= hour
  BY DEF SessionInv, SessionTypes
<1>2. hour' = hour /\ used' = used
  BY DEF Sessions!Callback, Sessions!Admits, Sessions!AdmissionFails, Sessions!CreateBegins, Sessions!tables
<1>3. cookie' \in [Browsers -> SessionTokens \cup {None}]
  BY <1>1 DEF Sessions!Callback, Sessions!Admits, Sessions!AdmissionFails, Sessions!CreateBegins, Sessions!tables
<1>4. /\ rows' \in [SessionTokens -> SessionRows \cup {None}]
      /\ \A t \in SessionTokens : rows'[t] \in {rows[t], None}
  <2>1. CASE rows' = rows
    BY <1>1, <2>1
  <2>2. CASE \E tokens : rows' = Sessions!Without(tokens)
    BY <2>2, WithoutIs
  <2>. QED
    BY <2>1, <2>2 DEF Sessions!Callback, Sessions!Admits, Sessions!AdmissionFails, Sessions!CreateBegins, Sessions!tables
<1>5. \E c \in Answering : signIn' = [signIn EXCEPT ![k] = c] /\ c.tx \in {0, signIn[k].tx, hour}
  <2>1. ASSUME NEW b \in Browsers, Sessions!Callback(k, b)
        PROVE  \E c \in Answering : signIn' = [signIn EXCEPT ![k] = c] /\ c.tx = 0
    <3> DEFINE c == [step |-> "admit", browser |-> b, presented |-> cookie[b], tx |-> 0]
    <3>1. c \in Answering /\ c.tx = 0
      BY <1>1 DEF Answering
    <3>2. signIn' = [signIn EXCEPT ![k] = c]
      BY <2>1 DEF Sessions!Callback
    <3>. QED  BY <3>1, <3>2
  <2>2. CASE Sessions!Ends(k)
    <3>1. Sessions!NoCall \in Answering /\ Sessions!NoCall.tx = 0
      BY DEF Answering, Sessions!NoCall
    <3>. QED  BY <2>2, <3>1 DEF Sessions!Ends
  <2>3. CASE Sessions!Goes(k, "create")
    <3> DEFINE c == [signIn[k] EXCEPT !.step = "create"]
    <3>1. c \in Answering /\ c.tx = signIn[k].tx
      BY <1>1 DEF Answering
    <3>2. signIn' = [signIn EXCEPT ![k] = c]
      BY <1>1, <2>3 DEF Sessions!Goes
    <3>. QED  BY <3>1, <3>2
  <2>4. CASE Sessions!CreateBegins(k)
    <3> DEFINE c == [signIn[k] EXCEPT !.step = "locks", !.tx = hour]
    <3>1. c \in Answering /\ c.tx = hour
      BY <1>1 DEF Answering
    <3>2. signIn' = [signIn EXCEPT ![k] = c]
      BY <1>1, <2>4 DEF Sessions!CreateBegins
    <3>. QED  BY <3>1, <3>2
  <2>. QED  BY <2>1, <2>2, <2>3, <2>4 DEF Sessions!Admits, Sessions!AdmissionFails
<1>6. signIn' \in [Tries -> Answering] /\ \A j \in Tries : signIn'[j].tx <= hour
  BY <1>1, <1>5 DEF Answering
<1>. QED  BY <1>2, <1>3, <1>4, <1>6, RowsGo

\* The new session and those kept are within the limit.
LEMMA CreatesKeeps ==
  ASSUME SessionInv, NEW k \in Tries, Sessions!Creates(k)
  PROVE  SessionInv' /\ StaysOver
<1> DEFINE at == signIn[k].tx
           new == used + 1
           others == {t \in SessionTokens : Sessions!LiveAt(at, t)}
           kept == others \ Sessions!Evicted(at)
<1>1. /\ hour \in Nat /\ signIn[k] \in Answering /\ cookie \in [Browsers -> SessionTokens \cup {None}]
      /\ rows \in [SessionTokens -> SessionRows \cup {None}] /\ signIn \in [Tries -> Answering]
      /\ \A j \in Tries : signIn[j].tx <= hour
      /\ used \in Nat /\ at \in Nat /\ at <= hour
  BY DEF SessionInv, SessionTypes, Answering
<1>2. /\ new \in SessionTokens /\ used' = new /\ hour' = hour
      /\ rows' = [Sessions!Without(Sessions!Evicted(at)) EXCEPT ![new] = [created |-> at, seen |-> at]]
      /\ cookie' = [cookie EXCEPT ![signIn[k].browser] = new]
      /\ signIn' = [signIn EXCEPT ![k] = Sessions!NoCall]
  BY DEF Sessions!Creates, Sessions!Ends
<1>3. /\ rows' \in [SessionTokens -> SessionRows \cup {None}]
      /\ \A t \in SessionTokens \ {new} : rows'[t] = IF t \in Sessions!Evicted(at) THEN None ELSE rows[t]
  BY <1>1, <1>2 DEF SessionRows, Sessions!Without
<1>4. SessionTypes'
  <2>1. Sessions!NoCall \in Answering
    BY DEF Answering, Sessions!NoCall
  <2>2. new \in 0 .. Cardinality(SessionTokens)
    BY <1>1, <1>2, SessionConstants
  <2>. QED  BY <1>1, <1>2, <1>3, <2>1, <2>2 DEF SessionTypes
<1>5. \A j \in Tries : signIn'[j].tx <= hour'
  <2>1. Sessions!NoCall.tx = 0
    BY DEF Sessions!NoCall
  <2>. QED  BY <1>1, <1>2, <2>1
<1>6. \A t \in SessionTokens : t > used' => rows'[t] = None
  BY <1>1, <1>2, <1>3, SessionConstants DEF SessionInv
<1>7. ASSUME NEW t \in SessionTokens \ {new}, Sessions!LiveAt(hour, t)'
      PROVE  Sessions!LiveAt(hour, t) /\ t \in kept
  <2>1. rows'[t] = rows[t] /\ rows[t] # None /\ t \notin Sessions!Evicted(at)
    BY <1>3, <1>7 DEF Sessions!LiveAt
  <2>2. rows[t] \in SessionRows
    BY <1>1, <2>1
  <2>3. Sessions!LiveAt(hour, t)
    BY <1>2, <1>7, <2>1 DEF Sessions!LiveAt
  <2>4. Sessions!LiveAt(at, t)
    BY <1>1, <2>1, <2>2, <2>3, SessionConstants DEF Sessions!LiveAt, SessionRows
  <2>. QED  BY <2>1, <2>3, <2>4
<1>8. Cardinality(Sessions!Live') <= SessionsPerUser
  <2>1. IsFiniteSet(kept) /\ Cardinality(kept) <= SessionsPerUser - 1
    BY <1>1, KeptAreFew, SessionConstants, FS_Subset DEF SessionInv
  <2>2. Sessions!Live' \subseteq kept \cup {new}
    BY <1>7 DEF Sessions!Live
  <2>3. IsFiniteSet(kept \cup {new}) /\ Cardinality(kept \cup {new}) <= Cardinality(kept) + 1
        /\ Cardinality(kept) \in Nat /\ Cardinality(kept \cup {new}) \in Nat
    BY <2>1, FS_AddElement, FS_CardinalityType
  <2>4. Cardinality(Sessions!Live') <= Cardinality(kept \cup {new}) /\ Cardinality(Sessions!Live') \in Nat
    BY <2>2, <2>3, FS_Subset, FS_CardinalityType
  <2>. QED  BY <2>1, <2>3, <2>4, SessionConstants
<1>9. StaysOver
  <2>. SUFFICES ASSUME NEW t \in 1 .. used, t \in Sessions!Live' PROVE t \in Sessions!Live
    BY DEF StaysOver
  <2>1. t \in SessionTokens \ {new} /\ Sessions!LiveAt(hour, t)'
    BY <1>1 DEF Sessions!Live
  <2>. QED  BY <1>7, <2>1 DEF Sessions!Live
<1>. QED  BY <1>4, <1>5, <1>6, <1>8, <1>9 DEF SessionInv

\* A page touches the live only.
LEMMA VisitsKeeps ==
  ASSUME SessionInv, NEW b \in Browsers, Sessions!Visits(b)
  PROVE  SessionInv' /\ StaysOver
<1> DEFINE v == cookie[b]
<1>1. /\ v \in SessionTokens /\ rows' = Sessions!Touched(v) /\ rows' # rows
      /\ hour' = hour /\ UNCHANGED <<used, cookie, signIn>>
  BY DEF Sessions!Visits, SessionInv, SessionTypes
<1>2. Sessions!LiveAt(hour, v) /\ rows' = [rows EXCEPT ![v].seen = hour]
  BY <1>1, Zenon DEF Sessions!Touched
<1>3. /\ rows \in [SessionTokens -> SessionRows \cup {None}] /\ rows[v] \in SessionRows /\ hour \in Nat
      /\ rows[v] # None
  BY <1>1, <1>2 DEF SessionInv, SessionTypes, Sessions!LiveAt
<1>4. rows' \in [SessionTokens -> SessionRows \cup {None}] /\ \A t \in SessionTokens \ {v} : rows'[t] = rows[t]
  <2>1. [rows[v] EXCEPT !.seen = hour] \in SessionRows
    BY <1>3 DEF SessionRows
  <2>2. rows' = [rows EXCEPT ![v] = [rows[v] EXCEPT !.seen = hour]]
    BY <1>2
  <2>. QED  BY <1>1, <1>3, <2>1, <2>2
<1>5. Sessions!Live' \subseteq Sessions!Live
  <2>1. ASSUME NEW t \in SessionTokens \ {v}, Sessions!LiveAt(hour, t)' PROVE Sessions!LiveAt(hour, t)
    BY <1>1, <1>4, <2>1 DEF Sessions!LiveAt
  <2>. QED  BY <1>2, <2>1 DEF Sessions!Live
<1>6. v <= used
  BY <1>1, <1>3, SessionConstants DEF SessionInv, SessionTypes
<1>7. \A t \in SessionTokens : t > used => rows'[t] = None
  BY <1>1, <1>4, <1>6, SessionConstants DEF SessionInv, SessionTypes
<1>8. SessionTypes' /\ \A k \in Tries : signIn'[k].tx <= hour'
  BY <1>1, <1>4 DEF SessionInv, SessionTypes
<1>. QED  BY <1>1, <1>5, <1>7, <1>8, LiveShrinks

LEMMA SessionSteps ==
  ASSUME SessionInv, Sessions!Next
  PROVE  SessionInv' /\ StaysOver
<1>1. /\ hour \in Nat /\ cookie \in [Browsers -> SessionTokens \cup {None}] /\ signIn \in [Tries -> Answering]
      /\ rows \in [SessionTokens -> SessionRows \cup {None}] /\ \A k \in Tries : signIn[k].tx <= hour
  BY DEF SessionInv, SessionTypes
<1>2. ASSUME NEW k \in Tries,
             \/ \E b \in Browsers : Sessions!Callback(k, b)
             \/ Sessions!Admits(k) \/ Sessions!AdmissionFails(k) \/ Sessions!CreateBegins(k) \/ Sessions!Creates(k)
      PROVE  SessionInv' /\ StaysOver
  BY <1>2, SigningKeeps, CreatesKeeps
<1>3. ASSUME NEW b \in Browsers, Sessions!Visits(b) PROVE SessionInv' /\ StaysOver
  BY <1>3, VisitsKeeps
<1>4. ASSUME NEW b \in Browsers, Sessions!SignsOut(b) PROVE SessionInv' /\ StaysOver
  <2>1. \E tokens : rows' = Sessions!Without(tokens)
    BY <1>4 DEF Sessions!SignsOut
  <2>2. hour' = hour /\ used' = used /\ signIn' = signIn /\ cookie' \in [Browsers -> SessionTokens \cup {None}]
    BY <1>1, <1>4 DEF Sessions!SignsOut
  <2>. QED  BY <1>1, <2>1, <2>2, WithoutIs, RowsGo
<1>5. CASE Sessions!Sweep
  <2>1. \E tokens : rows' = Sessions!Without(tokens)
    BY <1>5 DEF Sessions!Sweep
  <2>2. hour' = hour /\ used' = used /\ signIn' = signIn /\ cookie' = cookie
    BY <1>5 DEF Sessions!Sweep
  <2>. QED  BY <1>1, <2>1, <2>2, WithoutIs, RowsGo
<1>6. CASE Sessions!Tick
  <2>1. hour' = hour + 1 /\ UNCHANGED <<rows, used, cookie, signIn>>
    BY <1>6 DEF Sessions!Tick, Sessions!tables
  <2>. QED  BY <1>1, <2>1, RowsGo
<1>7. CASE Sessions!Restart
  <2>1. /\ UNCHANGED <<hour, rows, used, cookie>> /\ signIn' = [k \in Tries |-> Sessions!NoCall]
    BY <1>7 DEF Sessions!Restart, Sessions!tables
  <2>2. Sessions!NoCall \in Answering /\ Sessions!NoCall.tx = 0
    BY DEF Answering, Sessions!NoCall
  <2>3. signIn' \in [Tries -> Answering] /\ \A k \in Tries : signIn'[k].tx <= hour
    BY <1>1, <2>1, <2>2
  <2>. QED  BY <1>1, <2>1, <2>3, RowsGo
<1>. QED  BY <1>2, <1>3, <1>4, <1>5, <1>6, <1>7 DEF Sessions!Next

LEMMA SessionStart == Sessions!Init => SessionInv
<1>. SUFFICES ASSUME Sessions!Init PROVE SessionInv
  OBVIOUS
<1>1. /\ hour = 0 /\ used = SessionsPerUser - 1
      /\ rows = [t \in SessionTokens |-> IF t <= used THEN [created |-> 0, seen |-> 0] ELSE None]
      /\ cookie = [b \in Browsers |-> IF b = 1 /\ used > 0 THEN 1 ELSE None]
      /\ signIn = [k \in Tries |-> Sessions!NoCall]
  BY DEF Sessions!Init
<1>2. used \in 0 .. Cardinality(SessionTokens) /\ 1 \in SessionTokens
  BY <1>1, SessionConstants
<1>3. Sessions!NoCall \in Answering /\ Sessions!NoCall.tx = 0
  BY DEF Answering, Sessions!NoCall
<1>4. SessionTypes /\ \A k \in Tries : signIn[k].tx <= hour
  BY <1>1, <1>2, <1>3 DEF SessionTypes, SessionRows
<1>5. \A t \in SessionTokens : t > used => rows[t] = None
  BY <1>1, <1>2, SessionConstants
<1>6. Cardinality(Sessions!Live) <= SessionsPerUser
  <2>1. Sessions!Live \subseteq 1 .. used
    <3>1. ASSUME NEW t \in SessionTokens, rows[t] # None PROVE t \in 1 .. used
      BY <1>2, <1>5, <3>1, SessionConstants
    <3>. QED  BY <3>1 DEF Sessions!Live, Sessions!LiveAt
  <2>2. used \in Int /\ IsFiniteSet(1 .. used) /\ Cardinality(1 .. used) <= used
    BY <1>2, FS_Interval
  <2>3. Cardinality(Sessions!Live) <= Cardinality(1 .. used) /\ Cardinality(Sessions!Live) \in Nat
        /\ Cardinality(1 .. used) \in Nat
    BY <2>1, <2>2, FS_Subset, FS_CardinalityType
  <2>. QED  BY <1>1, <2>2, <2>3, SessionConstants
<1>. QED  BY <1>4, <1>5, <1>6 DEF SessionInv

\* A user never has more live sessions than the limit and none comes back, for every number
\* of browsers, sign-ins at once and tokens; and exchanges begin after every pause that was
\* named, at most twice the limit in a window's length, for every number and every length.
THEOREM SignInsStayBounded == PartsSpec => SignInsAreBounded
<1> DEFINE all == <<part, vars, postVars, outageVars, rowVars, gateVars, statusVars, webVars>>
<1>1. PartsInit => SessionInv /\ ExchangeInv
  BY SessionStart, ExchangeStart DEF PartsInit
<1>2. SessionInv /\ [PartsNext]_all => SessionInv' /\ [StaysOver]_(Sessions!vars)
  <2>. SUFFICES ASSUME SessionInv, [PartsNext]_all PROVE SessionInv' /\ [StaysOver]_(Sessions!vars)
    OBVIOUS
  <2>1. CASE Sessions!Next
    BY <2>1, SessionSteps
  <2>2. CASE UNCHANGED sessionVars
    <3>1. UNCHANGED <<hour, rows, used, cookie, signIn, signIns>>
      BY <2>2 DEF sessionVars
    <3>2. Sessions!Live' = Sessions!Live
      BY <3>1 DEF Sessions!Live, Sessions!LiveAt
    <3>. QED  BY <3>1, <3>2 DEF SessionInv, SessionTypes, Sessions!vars
  <2>. QED  BY <2>1, <2>2, Zenon DEF PartsNext, Moves, webVars
<1>3. ExchangeInv /\ [PartsNext]_all => ExchangeInv' /\ [KeepsPause]_(Exchanges!vars)
  <2>. SUFFICES ASSUME ExchangeInv, [PartsNext]_all PROVE ExchangeInv' /\ [KeepsPause]_(Exchanges!vars)
    OBVIOUS
  <2>1. CASE Exchanges!Next
    BY <2>1, ExchangeSteps
  <2>2. CASE UNCHANGED exchangeVars
    <3>1. UNCHANGED <<instant, running, paused, rate, begged, begun>>
      BY <2>2 DEF exchangeVars
    <3>. QED  BY <3>1 DEF ExchangeInv, Rates, Spared, Exchanges!vars
  <2>. QED  BY <2>1, <2>2, Zenon DEF PartsNext, Moves, webVars
<1>4. SessionInv => Sessions!Cardinality(Sessions!Live) <= SessionsPerUser
  BY SessionCount DEF SessionInv
<1>5. ExchangeInv => Spared
  BY DEF ExchangeInv
<1> HIDE DEF all
<1>. QED
  BY <1>1, <1>2, <1>3, <1>4, <1>5, PTL
  DEF PartsSpec, all, SignInsAreBounded, Sessions!SessionsAreBounded, Exchanges!DiscordIsSpared, StaysOver, KeepsPause, Spared

=============================================================================
