-------------------------------- MODULE Ledger --------------------------------
(***************************************************************************)
(* The gil ledger: ledger() and the FC settings that open an account, in    *)
(* application/service.ts, over ledger_accounts and ledger_entries.         *)
(*                                                                         *)
(* A call reads the settings, then runs one transaction.  The transaction is *)
(* two actions, its locked reads and the rest, so that other transactions   *)
(* come between; what keeps them out is a lock or a constraint.  The rights  *)
(* of the caller and the entry a correction names are left out.             *)
(***************************************************************************)
EXTENDS Integers, Sequences

CONSTANTS
  FCs,
  NoFc,          \* no FC is linked
  Calls,         \* calls of ledger()
  Keys,          \* idempotency keys: interaction IDs
  Key,           \* the key of each call; a repeated interaction repeats it
  Inputs,        \* the operations and amounts tried
  MaxGil,        \* the largest balance a bigint stores
  MaxRevision    \* bound: settings changes

Operations == {"initialize", "deposit", "withdraw", "adjust"}
ASSUME FcAssumption == NoFc \notin FCs
ASSUME KeyAssumption == Key \in [Calls -> Keys]
ASSUME InputAssumption == Inputs \subseteq [op : Operations, amount : Nat]
ASSUME BoundAssumption == MaxGil \in Nat /\ MaxRevision \in Nat

VARIABLES
  guild,     \* the linked FC and the settings revision
  account,   \* each FC's account row: balance (Unset before initialize), sequence
  entries,   \* each account's entries, by sequence
  input,     \* what each interaction asks for
  call       \* each call: what it read and how it ended

vars == <<guild, account, entries, input, call>>

Unset == -1
NoAccount == [open |-> FALSE, balance |-> Unset, sequence |-> 0]
Idle == [pc |-> "idle", fc |-> NoFc, revision |-> 0, balance |-> Unset, sequence |-> 0,
         outcome |-> "none"]
Outcomes == {"none", "recorded", "already_recorded", "unchanged", "refused", "conflict",
             "constraint", "lost"}

Balances == 0..MaxGil \cup {Unset}
Account == [open : BOOLEAN, balance : Balances, sequence : Nat]
Entry == [key : Keys, delta : Int, balance : 0..MaxGil]
Call == [pc : {"idle", "read", "locked", "done"}, fc : FCs \cup {NoFc}, revision : 0..MaxRevision,
         balance : Balances, sequence : Nat, outcome : Outcomes]

In(c) == input[Key[c]]
Ends(c, outcome) ==
  call' = [call EXCEPT ![c] = [Idle EXCEPT !.pc = "done", !.fc = call[c].fc, !.outcome = outcome]]
Locked(c) == call[c].pc = "locked"
Recorded(f, key) == \E i \in 1..Len(entries[f]) : entries[f][i].key = key

-----------------------------------------------------------------------------
(* Settings *)

\* The guild row is locked for update: open ledger transactions share-lock it.
Settable == guild.revision < MaxRevision /\ \A c \in Calls : ~Locked(c)

\* Mutant: linking an FC again starts its account over.
LinkResets(f) ==
  /\ Settable /\ guild.fc = NoFc
  /\ guild' = [fc |-> f, revision |-> guild.revision + 1]
  /\ account' = [account EXCEPT ![f] = [NoAccount EXCEPT !.open = TRUE]]
  /\ UNCHANGED <<entries, input, call>>

\* configure(): the account is created with the link, if the FC has none.
Link(f) ==
  /\ Settable /\ guild.fc = NoFc
  /\ guild' = [fc |-> f, revision |-> guild.revision + 1]
  /\ account' = [account EXCEPT ![f].open = TRUE]
  /\ UNCHANGED <<entries, input, call>>

\* unlinkCompany(), and any other setting.
Unlink ==
  /\ Settable /\ guild.fc # NoFc
  /\ guild' = [fc |-> NoFc, revision |-> guild.revision + 1]
  /\ UNCHANGED <<account, entries, input, call>>
ChangeSettings ==
  /\ Settable
  /\ guild' = [guild EXCEPT !.revision = @ + 1]
  /\ UNCHANGED <<account, entries, input, call>>

-----------------------------------------------------------------------------
(* ledger() *)

\* The settings are read; no linked FC is a missing setup step.
Read(c) ==
  /\ call[c].pc = "idle"
  /\ call' = [call EXCEPT ![c].pc = IF guild.fc = NoFc THEN "done" ELSE "read",
                          ![c].outcome = IF guild.fc = NoFc THEN "refused" ELSE "none",
                          ![c].fc = guild.fc, ![c].revision = guild.revision]
  /\ UNCHANGED <<guild, account, entries, input>>

\* What the locked account row says.
Reads(c) ==
  call' = [call EXCEPT ![c].pc = "locked", ![c].balance = account[call[c].fc].balance,
                       ![c].sequence = account[call[c].fc].sequence]

\* Mutants: the account row is read without its lock, or whatever the revision.
LockNothing(c) ==
  /\ call[c].pc = "read"
  /\ IF guild.revision # call[c].revision THEN Ends(c, "conflict") ELSE Reads(c)
  /\ UNCHANGED <<guild, account, entries, input>>
LockStale(c) ==
  /\ call[c].pc = "read"
  /\ \A d \in Calls \ {c} : ~(Locked(d) /\ call[d].fc = call[c].fc)
  /\ Reads(c)
  /\ UNCHANGED <<guild, account, entries, input>>

\* The guild row FOR SHARE, the revision, and the account row FOR UPDATE.
Lock(c) ==
  /\ call[c].pc = "read"
  /\ IF guild.revision # call[c].revision THEN Ends(c, "conflict")
     ELSE /\ \A d \in Calls \ {c} : ~(Locked(d) /\ call[d].fc = call[c].fc)
          /\ Reads(c)
  /\ UNCHANGED <<guild, account, entries, input>>

\* The new balance of a call's operation.
Balance(c) ==
  LET before == IF call[c].balance = Unset THEN 0 ELSE call[c].balance
  IN CASE In(c).op = "deposit" -> before + In(c).amount
       [] In(c).op = "withdraw" -> before - In(c).amount
       [] OTHER -> In(c).amount
\* Mutant: the delta of an entry is the amount that was typed.
DeltaTyped(c) == In(c).amount
Delta(c) == Balance(c) - (IF call[c].balance = Unset THEN 0 ELSE call[c].balance)

Refused(c) ==
  \/ (In(c).op = "initialize") # (call[c].balance = Unset)
  \/ Balance(c) < 0 \/ Balance(c) > MaxGil

Duplicate(c) == \E f \in FCs : Recorded(f, Key[c])

\* The same interaction was recorded before, in this account.
Replay(c) ==
  /\ Locked(c) /\ Duplicate(c)
  /\ Ends(c, IF Recorded(call[c].fc, Key[c]) THEN "already_recorded" ELSE "refused")
  /\ UNCHANGED <<guild, account, entries, input>>

\* A refusal rolls the transaction back; an adjustment to the same balance ends it.
Refuse(c) ==
  /\ Locked(c) /\ ~Duplicate(c)
  /\ \/ Refused(c) /\ Ends(c, "refused")
     \/ ~Refused(c) /\ In(c).op = "adjust" /\ Delta(c) = 0 /\ Ends(c, "unchanged")
  /\ UNCHANGED <<guild, account, entries, input>>

\* The entry, the account's new balance and sequence, and the commit.  The
\* tables' constraints refuse what locks and checks should have prevented.
Record(c) ==
  /\ Locked(c) /\ ~Duplicate(c) /\ ~Refused(c)
  /\ In(c).op = "adjust" => Delta(c) # 0
  /\ LET f == call[c].fc
         next == call[c].sequence + 1
     IN IF \/ next <= Len(entries[f]) \/ \E g \in FCs : Recorded(g, Key[c])
           \/ Balance(c) < 0 \/ Balance(c) > MaxGil
        THEN Ends(c, "constraint") /\ UNCHANGED <<account, entries>>
        ELSE /\ entries' = [entries EXCEPT ![f] =
                  Append(@, [key |-> Key[c], delta |-> Delta(c), balance |-> Balance(c)])]
             /\ account' = [account EXCEPT ![f].balance = Balance(c), ![f].sequence = next]
             /\ Ends(c, "recorded")
  /\ UNCHANGED <<guild, input>>

\* The process dies or the connection is lost: PostgreSQL rolls back.
Crash(c) ==
  /\ Locked(c)
  /\ Ends(c, "lost")
  /\ UNCHANGED <<guild, account, entries, input>>

-----------------------------------------------------------------------------
Init ==
  /\ guild = [fc |-> NoFc, revision |-> 0]
  /\ account = [f \in FCs |-> NoAccount]
  /\ entries = [f \in FCs |-> <<>>]
  /\ input \in [Keys -> Inputs]
  /\ call = [c \in Calls |-> Idle]

Next ==
  \/ \E f \in FCs : Link(f)
  \/ Unlink \/ ChangeSettings
  \/ \E c \in Calls : Read(c) \/ Lock(c) \/ Replay(c) \/ Refuse(c) \/ Record(c) \/ Crash(c)

Spec == Init /\ [][Next]_vars

-----------------------------------------------------------------------------
(* Properties *)

\* Types; the account's sequence counts its entries, and an account without a
\* balance has none.
TypeOK ==
  /\ guild \in [fc : FCs \cup {NoFc}, revision : 0..MaxRevision]
  /\ account \in [FCs -> Account]
  /\ entries \in [FCs -> Seq(Entry)]
  /\ input \in [Keys -> Inputs]
  /\ call \in [Calls -> Call]
  /\ \A f \in FCs : /\ account[f].sequence = Len(entries[f])
                    /\ account[f].balance = Unset <=> account[f].sequence = 0

\* Every account is the sum of its entries, and every entry's balance the sum up
\* to it, whatever calls raced, were repeated or died.
LedgerAddsUp ==
  \A f \in FCs :
    /\ \A i \in 1..Len(entries[f]) :
         entries[f][i].balance =
           entries[f][i].delta + (IF i = 1 THEN 0 ELSE entries[f][i - 1].balance)
    /\ entries[f] # <<>> => account[f].balance = entries[f][Len(entries[f])].balance

\* A repeated interaction is answered with its entry and records nothing more.
\* No race of calls meets a constraint of the tables, which would be answered
\* with an unexpected error.
RacesAreAnswered ==
  /\ \A c \in Calls : call[c].outcome # "constraint"
  /\ \A c \in Calls :
       call[c].outcome = "already_recorded" => Recorded(call[c].fc, Key[c])

\* An entry is written only while its FC is the linked one: a call that began
\* before the FC was unlinked never writes into the ledger it left behind.
WritesLinkedLedger ==
  [][\A f \in FCs : entries'[f] # entries[f] => guild.fc = f]_vars

=============================================================================
