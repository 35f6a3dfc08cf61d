------------------------------ MODULE Accounts ------------------------------
(***************************************************************************)
(* The daemon over several accounts: one loop polls them one after the     *)
(* other, they share one ledger, and each keeps its watermark in a row of  *)
(* the `accounts` table found by the account's name.  The daemon reads     *)
(* berger.yaml when it starts; the file may be edited at any moment, and   *)
(* `berger dry-run` reads it whenever it is run.                           *)
(*                                                                         *)
(* A search is one step and returns INBOX mail only: its pages and its     *)
(* scope are module Poller's, what triage does is module Triage's.         *)
(***************************************************************************)
EXTENDS Integers, Sequences, SequencesExt, BichonClient

CONSTANTS None,
          Message, IdOf,  \* IdOf[m]: the Message-ID of message m
          DateOf,         \* the Date: header
          HomeOf,         \* HomeOf[m]: the number of the Bichon account of m
          Name, BichonId, \* account names, bichon_account_id strings
          Number,         \* Number[id]: id parsed as an integer, or None
          Configs,        \* the `accounts:` sections berger.yaml may hold
          Broken,         \* names whose IMAP server refuses every connection
          Margin,         \* SAFETY_MARGIN_MS
          MaxClock, MaxEdits, MaxFaults, MaxCrashes, MaxHangs \* bounds

ASSUME AccountsAssumption ==
  /\ None \notin Int /\ None \notin Message /\ None \notin Name
  /\ DateOf \in [Message -> Int]
  /\ Number \in [BichonId -> Nat \cup {None}]
  /\ Margin \in Nat
  /\ Configs \subseteq Seq([name : Name, bichon : BichonId])

\* BergerConfig::validate refuses a file without accounts, and a name used
\* twice.
ASSUME SomeAccount == <<>> \notin Configs
ASSUME NamesDiffer ==
  \A c \in Configs : \A i, j \in DOMAIN c : c[i].name = c[j].name => i = j

VARIABLES
  clock, index,
  file,      \* the accounts of berger.yaml
  rows,      \* the accounts table, in the order of its ids
  ledger,    \* processed_messages
  config,    \* the accounts the daemon read when it started
  pc, at,    \* its place, and the place in config of the account being polled
  row,       \* db_account_id
  latest,    \* the watermark to save
  batch,
  owed,      \* history: mail the daemon has promised to triage
  triaged, failed, \* history: mail run through the pipeline, or failed on
  edits, faults, crashes, hangs

cycle  == <<at, row, latest, batch>>
bounds == <<edits, faults, crashes, hangs>>
vars   == <<clock, index, file, rows, ledger, config, pc, cycle, owed, triaged,
            failed, bounds>>

-----------------------------------------------------------------------------
(* Bichon, the clock and the editor *)

\* The names of the accounts that poll a message's home and can be reached.
Watchers(accounts, m) ==
  {accounts[i].name : i \in {j \in DOMAIN accounts :
                               /\ Number[accounts[j].bichon] = HomeOf[m]
                               /\ accounts[j].name \notin Broken}}

Polled(name) == \E r \in DOMAIN rows : rows[r].name = name /\ rows[r].cursor # None

\* Mail is dated in the margin before it arrives.  It is owed when a running
\* daemon has polled its account before.
Arrive(m) ==
  /\ m \notin index /\ DateOf[m] \in clock - Margin..clock
  /\ index' = index \cup {m}
  /\ owed' = IF pc # "stopped" /\ \E name \in Watchers(config, m) : Polled(name)
             THEN owed \cup {m} ELSE owed
  /\ UNCHANGED <<clock, file, rows, ledger, config, pc, cycle, triaged, failed,
                 bounds>>

Tick ==
  /\ clock < MaxClock /\ clock' = clock + 1
  /\ UNCHANGED <<index, file, rows, ledger, config, pc, cycle, owed, triaged,
                 failed, bounds>>

Edit(accounts) ==
  /\ accounts # file /\ edits < MaxEdits /\ edits' = edits + 1
  /\ file' = accounts
  /\ UNCHANGED <<clock, index, rows, ledger, config, pc, cycle, owed, triaged,
                 failed, faults, crashes, hangs>>

-----------------------------------------------------------------------------
(* The daemon *)

Fault == faults < MaxFaults /\ faults' = faults + 1 /\ UNCHANGED <<edits, crashes, hangs>>

Idle == row' = 0 /\ latest' = 0 /\ batch' = {}

\* Mail is no longer owed if the edit changed who polls it.
Start ==
  /\ pc = "stopped"
  /\ pc' = "account" /\ at' = 1 /\ config' = file
  /\ Idle
  /\ owed' = {m \in owed : Watchers(config, m) = Watchers(file, m)}
  /\ UNCHANGED <<clock, index, file, rows, ledger, triaged, failed, bounds>>

\* The for loop, and the sleep after its last account.
NextAccount ==
  /\ pc' = "account" /\ at' = IF at < Len(config) THEN at + 1 ELSE 1
  /\ Idle

Account == config[at]

RowsOf(name) == {r \in DOMAIN rows : rows[r].name = name}

\* Mutant: the row is inserted whether it is there or not.
WithRowAlways(name, bichon) ==
  Append(rows, [name |-> name, bichon |-> bichon, cursor |-> None])

\* The table once the account's row is in it.
WithRow(name, bichon) ==
  IF RowsOf(name) # {} THEN rows
  ELSE Append(rows, [name |-> name, bichon |-> bichon, cursor |-> None])

\* Mutant: the row is looked up by the account's position.
OpenAccountByPosition ==
  /\ pc = "account"
  /\ rows' = WithRow(Account.name, Account.bichon)
  /\ IF Number[Account.bichon] = None
     THEN NextAccount
     ELSE /\ pc' = "search"
          /\ row' = IF at \in DOMAIN rows' THEN at ELSE Len(rows')
          /\ latest' = IF rows'[row'].cursor = None THEN clock ELSE rows'[row'].cursor
          /\ UNCHANGED <<at, batch>>
  /\ UNCHANGED <<clock, index, file, ledger, config, owed, triaged, failed, bounds>>

\* find_by_name, or insert; a non-numeric id fails the cycle, its row stays;
\* get_watermark, or an account never polled, anchored at the present.
OpenAccount ==
  /\ pc = "account"
  /\ rows' = WithRow(Account.name, Account.bichon)
  /\ IF Number[Account.bichon] = None
     THEN NextAccount
     ELSE /\ pc' = "search"
          /\ \E r \in DOMAIN rows' :
               /\ rows'[r].name = Account.name
               /\ row' = r
               /\ latest' = IF rows'[r].cursor = None THEN clock ELSE rows'[r].cursor
          /\ UNCHANGED <<at, batch>>
  /\ UNCHANGED <<clock, index, file, ledger, config, owed, triaged, failed, bounds>>

\* Mutant: the ledger is not looked at.
ProcessUnchecked(m) ==
  /\ pc = "process" /\ m \in batch
  /\ batch' = batch \ {m}
  /\ ledger' = ledger \cup {IdOf[m]}
  /\ triaged' = triaged \cup {m}
  /\ UNCHANGED <<clock, index, file, rows, config, pc, at, row, latest, owed,
                 failed, bounds>>

\* Mutant: the batch is what is newer than the watermark.
SearchNoMargin ==
  LET found == {m \in index : /\ HomeOf[m] = Number[Account.bichon]
                              /\ DateOf[m] >= latest}
  IN \E result \in SearchMessages(found) :
       /\ pc = "search" /\ Succeeded(result)
       /\ pc' = "connect" /\ batch' = result.value.items
       /\ \E d \in {latest} \cup {DateOf[m] : m \in batch'} :
            /\ d >= latest /\ \A m \in batch' : d >= DateOf[m]
            /\ latest' = d
       /\ UNCHANGED <<clock, index, file, rows, ledger, config, at, row, owed,
                      triaged, failed, bounds>>

\* poll_account: what the account's Bichon holds from the margin below the
\* watermark on, and the watermark those messages raise.
Search ==
  LET found == {m \in index : /\ HomeOf[m] = Number[Account.bichon]
                              /\ DateOf[m] >= latest - Margin}
  IN \E result \in SearchMessages(found) :
       /\ pc = "search" /\ Succeeded(result)
       /\ pc' = "connect" /\ batch' = result.value.items
       /\ \E d \in {latest} \cup {DateOf[m] : m \in batch'} :
            /\ d >= latest /\ \A m \in batch' : d >= DateOf[m]
            /\ latest' = d
       /\ UNCHANGED <<clock, index, file, rows, ledger, config, at, row, owed,
                      triaged, failed, bounds>>

Connect ==
  /\ pc = "connect" /\ Account.name \notin Broken
  /\ pc' = "process"
  /\ UNCHANGED <<clock, index, file, rows, ledger, config, cycle, owed, triaged,
                 failed, bounds>>

\* A message of the batch: skipped if its Message-ID is in the ledger.
Process(m) ==
  /\ pc = "process" /\ m \in batch
  /\ batch' = batch \ {m}
  /\ ledger' = ledger \cup {IdOf[m]}
  /\ triaged' = IF IdOf[m] \in ledger THEN triaged ELSE triaged \cup {m}
  /\ UNCHANGED <<clock, index, file, rows, config, pc, at, row, latest, owed,
                 failed, bounds>>

\* A message the pipeline fails on is logged and left.
ProcessFails(m) ==
  /\ pc = "process" /\ m \in batch /\ IdOf[m] \notin ledger
  /\ Fault
  /\ batch' = batch \ {m} /\ failed' = failed \cup {m}
  /\ UNCHANGED <<clock, index, file, rows, ledger, config, pc, at, row, latest,
                 owed, triaged>>

SaveWatermark ==
  /\ pc = "process" /\ batch = {}
  /\ rows' = [rows EXCEPT ![row].cursor = latest]
  /\ NextAccount
  /\ UNCHANGED <<clock, index, file, ledger, config, owed, triaged, failed, bounds>>

\* Mutant: the loop ends with an account's error.
CycleFailsLoop ==
  /\ \/ pc = "connect" /\ Account.name \in Broken /\ UNCHANGED bounds
     \/ pc \in {"account", "search", "connect"} /\ Fault
     \/ pc = "process" /\ batch = {} /\ Fault
  /\ pc' = "account" /\ at' = 1 /\ Idle
  /\ UNCHANGED <<clock, index, file, rows, ledger, config, owed, triaged, failed>>

\* poll_one_account returns Err: a sidecar, Bichon or IMAP error.  It is
\* logged, nothing is saved, and the loop goes on to the next account.
CycleFails ==
  /\ \/ pc = "connect" /\ Account.name \in Broken /\ UNCHANGED bounds
     \/ pc \in {"account", "search", "connect"} /\ Fault
     \/ pc = "process" /\ batch = {} /\ Fault
  /\ NextAccount
  /\ UNCHANGED <<clock, index, file, rows, ledger, config, owed, triaged, failed>>

\* An IMAP command that is never answered: nothing has a time-out there.
Hang ==
  /\ pc \in {"connect", "process"} /\ pc' = "hung"
  /\ hangs < MaxHangs /\ hangs' = hangs + 1
  /\ UNCHANGED <<clock, index, file, rows, ledger, config, cycle, owed, triaged,
                 failed, edits, faults, crashes>>

\* The daemon is killed, or stopped for a new configuration.
Crash ==
  /\ pc # "stopped" /\ pc' = "stopped"
  /\ crashes < MaxCrashes /\ crashes' = crashes + 1
  /\ at' = 1 /\ Idle
  /\ UNCHANGED <<clock, index, file, rows, ledger, config, owed, triaged, failed,
                 edits, faults, hangs>>

-----------------------------------------------------------------------------
Init ==
  /\ clock = 0 /\ index = {}
  /\ file \in Configs /\ config = file
  /\ rows = <<>> /\ ledger = {}
  /\ pc = "stopped" /\ at = 1 /\ row = 0 /\ latest = 0 /\ batch = {}
  /\ owed = {} /\ triaged = {} /\ failed = {}
  /\ edits = 0 /\ faults = 0 /\ crashes = 0 /\ hangs = 0

Daemon ==
  \/ Start \/ OpenAccount \/ Search \/ Connect \/ SaveWatermark \/ CycleFails
  \/ \E m \in Message : Process(m) \/ ProcessFails(m)

Next ==
  \/ Daemon \/ Hang \/ Crash \/ Tick
  \/ \E m \in Message : Arrive(m)
  \/ \E accounts \in Configs : Edit(accounts)

Spec == Init /\ [][Next]_vars

FairSpec == Spec /\ WF_vars(Daemon)

-----------------------------------------------------------------------------
(* `berger dry-run` *)

\* read_watermark: of the first row with the account's number as its
\* bichon_account_id, an error being taken for no row.
Canonical(id) == CHOOSE c \in BichonId : Number[c] = Number[id]

DryRunWatermark(account) ==
  LET found == {r \in DOMAIN rows : rows[r].bichon = Canonical(account.bichon)}
  IN IF found = {} THEN clock
     ELSE LET first == CHOOSE r \in found : \A s \in found : r <= s
          IN IF rows[first].cursor = None THEN clock ELSE rows[first].cursor

\* The window of the daemon if it were started with this file.
DaemonWatermark(account) ==
  LET found == {r \in RowsOf(account.name) : rows[r].cursor # None}
  IN IF found = {} THEN clock ELSE rows[CHOOSE r \in found : TRUE].cursor

\* parse_account_ids: one bad id fails the dry run for all accounts.
DryRunStarts == \A i \in DOMAIN file : Number[file[i].bichon] # None

\* The messages a poll from this watermark returns, and what becomes of each.
PlanFrom(account, watermark) ==
  LET polled == {m \in index : /\ HomeOf[m] = Number[account.bichon]
                              /\ DateOf[m] >= watermark - Margin}
  IN [m \in polled |-> IF IdOf[m] \in ledger THEN "skip" ELSE "process"]

Plan == [i \in DOMAIN file |-> PlanFrom(file[i], DryRunWatermark(file[i]))]

\* None: it stops at the id.  A sidecar no daemon has created yet reads as
\* the empty tables it begins with.
DryRun == IF DryRunStarts THEN Plan ELSE None

-----------------------------------------------------------------------------
(* Properties *)

TypeOK ==
  /\ clock \in Nat /\ index \subseteq Message
  /\ file \in Configs /\ config \in Configs
  /\ rows \in Seq([name : Name, bichon : BichonId, cursor : Int \cup {None}])
  /\ \A r, s \in DOMAIN rows : rows[r].name = rows[s].name => r = s
  /\ pc \in {"stopped", "account", "search", "connect", "process", "hung"}
  /\ at \in Nat \ {0}
  /\ pc \in {"search", "connect", "process", "hung"} => row \in DOMAIN rows
  /\ latest \in Int /\ batch \subseteq Message
  /\ owed \subseteq index /\ triaged \subseteq Message /\ failed \subseteq Message

\* An account's watermark is its own: a step of the daemon moves that of the
\* account it is polling, forward, whatever the configuration was when the
\* row was written; no restart or edit of the file loses one.
AccountsKeptApart ==
  [][\A r \in DOMAIN rows :
       /\ r \in DOMAIN rows' /\ rows'[r].name = rows[r].name
       /\ rows'[r].cursor # rows[r].cursor =>
            /\ rows[r].name = Account.name
            /\ rows[r].cursor # None => rows'[r].cursor >= rows[r].cursor]_vars

\* A Message-ID delivered to several accounts is triaged in one of them,
\* once, across restarts and edits.
TriagedOnce ==
  \A m, n \in triaged : IdOf[m] = IdOf[n] => m = n

\* "A per-account or per-message failure is logged and skipped; it does not
\* stop the daemon" (docs/ops.md): mail an account is owed is in the ledger
\* in the end, although another account fails in every cycle, the file holds
\* an account that cannot be polled and the daemon is restarted; unless the
\* message itself failed, or a server leaves a command unanswered.
OwedIsTriaged ==
  \A m \in Message :
    m \in owed ~> IdOf[m] \in ledger \/ m \notin owed \/ m \in failed \/ pc = "hung"

\* "the dry run sees the same window the daemon would" (cli/dry_run.rs): it
\* plans for the messages a daemon started with this file would poll.
DryRunSeesWindow ==
  DryRun # None =>
    \A i \in DOMAIN file : DryRun[i] = PlanFrom(file[i], DaemonWatermark(file[i]))
=============================================================================
