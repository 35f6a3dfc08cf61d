--------------------------- MODULE Accounts_proofs ---------------------------
(***************************************************************************)
(* Proofs about Accounts, for any accounts, configurations, messages and   *)
(* bounds: what edits, crashes, failing accounts and copies of a message   *)
(* in several accounts leave intact.                                       *)
(***************************************************************************)
EXTENDS Accounts, SequenceTheorems, TLAPS

-----------------------------------------------------------------------------
(* The client *)

\* A search that succeeds returns the page asked for: no error page, error
\* envelope or lost answer passes for an empty one.
LEMMA SearchReturnsThePage ==
  ASSUME NEW items, NEW result \in SearchMessages(items), Succeeded(result)
  PROVE  result.value.items = items
<1>1. PICK answer \in SearchAnswers(items) : result = ReadJson(answer, "page")
  BY DEF SearchMessages
<1>2. /\ answer # Lost /\ answer.body.kind = "page"
      /\ result = [value |-> answer.body]
  BY <1>1 DEF ReadJson, Succeeded, MapErrorBody
<1>3. answer.body = [kind |-> "page", items |-> items]
  BY <1>2 DEF SearchAnswers
<1> QED
  BY <1>2, <1>3

Entries == [name : Name, bichon : BichonId]
Rows    == [name : Name, bichon : BichonId, cursor : Int \cup {None}]

Polling == {"search", "connect", "process", "hung"}

-----------------------------------------------------------------------------
(* The inductive invariant *)

\* The daemon is at an account of the file it has read.
InTheFile == at \in DOMAIN config

\* The row in use is that of the account being polled, and the watermark to
\* save is not below the one it was read from.
RowInUse ==
  pc \in Polling =>
    /\ row \in DOMAIN rows
    /\ rows[row].name = Account.name
    /\ rows[row].cursor # None => latest >= rows[row].cursor

\* The ledger holds the Message-IDs of what was triaged.
LedgerIsTriaged == ledger = {IdOf[m] : m \in triaged}

Inv == TypeOK /\ InTheFile /\ RowInUse /\ LedgerIsTriaged /\ TriagedOnce

-----------------------------------------------------------------------------
\* A configuration is a sequence with a first account.
LEMMA ConfigIsSeq ==
  ASSUME NEW accounts \in Configs
  PROVE  /\ accounts \in Seq(Entries) /\ Len(accounts) \in Nat \ {0}
         /\ DOMAIN accounts = 1..Len(accounts)
         /\ 1 \in DOMAIN accounts
         /\ \A i \in DOMAIN accounts : accounts[i] \in Entries
<1>1. accounts \in Seq(Entries) /\ accounts # <<>>
  BY AccountsAssumption, SomeAccount DEF Entries
<1>2. Len(accounts) \in Nat \ {0} /\ DOMAIN accounts = 1..Len(accounts)
  BY <1>1, EmptySeq, LenProperties
<1>3. \A i \in 1..Len(accounts) : accounts[i] \in Entries
  BY <1>1, ElementOfSeq
<1> QED BY <1>1, <1>2, <1>3

\* The table once the account's row is in it: typed, one row a name, the rows
\* that were there unchanged, a new one without a watermark.
LEMMA WithRowEffect ==
  ASSUME TypeOK, NEW name \in Name, NEW bichon \in BichonId
  PROVE  LET after == WithRow(name, bichon)
         IN /\ after \in Seq(Rows)
            /\ \A r, s \in DOMAIN after : after[r].name = after[s].name => r = s
            /\ \A r \in DOMAIN rows : r \in DOMAIN after /\ after[r] = rows[r]
<1> DEFINE new == [name |-> name, bichon |-> bichon, cursor |-> None]
<1>1. rows \in Seq(Rows) /\ DOMAIN rows = 1..Len(rows) /\ Len(rows) \in Nat
  BY LenProperties DEF TypeOK, Rows
<1>2. CASE RowsOf(name) # {}
  BY <1>1, <1>2 DEF WithRow, TypeOK
<1>3. CASE RowsOf(name) = {}
  <2>1. new \in Rows
    BY DEF Rows
  <2>2. /\ Append(rows, new) \in Seq(Rows)
        /\ Len(Append(rows, new)) = Len(rows) + 1
        /\ \A i \in 1..Len(rows) : Append(rows, new)[i] = rows[i]
        /\ Append(rows, new)[Len(rows) + 1] = new
    BY <1>1, <2>1, AppendProperties
  <2>3. DOMAIN Append(rows, new) = 1..(Len(rows) + 1)
    BY <2>2, LenProperties
  <2>4. \A r \in 1..Len(rows) : rows[r].name # name
    BY <1>1, <1>3 DEF RowsOf
  <2>5. WithRow(name, bichon) = Append(rows, new)
    BY <1>3 DEF WithRow
  <2>6. new.name = name
    OBVIOUS
  <2>7. \A r, s \in 1..(Len(rows) + 1) :
          Append(rows, new)[r].name = Append(rows, new)[s].name => r = s
    <3>1. TAKE r, s \in 1..(Len(rows) + 1)
    <3>2. CASE r \in 1..Len(rows) /\ s \in 1..Len(rows)
      BY <1>1, <2>2, <3>2 DEF TypeOK
    <3>3. CASE r = Len(rows) + 1 \/ s = Len(rows) + 1
      BY <1>1, <2>2, <2>4, <2>6, <3>3
    <3> QED BY <1>1, <3>2, <3>3
  <2> QED BY <1>1, <2>2, <2>3, <2>5, <2>7
<1> QED BY <1>2, <1>3

\* The for loop stays in the file.
LEMMA NextAccountEffect ==
  ASSUME TypeOK, InTheFile, NextAccount, UNCHANGED config
  PROVE  InTheFile' /\ pc' = "account" /\ at' \in Nat \ {0} /\ latest' \in Int
         /\ batch' = {}
<1>1. Len(config) \in Nat \ {0} /\ DOMAIN config = 1..Len(config)
  BY ConfigIsSeq DEF TypeOK
<1> QED BY <1>1 DEF NextAccount, Idle, InTheFile, TypeOK

\* The account being polled has a name and an id.
LEMMA AccountIsEntry ==
  ASSUME TypeOK, InTheFile
  PROVE  Account.name \in Name /\ Account.bichon \in BichonId
BY ConfigIsSeq DEF TypeOK, InTheFile, Account, Entries

\* The daemon starts in the invariant.
LEMMA InitInv == Init => Inv
<1> SUFFICES ASSUME Init PROVE Inv
  OBVIOUS
<1>1. 1 \in DOMAIN config
  BY ConfigIsSeq DEF Init
<1>2. rows \in Seq(Rows) /\ DOMAIN rows = {}
  BY EmptySeq DEF Init
<1> QED
  BY <1>1, <1>2 DEF Init, Inv, TypeOK, InTheFile, RowInUse, LedgerIsTriaged,
                    TriagedOnce, Polling, Rows

-----------------------------------------------------------------------------
(* Every step keeps the invariant, one lemma an action that writes a row or
   the ledger *)

\* Finding or adding the row of an account keeps the invariant.
LEMMA OpenAccountStep ==
  ASSUME Inv, OpenAccount
  PROVE  Inv'
<1> USE DEF Inv
<1>1. Account.name \in Name /\ Account.bichon \in BichonId
  BY AccountIsEntry
<1>2. /\ rows' \in Seq(Rows)
      /\ \A r, s \in DOMAIN rows' : rows'[r].name = rows'[s].name => r = s
      /\ \A r \in DOMAIN rows : r \in DOMAIN rows' /\ rows'[r] = rows[r]
  BY <1>1, WithRowEffect DEF OpenAccount
<1>3. CASE Number[Account.bichon] = None
  <2>1. /\ InTheFile' /\ pc' = "account" /\ at' \in Nat \ {0}
        /\ latest' \in Int /\ batch' = {}
    BY <1>3, NextAccountEffect DEF OpenAccount
  <2> QED
    BY <1>2, <2>1 DEF OpenAccount, TypeOK, Rows, RowInUse, Polling,
                      LedgerIsTriaged, TriagedOnce
<1>4. CASE Number[Account.bichon] # None
  <2>1. PICK r \in DOMAIN rows' :
          /\ rows'[r].name = Account.name /\ row' = r
          /\ latest' = IF rows'[r].cursor = None THEN clock ELSE rows'[r].cursor
    BY <1>4 DEF OpenAccount
  <2>2. rows'[r].cursor \in Int \cup {None}
    <3>1. rows'[r] \in Rows
      BY <1>2, ElementOfSeq, LenProperties
    <3> QED BY <3>1 DEF Rows
  <2>3. latest' \in Int /\ (rows'[r].cursor # None => latest' >= rows'[r].cursor)
    BY <2>1, <2>2 DEF TypeOK
  <2>4. pc' = "search" /\ UNCHANGED <<at, batch, config>>
    BY <1>4 DEF OpenAccount
  <2>5. RowInUse'
    BY <2>1, <2>3, <2>4 DEF RowInUse, Account
  <2> QED
    BY <1>2, <2>1, <2>3, <2>4, <2>5
       DEF OpenAccount, TypeOK, Rows, InTheFile, LedgerIsTriaged, TriagedOnce
<1> QED BY <1>3, <1>4

\* What a search reads, and the watermark it prepares.
LEMMA SearchEffect ==
  ASSUME TypeOK, Search
  PROVE  /\ pc = "search" /\ pc' = "connect"
         /\ batch' \subseteq index /\ latest' \in Int /\ latest' >= latest
         /\ UNCHANGED <<clock, index, file, rows, ledger, config, at, row, owed,
                        triaged, failed, bounds>>
<1> DEFINE found == {m \in index : /\ HomeOf[m] = Number[Account.bichon]
                                   /\ DateOf[m] >= latest - Margin}
<1>1. PICK result \in SearchMessages(found) :
        /\ pc = "search" /\ Succeeded(result)
        /\ pc' = "connect" /\ batch' = result.value.items
        /\ \E d \in {latest} \cup {DateOf[m] : m \in batch'} :
             /\ d >= latest /\ \A m \in batch' : d >= DateOf[m]
             /\ latest' = d
        /\ UNCHANGED <<clock, index, file, rows, ledger, config, at, row, owed,
                       triaged, failed, bounds>>
  BY DEF Search
<1>2. batch' = found
  BY <1>1, SearchReturnsThePage
<1>3. \A m \in batch' : DateOf[m] \in Int
  BY <1>2, AccountsAssumption DEF TypeOK
<1> QED BY <1>1, <1>2, <1>3 DEF TypeOK

\* Triaging a message, or finding it in the ledger, keeps the invariant.
LEMMA ProcessStep ==
  ASSUME Inv, NEW m \in Message, Process(m)
  PROVE  Inv'
<1> USE DEF Inv, Process
<1>1. TypeOK' /\ InTheFile' /\ RowInUse'
  BY DEF TypeOK, InTheFile, RowInUse, Account, bounds
<1>2. CASE IdOf[m] \in ledger
  BY <1>1, <1>2 DEF LedgerIsTriaged, TriagedOnce
<1>3. CASE IdOf[m] \notin ledger
  BY <1>1, <1>3 DEF LedgerIsTriaged, TriagedOnce
<1> QED BY <1>2, <1>3

\* Saving a watermark writes the cursor of one row, that of the account.
LEMMA SaveWatermarkStep ==
  ASSUME Inv, SaveWatermark
  PROVE  /\ Inv'
         /\ DOMAIN rows' = DOMAIN rows
         /\ \A r \in DOMAIN rows :
              /\ rows'[r].name = rows[r].name
              /\ r # row => rows'[r] = rows[r]
         /\ rows'[row].cursor = latest
<1> USE DEF Inv
<1>1. /\ rows \in Seq(Rows) /\ DOMAIN rows = 1..Len(rows)
      /\ row \in DOMAIN rows
  BY LenProperties DEF TypeOK, Rows, SaveWatermark
<1>2. rows[row] \in Rows
  BY <1>1, ElementOfSeq
<1> DEFINE new == [rows[row] EXCEPT !.cursor = latest]
<1>3. new \in Rows /\ new.name = rows[row].name /\ new.cursor = latest
  BY <1>2 DEF Rows, TypeOK
<1>4. rows' = [rows EXCEPT ![row] = new]
  BY DEF SaveWatermark
<1>5. /\ rows' \in Seq(Rows) /\ Len(rows') = Len(rows)
      /\ \A j \in 1..Len(rows) : rows'[j] = IF j = row THEN new ELSE rows[j]
  BY <1>1, <1>3, <1>4, ExceptSeq
<1>6. DOMAIN rows' = DOMAIN rows
  BY <1>1, <1>5, LenProperties
<1>7. /\ \A r \in DOMAIN rows :
           /\ rows'[r].name = rows[r].name
           /\ r # row => rows'[r] = rows[r]
      /\ rows'[row].cursor = latest
  BY <1>1, <1>3, <1>5
<1>8. /\ InTheFile' /\ pc' = "account" /\ at' \in Nat \ {0}
      /\ latest' \in Int /\ batch' = {}
  BY NextAccountEffect DEF SaveWatermark
<1>9. TypeOK'
  BY <1>1, <1>5, <1>6, <1>7, <1>8 DEF SaveWatermark, TypeOK, Rows
<1>10. RowInUse' /\ LedgerIsTriaged' /\ TriagedOnce'
  BY <1>8 DEF SaveWatermark, RowInUse, Polling, LedgerIsTriaged, TriagedOnce
<1> QED BY <1>6, <1>7, <1>8, <1>9, <1>10

\* Every step keeps the invariant.
LEMMA InvStep ==
  ASSUME Inv, [Next]_vars
  PROVE  Inv'
<1> USE DEF Inv
<1> DEFINE Rest == UNCHANGED <<rows, ledger, triaged>>
<1>1. ASSUME NEW m \in Message, Arrive(m) PROVE Inv'
  BY <1>1 DEF Arrive, TypeOK, InTheFile, RowInUse, Account, LedgerIsTriaged,
              TriagedOnce, cycle, bounds
<1>2. CASE Tick
  BY <1>2 DEF Tick, TypeOK, InTheFile, RowInUse, Account, LedgerIsTriaged,
              TriagedOnce, cycle, bounds
<1>3. ASSUME NEW accounts \in Configs, Edit(accounts) PROVE Inv'
  BY <1>3 DEF Edit, TypeOK, InTheFile, RowInUse, Account, LedgerIsTriaged,
              TriagedOnce, cycle
<1>4. CASE Start
  <2>1. InTheFile'
    BY <1>4, ConfigIsSeq DEF Start, InTheFile, TypeOK
  <2> QED
    BY <1>4, <2>1 DEF Start, Idle, TypeOK, RowInUse, Polling, LedgerIsTriaged,
                      TriagedOnce
<1>5. CASE OpenAccount
  BY <1>5, OpenAccountStep
<1>6. CASE Search
  <2>1. /\ pc = "search" /\ pc' = "connect"
        /\ batch' \subseteq index /\ latest' \in Int /\ latest' >= latest
        /\ UNCHANGED <<clock, index, file, rows, ledger, config, at, row, owed,
                       triaged, failed, bounds>>
    BY <1>6, SearchEffect
  <2>2. TypeOK' /\ InTheFile' /\ LedgerIsTriaged' /\ TriagedOnce'
    BY <2>1 DEF TypeOK, InTheFile, LedgerIsTriaged, TriagedOnce
  <2>3. row \in DOMAIN rows /\ rows[row].cursor \in Int \cup {None}
    <3>1. rows \in Seq(Rows) /\ row \in 1..Len(rows)
      BY <2>1, LenProperties DEF TypeOK, Rows
    <3>2. rows[row] \in Rows
      BY <3>1, ElementOfSeq
    <3> QED BY <2>1, <3>2 DEF Rows, TypeOK
  <2>4. RowInUse'
    BY <2>1, <2>3 DEF RowInUse, Account, Polling, TypeOK
  <2> QED BY <2>2, <2>4
<1>7. CASE Connect
  BY <1>7 DEF Connect, TypeOK, InTheFile, RowInUse, Account, Polling,
              LedgerIsTriaged, TriagedOnce, cycle, bounds
<1>8. ASSUME NEW m \in Message, Process(m) PROVE Inv'
  BY <1>8, ProcessStep
<1>9. ASSUME NEW m \in Message, ProcessFails(m) PROVE Inv'
  BY <1>9 DEF ProcessFails, TypeOK, InTheFile, RowInUse, Account,
              LedgerIsTriaged, TriagedOnce
<1>10. CASE SaveWatermark
  BY <1>10, SaveWatermarkStep
<1>11. CASE CycleFails
  <2>1. /\ InTheFile' /\ pc' = "account" /\ at' \in Nat \ {0}
        /\ latest' \in Int /\ batch' = {}
    BY <1>11, NextAccountEffect DEF CycleFails
  <2> QED
    BY <1>11, <2>1 DEF CycleFails, TypeOK, RowInUse, Polling, LedgerIsTriaged,
                       TriagedOnce
<1>12. CASE Hang
  BY <1>12 DEF Hang, TypeOK, InTheFile, RowInUse, Account, Polling,
               LedgerIsTriaged, TriagedOnce, cycle
<1>13. CASE Crash
  <2>1. InTheFile'
    BY <1>13, ConfigIsSeq DEF Crash, InTheFile, TypeOK
  <2> QED
    BY <1>13, <2>1 DEF Crash, Idle, TypeOK, RowInUse, Polling, LedgerIsTriaged,
                       TriagedOnce
<1>14. CASE UNCHANGED vars
  BY <1>14 DEF vars, cycle, bounds, TypeOK, InTheFile, RowInUse, Account,
               LedgerIsTriaged, TriagedOnce
<1> QED
  BY <1>1, <1>2, <1>3, <1>4, <1>5, <1>6, <1>7, <1>8, <1>9, <1>10, <1>11,
     <1>12, <1>13, <1>14 DEF Next, Daemon

\* The invariant holds in every reachable state.
THEOREM InvInductive == Spec => []Inv
<1>1. Inv /\ [Next]_vars => Inv'
  BY InvStep
<1> QED BY <1>1, InitInv, PTL DEF Spec

\* The state keeps its types, rows of accounts are one a name, and a cycle
\* under way has its account's row (cli/run.rs, poll_one_account).
THEOREM TypeCorrect == Spec => []TypeOK
<1>1. Inv => TypeOK
  BY DEF Inv
<1> QED BY <1>1, InvInductive, PTL

\* A Message-ID delivered to several accounts is triaged in one of them, once,
\* through any number of restarts, edits of berger.yaml and failures.
THEOREM TriagedInOneAccount == Spec => []TriagedOnce
<1>1. Inv => TriagedOnce
  BY DEF Inv
<1> QED BY <1>1, InvInductive, PTL

-----------------------------------------------------------------------------
(* What a step does to the rows *)

\* A step leaves the cursors of other accounts' rows alone.
LEMMA RowsKeptApart ==
  ASSUME Inv, [Next]_vars, NEW r \in DOMAIN rows
  PROVE  /\ r \in DOMAIN rows' /\ rows'[r].name = rows[r].name
         /\ rows'[r].cursor # rows[r].cursor =>
              /\ rows[r].name = Account.name
              /\ rows[r].cursor # None => rows'[r].cursor >= rows[r].cursor
<1>1. CASE UNCHANGED rows
  BY <1>1
<1>2. CASE OpenAccount
  <2>1. Account.name \in Name /\ Account.bichon \in BichonId
    BY AccountIsEntry DEF Inv
  <2>2. r \in DOMAIN rows' /\ rows'[r] = rows[r]
    BY <1>2, <2>1, WithRowEffect DEF Inv, OpenAccount
  <2> QED BY <2>2
<1>3. CASE SaveWatermark
  <2>1. /\ DOMAIN rows' = DOMAIN rows
        /\ rows'[r].name = rows[r].name
        /\ r # row => rows'[r] = rows[r]
        /\ rows'[row].cursor = latest
    BY <1>3, SaveWatermarkStep
  <2>2. /\ rows[row].name = Account.name
        /\ rows[row].cursor # None => latest >= rows[row].cursor
    BY <1>3 DEF Inv, RowInUse, Polling, SaveWatermark
  <2>3. CASE r = row
    BY <2>1, <2>2, <2>3
  <2>4. CASE r # row
    BY <2>1, <2>4
  <2> QED BY <2>3, <2>4
<1> QED
  BY <1>1, <1>2, <1>3
     DEF Next, Daemon, vars, Arrive, Tick, Edit, Start, Search, Connect, Process,
         ProcessFails, CycleFails, Hang, Crash

\* A step of the daemon moves the watermark of the account it is polling and
\* no other, forward, whatever file the row was written under, and no row is
\* lost (cli/run.rs, storage/accounts.rs).
THEOREM WatermarksKeptApart == Spec => AccountsKeptApart
<1> DEFINE
      Step == \A r \in DOMAIN rows :
                /\ r \in DOMAIN rows' /\ rows'[r].name = rows[r].name
                /\ rows'[r].cursor # rows[r].cursor =>
                     /\ rows[r].name = Account.name
                     /\ rows[r].cursor # None => rows'[r].cursor >= rows[r].cursor
<1>1. Inv /\ [Next]_vars => [Step]_vars
  BY RowsKeptApart
<1> QED
  BY <1>1, InvInductive, PTL DEF Spec, AccountsKeptApart
=============================================================================
