----------------------------- MODULE MCAccounts -----------------------------
(* Instances of Accounts for TLC: three account names over two Bichon       *)
(* accounts, one of which refuses IMAP connections and one of which has a   *)
(* number that is none.                                                     *)
EXTENDS Accounts

CONSTANTS m1, m2, m3, i1, i2

MCBichonId == {"7", "007", "8", "x"}
MCNumber == [id \in MCBichonId |-> CASE id \in {"7", "007"} -> 7
                                     [] id = "8" -> 8
                                     [] id = "x" -> None]

\* m2 is the copy of m1 in the other account.
MCIdOf   == [m \in Message |-> IF m = m3 THEN i2 ELSE i1]
MCHomeOf == [m \in Message |-> IF m = m2 THEN 8 ELSE 7]
MCDateOf == [m \in Message |-> IF m = m3 THEN 2 ELSE 1]

Entry(name, id) == [name |-> name, bichon |-> id]

\* A failing account before the healthy one, an id that is no number, the
\* healthy account before and after.
MCConfigs ==
  { << Entry("broken", "8"), Entry("home", "7") >>,
    << Entry("bad", "x"), Entry("home", "7"), Entry("work", "8") >> }

\* An account moved to another Bichon id.
EditedConfigs == { << Entry("home", "7") >>, << Entry("home", "8") >> }
=============================================================================
