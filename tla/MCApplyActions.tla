--------------------------- MODULE MCApplyActions ---------------------------
(***************************************************************************)
(* `actions:` sections of three tags, and of one the message does not      *)
(* have, over three folders, two of which the server cannot tell apart.    *)
(***************************************************************************)
EXTENDS ApplyActions

MCTagOrder == <<"vip", "work", "urgent">>
MCAlphabet == <<"rk", "urgent", "vip", "work">>
MCWithin == [t \in {"rk", "urgent", "vip", "work"} |->
               IF t = "rk" THEN {"rk", "work"} ELSE {t}]

MCServerPath == [f \in Folder |-> IF f = "a" THEN "Berger.a" ELSE "Berger.a.b"]

MCAccounts == << [name |-> "home", imap |-> "me@home"],
                 [name |-> "work", imap |-> "me@work"] >>

TagActionSet(seen, flagged) ==
  [copy_to : {None} \cup Folder, move_to : {None} \cup Folder,
   mark_seen : seen, mark_flagged : flagged, webhook : {None}]

\* vip alone may flag; urgent, or all but vip, may have no entry at all.
MCConfigs ==
  LET first == TagActionSet(BOOLEAN, BOOLEAN)
      other == TagActionSet(BOOLEAN, {FALSE})
      plain == TagActionSet({FALSE}, {FALSE})
  IN  {[vip |-> x, work |-> y, urgent |-> z] : x \in first, y \in plain, z \in plain}
        \cup {[vip |-> x, work |-> y] : x \in first, y \in other}
        \cup {[vip |-> x, rk |-> y] : x \in plain, y \in plain}
=============================================================================
