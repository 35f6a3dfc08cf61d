-------------------------- MODULE ThunderbirdExport --------------------------
(***************************************************************************)
(* `berger export-thunderbird`: the `actions:` section as the rules of a   *)
(* msgFilterRules.dat, and what Thunderbird makes of them.                 *)
(***************************************************************************)
EXTENDS TagPlan

CONSTANTS Alphabet, \* the tags, in the order of a BTreeMap
          Within    \* Within[t]: the tags whose text contains that of t

\* Mutant: a copy is preferred to a move.
DestinationFolderCopyFirst(a) == IF a.copy_to # None THEN a.copy_to ELSE a.move_to

DestinationFolder(a) == IF a.move_to # None THEN a.move_to ELSE a.copy_to

\* The account whose folders the rules name; None if there is none so named.
SelectAccount(accounts, name) ==
  LET matching == Pick(accounts, {i \in DOMAIN accounts : name \in {None, accounts[i].name}})
  IN IF matching = <<>> THEN None ELSE Head(matching)

RenderRule(tag, folder, account) ==
  [contains |-> tag, account |-> account, folder |-> folder]

\* A tag that routes to no folder has no rule.
RenderFilterRules(actions, account) ==
  LET routed == Pick(Alphabet,
                     {i \in DOMAIN Alphabet :
                        /\ Alphabet[i] \in DOMAIN actions
                        /\ DestinationFolder(actions[Alphabet[i]]) # None})
      rule(t) == RenderRule(t, DestinationFolder(actions[t]), account)
  IN [i \in DOMAIN routed |-> rule(routed[i])]

\* The file, or None when no account is so named.
Export(actions, accounts, name) ==
  LET target == SelectAccount(accounts, name)
  IN IF target = None THEN None ELSE RenderFilterRules(actions, target.imap)

-----------------------------------------------------------------------------
\* Thunderbird, of a message whose header lists these tags: the rule that
\* matches first moves it.
MovedBy(rules, tags) ==
  LET hits == Pick(rules, {i \in DOMAIN rules :
                      \E t \in Within[rules[i].contains] : Contains(tags, t)})
  IN IF hits = <<>> THEN None ELSE Head(hits)
=============================================================================
