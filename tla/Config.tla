------------------------------- MODULE Config -------------------------------
(***************************************************************************)
(* berger.yaml once parsed: its shape, and BergerConfig::validate.         *)
(*                                                                         *)
(* "" stands for every string that trims to nothing.  An address is a      *)
(* sequence of tokens, blank when it has none.  Interpolation of           *)
(* environment variables comes before, regexes and account numbers after.  *)
(***************************************************************************)
EXTENDS TagPlan

\* The shape of an entry of `filters:`, every filter type absent.
\* `list_unsubscribe: false` declares nothing.
FilterRule == [sender_in |-> None, subject_regex |-> None,
               list_unsubscribe |-> FALSE, header_match |-> None, tag |-> ""]

\* The filter types a rule declares: a set of addresses, a pattern, a flag,
\* a record [header, pattern].
Declares(rule, type) ==
  CASE type = "sender_in"        -> rule.sender_in # None
    [] type = "subject_regex"    -> rule.subject_regex # None
    [] type = "list_unsubscribe" -> rule.list_unsubscribe
    [] type = "header_match"     -> rule.header_match # None

FilterTypes == {"sender_in", "subject_regex", "list_unsubscribe", "header_match"}

ExactlyOneType(rule) ==
  \E type \in FilterTypes :
    \A other \in FilterTypes : Declares(rule, other) <=> other = type

\* What a filter type is declared with must not be blank.
ValidFilter(rule) ==
  /\ rule.tag # ""
  /\ ExactlyOneType(rule)
  /\ Declares(rule, "sender_in") => \E sender \in rule.sender_in : sender # <<>>
  /\ rule.subject_regex # ""
  /\ Declares(rule, "header_match") =>
       rule.header_match.header # "" /\ rule.header_match.pattern # ""

\* A webhook a tag names need not exist.
ValidActions(actions) ==
  \A tag \in DOMAIN actions :
    /\ tag # ""
    /\ "" \notin {actions[tag].copy_to, actions[tag].move_to, actions[tag].webhook}

NoBlankField(entry) == \A field \in DOMAIN entry : entry[field] # ""

NamesDiffer(entries) ==
  \A i, j \in DOMAIN entries : entries[i].name = entries[j].name => i = j

Valid(config) ==
  /\ NoBlankField(config.bichon) /\ NoBlankField(config.database)
  /\ config.accounts # <<>> /\ NamesDiffer(config.accounts)
  /\ \A i \in DOMAIN config.accounts :
       LET account == config.accounts[i] IN
         "" \notin {account.name, account.bichon_account_id}
           /\ NoBlankField(account.imap)
  /\ \A i \in DOMAIN config.filters : ValidFilter(config.filters[i])
  /\ ValidActions(config.actions)
  /\ config.llm # None => "" \notin {config.llm.endpoint, config.llm.model}
  /\ NamesDiffer(config.webhooks)
  /\ \A i \in DOMAIN config.webhooks :
       config.webhooks[i].name # "" /\ config.webhooks[i].url # ""
=============================================================================
