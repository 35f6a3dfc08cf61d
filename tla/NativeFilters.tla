---------------------------- MODULE NativeFilters ----------------------------
(***************************************************************************)
(* The rules of `filters:` compiled and matched.  A message is seen as     *)
(* [from, subject, headers]; headers maps a header's name to None, ""      *)
(* (present but blank) or a value.                                         *)
(***************************************************************************)
EXTENDS Config, FiniteSets, Addresses

CONSTANT Regex \* [valid pattern -> the values it matches]

-----------------------------------------------------------------------------
\* The first type a rule declares, in compile_filters' order.
FilterType(rule) ==
  IF Declares(rule, "sender_in") THEN "sender_in"
  ELSE IF Declares(rule, "subject_regex") THEN "subject_regex"
  ELSE IF Declares(rule, "list_unsubscribe") THEN "list_unsubscribe"
  ELSE IF Declares(rule, "header_match") THEN "header_match"
  ELSE "none"

Compile(pattern) == pattern \in DOMAIN Regex

IsRegex(rule) ==
  /\ FilterType(rule) = "subject_regex" => Compile(rule.subject_regex)
  /\ FilterType(rule) = "header_match" => Compile(rule.header_match.pattern)

\* An invalid pattern keeps the daemon from starting.
Compiles(rules) == \A i \in DOMAIN rules : IsRegex(rules[i])

CompileFilters(rules) ==
  Pick(rules, {i \in DOMAIN rules : FilterType(rules[i]) # "none"})

SenderInMatches(from, senders) ==
  LET address == FilterAddress(from)
  IN  \E sender \in senders :
        sender # <<>> /\ sender \in {address, DomainOf(address)}

Matches(rule, view) ==
  LET type == FilterType(rule) IN
  \/ type = "list_unsubscribe" /\ view.headers.list_unsubscribe # None
  \/ type = "sender_in" /\ SenderInMatches(view.from, rule.sender_in)
  \/ type = "subject_regex" /\ view.subject \in Regex[rule.subject_regex]
  \/ /\ type = "header_match"
     /\ rule.header_match.header \in DOMAIN view.headers
     /\ view.headers[rule.header_match.header] \in Regex[rule.header_match.pattern]

\* The tags the compiled rules give a message.
TagsOf(rules, view) ==
  RunFilters([i \in DOMAIN rules |->
                [tag  |-> rules[i].tag,
                 hits |-> IF Matches(rules[i], view) THEN {view} ELSE {}]], view)
=============================================================================
