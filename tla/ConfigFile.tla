----------------------------- MODULE ConfigFile -----------------------------
(***************************************************************************)
(* Loading berger.yaml, and what the commands build of it.  A file is      *)
(* [text, yaml]: the tokens it is made of, those of its comments included, *)
(* and the document, mappings whose strings are tokens.  A token that      *)
(* holds a "${" is a reference and nothing else.                           *)
(***************************************************************************)
EXTENDS NativeFilters, TLC

CONSTANTS Reference,   \* [token that holds a "${" -> the name in it: "" in
                       \*  "${}", None when no "}" follows]
          Environment, \* [variable that is set -> its value]
          Unencodable  \* the values no HTTP header can carry

ASSUME ConfigFileAssumption == {"", None} \intersect DOMAIN Environment = {}

-----------------------------------------------------------------------------
(* substitute_env_vars: the text is read before the YAML *)

Resolves(text) ==
  \A token \in text \intersect DOMAIN Reference :
    Reference[token] \in DOMAIN Environment

SubstituteEnvVars(token) ==
  IF token \in DOMAIN Reference THEN Environment[Reference[token]] ELSE token

\* The entry with the references in these of its fields replaced.
Interpolate(entry, fields) ==
  [field \in DOMAIN entry |->
     IF field \in fields THEN SubstituteEnvVars(entry[field]) ELSE entry[field]]

-----------------------------------------------------------------------------
(* serde: a mapping read as a struct, None when it is refused.  Ports,     *)
(* flags and numbers stay as they are written.                             *)

Ignoring(entry, required, defaults) ==
  IF required \subseteq DOMAIN entry
  THEN [field \in required \cup DOMAIN defaults |->
          IF field \in DOMAIN entry THEN entry[field] ELSE defaults[field]]
  ELSE None

\* deny_unknown_fields
Refusing(entry, required, defaults) ==
  IF DOMAIN entry \subseteq required \cup DOMAIN defaults
  THEN Ignoring(entry, required, defaults) ELSE None

ReadBichon(entry) ==
  Ignoring(Interpolate(entry, DOMAIN entry), {"base_url", "api_token"}, <<>>)

ReadDatabase(entry) == Ignoring(Interpolate(entry, {"path"}), {"path"}, <<>>)

ReadImap(entry) ==
  Refusing(Interpolate(entry, {"host", "user", "password"}),
           {"host", "user", "password"}, [port |-> "993"])

ReadAccount(entry) ==
  LET names == {"name", "bichon_account_id"}
      read  == Ignoring(Interpolate(entry, names), names \cup {"imap"}, <<>>)
  IN IF read = None \/ ReadImap(read.imap) = None THEN None
     ELSE [read EXCEPT !.imap = ReadImap(@)]

ReadHeaderMatch(entry) ==
  Refusing(Interpolate(entry, DOMAIN entry), {"header", "pattern"}, <<>>)

ReadFilter(entry) ==
  LET read == Refusing(Interpolate(entry, {"subject_regex", "tag"}), {"tag"}, FilterRule)
      spec == IF read.header_match = None THEN None
              ELSE ReadHeaderMatch(read.header_match)
      senders == IF read.sender_in = None THEN None
                 ELSE {[i \in DOMAIN s |-> SubstituteEnvVars(s[i])] : s \in read.sender_in}
  IN IF read = None \/ (read.header_match # None /\ spec = None) THEN None
     ELSE [read EXCEPT !.header_match = spec, !.sender_in = senders]

ReadTagActions(entry) ==
  Refusing(Interpolate(entry, {"copy_to", "move_to", "webhook"}), {},
           [copy_to |-> None, move_to |-> None, mark_seen |-> FALSE,
            mark_flagged |-> FALSE, webhook |-> None])

ReadLlm(entry) ==
  Refusing(Interpolate(entry, {"endpoint", "model", "api_key"}), {"endpoint", "model"},
           [api_key |-> None, categories |-> <<>>])

ReadRetry(entry) ==
  Refusing(entry, {}, [max_attempts |-> 3, backoff |-> "exponential"])

ReadWebhook(entry) ==
  LET read == Refusing(Interpolate(entry, {"name", "url"}), {"name", "url"},
                       [method |-> "POST", headers |-> <<>>, retry |-> <<>>,
                        when |-> <<>>, template |-> None])
  IN IF read = None \/ ReadRetry(read.retry) = None THEN None
     ELSE [read EXCEPT !.retry = ReadRetry(@)]

-----------------------------------------------------------------------------
(* BergerConfig::parse *)

Sections == {"bichon", "database", "accounts"}

\* The document, its optional sections filled in.
Document(yaml) ==
  Ignoring(yaml, Sections, [filters |-> <<>>, actions |-> <<>>, llm |-> None,
                            webhooks |-> <<>>])

ReadConfig(yaml) ==
  LET Each(section, Read(_)) == [i \in DOMAIN section |-> Read(section[i])]
  IN [bichon   |-> ReadBichon(yaml.bichon),
      database |-> ReadDatabase(yaml.database),
      accounts |-> Each(yaml.accounts, ReadAccount),
      filters  |-> Each(yaml.filters, ReadFilter),
      actions  |-> Each(yaml.actions, ReadTagActions),
      llm      |-> IF yaml.llm = None THEN None ELSE ReadLlm(yaml.llm),
      webhooks |-> Each(yaml.webhooks, ReadWebhook)]

\* Every section reads, and together they are valid.
Accepts(yaml) ==
  LET config == ReadConfig(yaml) IN
  /\ None \notin {config.bichon, config.database}
  /\ yaml.llm # None => config.llm # None
  /\ \A section \in {"accounts", "filters", "actions", "webhooks"} :
       None \notin Range(config[section])
  /\ Valid(config)

Loads(file) ==
  /\ Resolves(file.text)
  /\ Sections \subseteq DOMAIN file.yaml
  /\ Accepts(Document(file.yaml))

\* None is an error.
Parse(file) == IF Loads(file) THEN ReadConfig(Document(file.yaml)) ELSE None

\* The token must fit an HTTP header.
BuildsClient(token) == token \notin Unencodable

\* So must the key of the model, if it takes one.
BuildsLlmClient(llm) == llm.api_key \notin Unencodable

BuildsEmitter(webhooks) == NamesDiffer(webhooks)

\* What `run` builds before its loop; it opens the database too.
DaemonStarts(file) ==
  LET config == Parse(file) IN
  /\ Loads(file)
  /\ BuildsClient(config.bichon.api_token)
  /\ Compiles(config.filters)
  /\ config.llm # None => BuildsLlmClient(config.llm)
  /\ config.webhooks # <<>> => BuildsEmitter(config.webhooks)
=============================================================================
