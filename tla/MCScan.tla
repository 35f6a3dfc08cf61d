------------------------------- MODULE MCScan -------------------------------
(* Scan over a mailbox of eight messages: a newsletter, mail from and to    *)
(* two contacts, one of whose addresses holds a "${", Berger's copy of a    *)
(* sent message, a list post, a notification whose From holds two           *)
(* addresses, and one dated before the epoch.                               *)
EXTENDS Scan

MCStarts == {{}} \cup {present \in SUBSET (1..8) : Cardinality(present) >= 7}

Bare(name, domain)    == <<name, "@", domain>>
Named(name, domain)   == <<"Name", "<", name, "@", domain, ">">>
Quoting(first, named) == <<"<">> \o first \o <<">">> \o named

Weekly == <<"the", "weekly", "report">>
Again  == <<"fwd", "weekly", "report", "for", "march">>

\* The account "work" has one message, the list post.
Letter(folder, from, to, date) ==
  [account |-> IF date = 5 THEN 2 ELSE 1, folder |-> folder,
   from |-> from, to |-> to,
   subject |-> IF date > 1 THEN Again ELSE Weekly, date |-> date]

MCDropped  == {"the", "fwd", "for"}
MCLanguage == [subject \in {Weekly, Again} |->
                 IF subject = Weekly THEN "unknown" ELSE "eng"]

Headers(unsubscribe, list, auto, precedence, spam) ==
  [list_unsubscribe |-> unsubscribe, list_id |-> list, auto_submitted |-> auto,
   precedence |-> precedence, x_spam_flag |-> spam,
   x_spam_score |-> IF spam = "" THEN 4 ELSE None,
   x_spam_status |-> IF spam = "yes" THEN 5 ELSE None,
   authentication_results |-> IF auto = "no" THEN "dmarc=fail" ELSE None]

Plain == Headers(None, None, None, None, None)

Odd  == Bare("${ann}", "work")
Me   == Bare("me", "home")
Ann  == Bare("ann", "work")
Inbox == <<"INBOX">>

\* Patterns over the header values below, and one over the subjects.
Values == {"url", "bulk", "yes", "list", "no", "<>", "auto-generated"}
MCRegex == [pattern \in {".", "(?i)yes", "weekly"} |->
              CASE pattern = "."       -> Values
                [] pattern = "(?i)yes" -> {"yes"}
                [] pattern = "weekly"  -> {Weekly, Again}]

Account(name, id) ==
  [name |-> name, bichon_account_id |-> id,
   imap |-> [host |-> "imap", user |-> "me", password |-> "${PASSWORD}"]]

MCReference == [token \in {"${PASSWORD}", "${TOKEN}", "${ann}", "${}", "${"} |->
                  CASE token = "${PASSWORD}" -> "PASSWORD"
                    [] token = "${TOKEN}" -> "TOKEN"
                    [] token = "${ann}" -> "ann"
                    [] token = "${}" -> ""
                    [] token = "${" -> None]

MCEnvironment == [PASSWORD |-> "secret", TOKEN |-> "line\nbreak"]
MCUnencodable == {"line\nbreak"}

MCNumber == [id \in {"1", "2", "x"} |-> CASE id = "1" -> 1 [] id = "2" -> 2
                                          [] id = "x" -> None]

\* Already tags newsletters, under the tag the scan suggests, and one subject.
MCYaml ==
  [bichon   |-> [base_url |-> "url", api_token |-> "secret"],
   database |-> [path |-> "berger.db"],
   accounts |-> << Account("home", "1"), Account("work", "2") >>,
   filters  |-> << [subject_regex |-> "weekly", tag |-> "greeting"],
                   [list_unsubscribe |-> TRUE, tag |-> "newsletter"] >>,
   actions  |-> [newsletter |-> [copy_to |-> "lists", webhook |-> "hook"]],
   llm      |-> [endpoint |-> "url", model |-> "model"],
   webhooks |-> << [name |-> "hook", url |-> "url", retry |-> [max_attempts |-> 1]] >>]

\* Its text: the references in it, and one in a comment.
File(yaml, comment) == [text |-> {"${PASSWORD}", comment}, yaml |-> yaml]
MCFile == File(MCYaml, "")

Command(file, digits, suffix, account) ==
  [file |-> file, since |-> [digits |-> digits, suffix |-> suffix],
   account |-> account]

\* Files that do not load or build no client: a reference to nothing, without
\* an end or to a variable that is not set, in a comment; an unknown field, a
\* blank value, a missing section, a token that fits no header.
MCBadFiles ==
  {File(MCYaml, comment) : comment \in {"${}", "${", "${ann}"}}
  \cup {File(yaml, "") :
          yaml \in {[MCYaml EXCEPT !.llm = [api |-> "key"] @@ @],
                    [MCYaml EXCEPT !.database.path = ""],
                    [MCYaml EXCEPT !.bichon.api_token = "${TOKEN}"],
                    Restrict(MCYaml, {"bichon", "database"})}}

\* Three that scan, one with a file that has no filters and one with a file
\* on which the daemon does not start; days that are none or too many, another
\* unit, a name no account has and an account without a number.
MCCommands ==
  LET bad == File(Restrict([MCYaml EXCEPT !.accounts = Append(@, Account("bad", "x"))],
                           DOMAIN MCYaml \ {"filters"}), "")
      pattern == File([MCYaml EXCEPT !.filters[1].subject_regex = "("], "")
  IN {Command(MCFile, 2, "d", None), Command(bad, 2, "d", "home"),
      Command(pattern, 2, "d", "work"),
      Command(MCFile, 0, "d", None), Command(MCFile, 9, "d", None),
      Command(MCFile, 2, "h", None), Command(MCFile, 2, "d", "nobody"),
      Command(bad, 2, "d", None)}
     \cup {Command(file, 2, "d", None) : file \in MCBadFiles}

MCOptions ==
  {[minEvidence |-> 0, format |-> "text", output |-> None, save |-> TRUE],
   [minEvidence |-> 1, format |-> "all", output |-> "out", save |-> FALSE],
   [minEvidence |-> 2, format |-> "yaml", output |-> "out", save |-> FALSE]}

MCMail == <<
  [envelope |-> Letter(Inbox, Named("do-not-reply", "ci"), <<Me>>, -3),
   eml |-> Plain],
  [envelope |-> Letter(Inbox, Named("news", "shop"), <<Me>>, 1),
   eml |-> Headers("url", None, None, "bulk", "yes")],
  [envelope |-> Letter(Inbox, Named("ann", "work"), <<Me>>, 2),
   eml |-> Headers("", None, None, None, None)],
  [envelope |-> Letter(<<"Sent">>, Me, <<Named("ann", "work"), Odd, <<"Ann">>>>, 3),
   eml |-> Plain],
  [envelope |-> Letter(<<"Berger", "Sent">>, Me, <<Bare("news", "shop")>>, 4),
   eml |-> Plain],
  [envelope |-> Letter(Inbox, Ann, <<Me>>, 5),
   eml |-> Headers(None, "list", "no", "list", "")],
  [envelope |-> Letter(Inbox, Quoting(Ann, Named("no-reply", "ci")), <<Me>>, 6),
   eml |-> Headers(None, "<>", "auto-generated", None, None)],
  [envelope |-> Letter(Inbox, Odd, <<Me>>, 7), eml |-> Plain] >>
=============================================================================
