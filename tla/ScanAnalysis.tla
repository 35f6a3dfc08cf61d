---------------------------- MODULE ScanAnalysis ----------------------------
(***************************************************************************)
(* What `berger scan` computes: the analyzers the suggester reads, the     *)
(* suggested rules, and the berger.yaml entries they are printed as, which *)
(* the native filters read.                                                *)
(***************************************************************************)
EXTENDS Integers, FiniteSetsExt, Folders, NativeFilters, ScanStatistics

CONSTANT HighScore \* HIGH_SCORE_THRESHOLD

-----------------------------------------------------------------------------
(* Headers *)

Present(value) == value \notin {None, ""}

NoHeaders == [list_unsubscribe |-> FALSE, list_id |-> None,
              auto_submitted |-> None, precedence |-> None,
              x_spam_flag |-> None, x_spam_score |-> None,
              authentication_results |-> None]

\* The score of its own header, or the one in the other's text; text that is
\* no number counts as none.
ParseSpamScore(score, status) == IF score # None THEN score ELSE status

ParseHeaders(eml) ==
  LET header(value) == IF Present(value) THEN value ELSE None
  IN [list_unsubscribe |-> Present(eml.list_unsubscribe),
      list_id          |-> header(eml.list_id),
      auto_submitted   |-> header(eml.auto_submitted),
      precedence       |-> header(eml.precedence),
      x_spam_flag      |-> header(eml.x_spam_flag),
      x_spam_score     |-> ParseSpamScore(eml.x_spam_score, eml.x_spam_status),
      authentication_results |-> header(eml.authentication_results)]

-----------------------------------------------------------------------------
(* The analyzers, over inbox: a sequence of [envelope, headers]            *)

\* {[domain, messages]} of the messages an analyzer detects, given by their
\* positions.
ByDomain(inbox, detected) ==
  LET From(i) == ScanAddress(inbox[i].envelope.from)
      counted == {i \in detected : IsAddress(From(i))}
      counts  == [d \in {DomainOf(From(i)) : i \in counted} |->
                    Cardinality({i \in counted : DomainOf(From(i)) = d})]
  IN {[domain |-> d, messages |-> counts[d]] : d \in Busiest(counts)}

DetectNewsletters(inbox) ==
  LET bulk    == {i \in DOMAIN inbox : inbox[i].headers.list_unsubscribe}
      senders == {ScanAddress(inbox[i].envelope.from) : i \in bulk}
  IN {[domain |-> group.domain, messages |-> group.messages,
       distinct_senders |->
         Cardinality({s \in senders : IsAddress(s) /\ DomainOf(s) = group.domain})] :
        group \in ByDomain(inbox, bulk)}

IsNotification(message) ==
  \/ message.headers.auto_submitted \notin {None, "no"}
  \/ message.headers.precedence \in {"bulk", "list", "junk"}
  \/ LET address == ScanAddress(message.envelope.from) IN
       /\ IsAddress(address)
       /\ LocalPart(address) \in {<<"noreply">>, <<"no-reply">>, <<"do-not-reply">>}

DetectNotificationServices(inbox) ==
  ByDomain(inbox, {i \in DOMAIN inbox : IsNotification(inbox[i])})

\* A List-Id of "<>" names no list.
DetectMailingLists(inbox) ==
  LET lists  == {inbox[i].headers.list_id : i \in DOMAIN inbox} \ {None, "<>"}
      counts == [list \in lists |->
                   Tally(inbox, LAMBDA message : message.headers.list_id = list)]
  IN {[list_id |-> list, messages |-> counts[list]] : list \in Busiest(counts)}

\* The ratio is a numerator and its denominator.
Bidirectional(envelopes, sent) ==
  LET received  == CountFrom(envelopes)
      sentTo(a) == Tally(FlattenSeq([i \in DOMAIN sent |-> sent[i].to]),
                         LAMBDA recipient : ScanAddress(recipient) = a)
      counts == [a \in {c \in DOMAIN received : sentTo(c) > 0} |->
                   received[a] + sentTo(a)]
  IN {[address |-> a, messages_received |-> received[a],
       messages_sent_to |-> sentTo(a),
       bidirectional_ratio |-> <<sentTo(a), received[a]>>] :
        a \in Busiest(counts)}

AnalyzeSpam(inbox) ==
  [flagged    |-> Tally(inbox, LAMBDA m : m.headers.x_spam_flag = "yes"),
   high_score |-> Tally(inbox, LAMBDA m : /\ m.headers.x_spam_score # None
                                          /\ m.headers.x_spam_score >= HighScore),
   dmarc_failures |->
     Tally(inbox, LAMBDA m : m.headers.authentication_results = "dmarc=fail")]

\* The inbox is the messages, the analyzers of envelopes read theirs.
Analyze(inbox, sent) ==
  LET envelopes == [i \in DOMAIN inbox |-> inbox[i].envelope] IN
  [messages_analyzed     |-> Len(inbox) + Len(sent),
   inbox_messages        |-> Len(inbox),
   sent_messages         |-> Len(sent),
   top_senders           |-> TopSenders(envelopes),
   top_domains           |-> TopDomains(envelopes),
   bidirectional         |-> Bidirectional(envelopes, sent),
   newsletters           |-> DetectNewsletters(inbox),
   mailing_lists         |-> DetectMailingLists(inbox),
   notification_services |-> DetectNotificationServices(inbox),
   spam                  |-> AnalyzeSpam(inbox),
   subject_ngrams        |-> TopSubjectNgrams(envelopes),
   languages             |-> DetectLanguages(envelopes),
   volume                |-> AnalyzeVolume(envelopes)]

-----------------------------------------------------------------------------
(* The suggester: one rule per category *)

SenderIn(senders) == [type |-> "sender_in", senders |-> senders]
HeaderMatch(header, pattern) ==
  [type |-> "header_match", header |-> header, pattern |-> pattern]
ListUnsubscribe == [type |-> "list_unsubscribe"]

Suggestion(kind, tag, evidence) == [kind |-> kind, tag |-> tag, evidence |-> evidence]

SumOf(groups) == SumFunction([group \in groups |-> group.messages])

\* The rules that need minEvidence messages of the whole category.
CategoryRules(report, minEvidence) ==
  LET candidates ==
        {Suggestion(ListUnsubscribe, "newsletter", SumOf(report.newsletters)),
         Suggestion(HeaderMatch("list_id", "."), "mailing-list",
                    SumOf(report.mailing_lists)),
         Suggestion(HeaderMatch("x_spam_flag", "(?i)yes"), "spam", report.spam.flagged)}
  IN {s \in candidates : s.evidence >= minEvidence}

ServiceRule(services) ==
  Suggestion(SenderIn({s.domain : s \in services}), "notification", SumOf(services))

ContactRule(contacts) ==
  Suggestion(SenderIn({c.address : c \in contacts}), "vip",
             SumFunction([c \in contacts |-> c.messages_received]))

\* Mutant: the evidence counts services below the threshold too.
SuggestEveryService(report, minEvidence) ==
  LET services == {s \in report.notification_services : s.messages >= minEvidence}
      contacts == {c \in report.bidirectional : c.messages_received >= minEvidence}
  IN CategoryRules(report, minEvidence)
     \cup (IF services = {} THEN {}
           ELSE {[ServiceRule(services) EXCEPT
                    !.evidence = SumOf(report.notification_services)]})
     \cup (IF contacts = {} THEN {} ELSE {ContactRule(contacts)})

\* Mutant: a rule is suggested when no service clears the threshold.
SuggestNoServices(report, minEvidence) ==
  LET services == {s \in report.notification_services : s.messages >= minEvidence}
      contacts == {c \in report.bidirectional : c.messages_received >= minEvidence}
  IN CategoryRules(report, minEvidence)
     \cup {ServiceRule(services)}
     \cup (IF contacts = {} THEN {} ELSE {ContactRule(contacts)})

Suggest(report, minEvidence) ==
  LET services == {s \in report.notification_services : s.messages >= minEvidence}
      contacts == {c \in report.bidirectional : c.messages_received >= minEvidence}
  IN CategoryRules(report, minEvidence)
     \cup (IF services = {} THEN {} ELSE {ServiceRule(services)})
     \cup (IF contacts = {} THEN {} ELSE {ContactRule(contacts)})

-----------------------------------------------------------------------------
\* The entry of `filters:` a suggestion is printed as.  Quoting a value and
\* reading it back from the YAML gives the value.
RenderYaml(suggestion) ==
  LET kind == suggestion.kind
      tag  == suggestion.tag
  IN CASE kind.type = "sender_in" -> [sender_in |-> kind.senders, tag |-> tag]
       [] kind.type = "header_match" ->
            [header_match |-> [header |-> kind.header, pattern |-> kind.pattern],
             tag |-> tag]
       [] kind.type = "list_unsubscribe" -> [list_unsubscribe |-> TRUE, tag |-> tag]
=============================================================================
