-------------------------------- MODULE Scan --------------------------------
(***************************************************************************)
(* `berger scan`: the command line and the configuration say what to scan, *)
(* the search is paged through, INBOX and Sent are kept, each INBOX        *)
(* message is downloaded, the analysis becomes suggested rules, and these  *)
(* are written where the command line says.  Bichon keeps indexing while   *)
(* the pages are read: a message that enters or leaves the index shifts    *)
(* the pages behind it.                                                    *)
(***************************************************************************)
EXTENDS ScanAnalysis, BichonClient, ConfigFile

CONSTANTS Commands,      \* [file: of --config, since: --since, account: --account]
          Number,        \* Number[id]: a bichon_account_id as a number, or None
          MaxDays,       \* u32::MAX
          Now,           \* the time of the scan
          Mail,          \* the messages there may be, by ascending date:
                         \*  [envelope: [account, folder, from, to, subject,
                         \*  date], eml]
          PageSize,      \* PAGE_SIZE
          Options,       \* [minEvidence, format, output, save] tried
          Starts,        \* the contents of the index when a scan begins
          MaxFailures,   \* bound: messages that cannot be downloaded
          MaxGains,      \* bound: messages indexed during the fetch
          MaxLosses      \* bound: messages leaving the index during the fetch

ASSUME ScanAssumption ==
  /\ Mail \in Seq(ToSet(Mail))
  /\ \A m \in DOMAIN Mail : /\ Mail[m].envelope.date \in Int
                            /\ Mail[m].envelope.from \in Seq(STRING)
                            /\ Mail[m].envelope.to \in Seq(Seq(STRING))
                            /\ Mail[m].envelope.subject \in Seq(STRING)
                            /\ {"list_id", "x_spam_flag"} \subseteq DOMAIN Mail[m].eml
  /\ \A m, n \in DOMAIN Mail : m < n => Mail[m].envelope.date <= Mail[n].envelope.date
  /\ PageSize \in Nat \ {0} /\ Top \in Nat \ {0}
  /\ HourLength \in Nat \ {0} /\ HoursPerDay \in Nat \ {0}
  /\ Starts \subseteq SUBSET DOMAIN Mail
  /\ SampleFloor \in Nat \ {0} /\ SampleShare \in Nat \ {0}
  /\ Now \in Int /\ MaxDays \in Nat
  /\ \A c \in Commands : "filters" \in DOMAIN c.file.yaml =>
       c.file.yaml.filters \in Seq(ToSet(c.file.yaml.filters))

VARIABLES command,     \* what the scan itself reads of the command line
          loaded,      \* the configuration it names
          index,       \* what a search can return
          pc,          \* "fetch", "download", "write", "done" or "failed"
          page,
          fetched,     \* the envelopes read, named by their messages
          scanned,     \* the inbox messages downloaded: [envelope, headers]
          report, suggestions,
          options,     \* the rest of the command line, read at the end
          todo,        \* the outputs still to be written
          files,       \* [path -> what was written there]
          reports,     \* the rows of scan_reports this scan added
          failures, gains, losses,
          stable       \* history: in the index throughout the fetch

inputs  == <<command, loaded>>
results == <<scanned, report, suggestions>>
outputs == <<options, todo, files, reports>>
changes == <<gains, losses, stable>>
vars    == <<inputs, index, pc, page, fetched, results, outputs, failures,
             changes>>

Message     == DOMAIN Mail
Envelope(m) == Mail[m].envelope

\* The message as the native filters see it.
View(m) == [from |-> Envelope(m).from, subject |-> Envelope(m).subject,
            headers |-> Mail[m].eml]

\* What the suggester writes whatever it finds holds no reference, and its
\* patterns match what they are meant to: any list, and a flag that says yes.
Words == {"newsletter", "mailing-list", "spam", "notification", "vip",
          "list_id", ".", "x_spam_flag", "(?i)yes"}

ASSUME PatternAssumption ==
  /\ {".", "(?i)yes"} \subseteq DOMAIN Regex
  /\ Words \intersect DOMAIN Reference = {}
  /\ \A m \in Message :
       Present(Mail[m].eml.list_id) => Mail[m].eml.list_id \in Regex["."]
  /\ "yes" \in Regex["(?i)yes"]

\* The addresses and domains it may write.
Authors == {ScanAddress(Envelope(m).from) : m \in Message}
Domains == {DomainOf(author) : author \in Authors}

\* Nothing it writes reads as absent, and neither does the flag of spam.
HeaderSpec == [{"header", "pattern"} -> Words]
RuleSpec   == [sender_in        : {None} \cup SUBSET (Authors \cup Domains),
               subject_regex    : {None},
               list_unsubscribe : BOOLEAN,
               header_match     : {None} \cup HeaderSpec,
               tag              : Words]
ASSUME NoneAssumption ==
  /\ \A senders \in SUBSET (Authors \cup Domains) : senders # None
  /\ None \notin {"", "yes"} /\ None \notin HeaderSpec /\ None \notin RuleSpec

-----------------------------------------------------------------------------
(* parse_since, resolve_account_ids *)

\* A count of days: a u32 other than 0, and the suffix d.
ParseSince(spec) ==
  IF spec.suffix = "d" /\ spec.digits \in 1..MaxDays THEN spec.digits ELSE None

\* None: no account of that name, or one without a numeric id.
ResolveAccountIds(config, name) ==
  LET matching == SelectSeq(config.accounts,
                            LAMBDA account : name \in {None, account.name})
      ids == {Number[matching[i].bichon_account_id] : i \in DOMAIN matching}
  IN IF ids = {} \/ None \in ids THEN None ELSE ids

Days  == ParseSince(command.since)
Ids   == ResolveAccountIds(loaded, command.account)
Since == Now - Days * HoursPerDay * HourLength

-----------------------------------------------------------------------------
(* Bichon *)

Window == {m \in index : Envelope(m).account \in Ids /\ Envelope(m).date >= Since}

\* The place of a message in the search result, sorted by Date:, ascending.
Place(m) == Cardinality({n \in Window : n <= m})

IndexGains(m) ==
  /\ pc = "fetch"
  /\ m \notin index /\ m \notin stable /\ gains < MaxGains
  /\ index' = index \cup {m} /\ gains' = gains + 1
  /\ UNCHANGED <<inputs, pc, page, fetched, results, outputs, failures, losses, stable>>

IndexLoses(m) ==
  /\ pc = "fetch"
  /\ m \in index /\ losses < MaxLosses
  /\ index' = index \ {m} /\ losses' = losses + 1
  /\ stable' = stable \ {m}
  /\ UNCHANGED <<inputs, pc, page, fetched, results, outputs, failures, gains>>

-----------------------------------------------------------------------------
(* fetch_window *)

Page == Pick([m \in Message |-> m],
             {m \in Window : Place(m) \in (page - 1) * PageSize + 1 .. page * PageSize})

\* Mutant: a page is taken for the last as soon as it is not overfull.
FetchPageOnce ==
  /\ pc = "fetch"
  /\ \E result \in SearchMessages(Page) :
       /\ Succeeded(result)
       /\ fetched' = fetched \o result.value.items
       /\ IF Len(result.value.items) <= PageSize
          THEN pc' = "download" /\ page' = page
          ELSE pc' = pc /\ page' = page + 1
  /\ UNCHANGED <<inputs, index, results, outputs, failures, changes>>

\* Mutant: paging goes on until a page is empty.
FetchPageUntilEmpty ==
  /\ pc = "fetch"
  /\ \E result \in SearchMessages(Page) :
       /\ Succeeded(result)
       /\ fetched' = fetched \o result.value.items
       /\ IF result.value.items = <<>>
          THEN pc' = "download" /\ page' = page
          ELSE pc' = pc /\ page' = page + 1
  /\ UNCHANGED <<inputs, index, results, outputs, failures, changes>>

FetchPage ==
  /\ pc = "fetch"
  /\ \E result \in SearchMessages(Page) :
       /\ Succeeded(result)
       /\ fetched' = fetched \o result.value.items
       /\ IF Len(result.value.items) < PageSize
          THEN pc' = "download" /\ page' = page
          ELSE pc' = pc /\ page' = page + 1
  /\ UNCHANGED <<inputs, index, results, outputs, failures, changes>>

FetchFails ==
  /\ pc = "fetch" /\ pc' = "failed"
  /\ \E result \in SearchMessages(Page) : ~Succeeded(result)
  /\ UNCHANGED <<inputs, index, page, fetched, results, outputs, failures, changes>>

-----------------------------------------------------------------------------
(* scan, suggest *)

Class(m)  == ClassifyFolder(Envelope(m).folder)
InClass(class) == Pick(fetched, {i \in DOMAIN fetched : Class(fetched[i]) = class})

InboxMail == InClass("inbox")
SentMail  == InClass("sent")

\* A message that cannot be downloaded is kept, without headers.
Download ==
  /\ pc = "download" /\ Len(scanned) < Len(InboxMail)
  /\ LET m == InboxMail[Len(scanned) + 1] IN
       \E result \in {DownloadMessage(answer) : answer \in DownloadAnswers(m)} :
         /\ Succeeded(result) \/ failures < MaxFailures
         /\ failures' = failures + (IF Succeeded(result) THEN 0 ELSE 1)
         /\ scanned' = Append(scanned,
              [envelope |-> Envelope(m),
               headers  |-> IF Succeeded(result) THEN ParseHeaders(Mail[m].eml)
                                                 ELSE NoHeaders])
  /\ UNCHANGED <<inputs, index, pc, page, fetched, report, suggestions, outputs,
                 changes>>

-----------------------------------------------------------------------------
(* The outputs *)

\* A file named by the time and the extension, unless exactly one is asked for.
OutputPath(format, output, extension) ==
  IF format = "all" \/ output = None THEN <<"berger-scan", extension>> ELSE output

\* The text goes to stdout first and cannot fail; the row is the last.
Outputs(o) ==
     (IF o.format \in {"yaml", "all"} THEN <<"yaml">> ELSE <<>>)
  \o (IF o.format \in {"json", "all"} THEN <<"json">> ELSE <<>>)
  \o (IF o.save THEN <<"report">> ELSE <<>>)

Conclude ==
  /\ pc = "download" /\ Len(scanned) = Len(InboxMail)
  /\ pc' = "write"
  /\ report' = Analyze(scanned, [i \in DOMAIN SentMail |-> Envelope(SentMail[i])])
  /\ options' \in Options
  /\ suggestions' = Suggest(report', options'.minEvidence)
  /\ todo' = Outputs(options')
  /\ UNCHANGED <<inputs, index, page, fetched, scanned, files, reports, failures,
                 changes>>

Save(row) == reports' = Append(reports, row)

Write ==
  /\ pc = "write" /\ todo # <<>>
  /\ todo' = Tail(todo)
  /\ IF Head(todo) = "report"
     THEN /\ Save([period_days |-> Days,
                   messages_analyzed |-> report.messages_analyzed,
                   report |-> report, suggestions |-> suggestions])
          /\ UNCHANGED files
     ELSE LET written == OutputPath(options.format, options.output, Head(todo))
          IN /\ files' = [path \in DOMAIN files \cup {written} |->
                            IF path = written THEN Head(todo) ELSE files[path]]
             /\ UNCHANGED reports
  /\ UNCHANGED <<inputs, index, pc, page, fetched, results, options, failures,
                 changes>>

\* A file or a row that cannot be written ends the command.
WriteFails ==
  /\ pc = "write" /\ todo # <<>>
  /\ pc' = "failed"
  /\ UNCHANGED <<inputs, index, page, fetched, results, outputs, failures, changes>>

Finish ==
  /\ pc = "write" /\ todo = <<>>
  /\ pc' = "done"
  /\ UNCHANGED <<inputs, index, page, fetched, results, outputs, failures, changes>>

-----------------------------------------------------------------------------
Init ==
  /\ index \in Starts
  /\ command \in Commands
  /\ loaded = Parse(command.file)
  /\ pc = IF /\ Days # None /\ loaded # None
             /\ BuildsClient(loaded.bichon.api_token)
             /\ Ids # None
          THEN "fetch" ELSE "failed"
  /\ page = 1 /\ fetched = <<>> /\ scanned = <<>>
  /\ report = <<>> /\ suggestions = {}
  /\ options = None /\ todo = <<>> /\ files = <<>> /\ reports = <<>>
  /\ failures = 0 /\ gains = 0 /\ losses = 0 /\ stable = index

Next ==
  \/ \E m \in Message : IndexGains(m) \/ IndexLoses(m)
  \/ FetchPage \/ FetchFails \/ Download \/ Conclude \/ Write \/ WriteFails \/ Finish

Spec == Init /\ [][Next]_vars

-----------------------------------------------------------------------------
(* Properties *)

TypeOK ==
  /\ command \in Commands
  /\ index \subseteq Message /\ stable \subseteq index
  /\ pc \in {"fetch", "download", "write", "done", "failed"}
  /\ page \in Nat \ {0}
  /\ pc = "fetch" => Len(fetched) = (page - 1) * PageSize
  /\ fetched \in Seq(Message)
  /\ Len(scanned) <= Len(InboxMail)
  /\ pc = "done" => /\ report.inbox_messages = Len(InboxMail)
                    /\ suggestions # {} => Cardinality({r.tag : r \in suggestions})
                                             = Cardinality(suggestions)

\* What paging over a changing index costs is bounded by the changes: a
\* message is counted again only for a message indexed meanwhile, and a
\* message that was there all along is overlooked only for one that left.
DriftIsBounded ==
  /\ Len(fetched) - Cardinality(ToSet(fetched)) <= gains
  /\ pc \in {"download", "done"} =>
       Cardinality((stable \intersect Window) \ ToSet(fetched)) <= losses

\* The suggestions without a reference: quoting a value for YAML leaves a
\* "${" in an address to interpolation.
Literal(rules) ==
  {s \in rules : s.kind.type = "sender_in" =>
      \A sender \in s.kind.senders : ToSet(sender) \intersect DOMAIN Reference = {}}

\* A suggestion is backed by messages its rule would have tagged: the rule,
\* read by the native filters, matches at least as many of the scanned
\* messages as it claims, counting those fetched again each time, and up to
\* the messages whose From the two readings of an address take differently.
SuggestionsBacked ==
  pc = "done" =>
    \A s \in Literal(suggestions) :
      s.evidence
        <= Tally(InboxMail,
                 LAMBDA m : \/ Matches(ReadFilter(RenderYaml(s)), View(m))
                            \/ ScanAddress(Envelope(m).from)
                                 # FilterAddress(Envelope(m).from))

\* The file with entries appended to its filters.
Merged(file, rules) ==
  [text |-> file.text,
   yaml |-> [section \in DOMAIN file.yaml \cup {"filters"} |->
               IF section # "filters" THEN file.yaml[section]
               ELSE IF section \in DOMAIN file.yaml THEN file.yaml.filters \o rules
               ELSE rules]]

\* "The YAML merges straight into a real berger.yaml" (scan/suggester.rs):
\* with the suggested rules (but those with a reference) appended, a daemon
\* that started on the file still starts, no rule is lost in compilation, and
\* the tags messages had before stay; and a file asked for holds them, not
\* what was written after.  (A scan compiles no filter of the file and talks
\* to no model: it may run where the daemon does not start.)
SuggestionsMerge ==
  pc = "done" =>
    LET rules  == SetToSeq({RenderYaml(s) : s \in Literal(suggestions)})
        merged == Merged(command.file, rules)
        before == CompileFilters(loaded.filters)
        after  == CompileFilters(Parse(merged).filters)
    IN /\ \A i \in DOMAIN Outputs(options) :
            Outputs(options)[i] \in {files[path] : path \in DOMAIN files} \cup {"report"}
       /\ DaemonStarts(command.file) =>
            /\ DaemonStarts(merged)
            /\ Len(after) = Len(loaded.filters) + Len(rules)
            /\ \A m \in ToSet(InboxMail) :
                 IsPrefix(TagsOf(before, View(m)), TagsOf(after, View(m)))

\* A suggested contact is one the user has written to: Berger's copies of
\* sent mail, in its own folders, are evidence of nothing.
ContactsAreMutual ==
  pc = "done" =>
    \A rule \in suggestions : rule.tag = "vip" =>
      \A sender \in rule.kind.senders :
        \E m, n \in ToSet(fetched) :
          /\ ~IsBergerFolder(Envelope(m).folder) /\ IsInbox(Envelope(n).folder)
          /\ ScanAddress(Envelope(n).from) = sender
          /\ \E i \in DOMAIN Envelope(m).to : ScanAddress(Envelope(m).to[i]) = sender

\* The dimensions of a report are counts of the same mail and agree: the
\* hours, before the epoch too, add up to the inbox; a domain received what
\* its senders sent; a contact and a newsletter are senders; a phrase is no
\* more frequent than its beginning; enough subjects are sampled, and the
\* shares of their languages make a whole.
ReportAddsUp ==
  pc = "done" =>
    LET inbox   == [i \in DOMAIN scanned |-> scanned[i].envelope]
        volume  == report.volume
        senders == report.top_senders
        phrases == report.subject_ngrams
        Received(rows) == SumFunction([row \in rows |-> row.messages_received])
    IN /\ SumFunction(volume.hourly) = report.inbox_messages
       /\ \A hour \in DOMAIN volume.hourly :
            /\ volume.hourly[hour] <= volume.peak_hour_messages
            /\ volume.hourly[hour] = volume.peak_hour_messages
                 => hour >= volume.busiest_hour
       /\ \A d \in report.top_domains :
            LET own == {row \in senders : DomainOf(row.address) = d.domain}
            IN /\ Received(own) <= d.messages_received
               /\ Cardinality(senders) < Top => Received(own) = d.messages_received
       /\ \A contact \in report.bidirectional, row \in senders :
            contact.address = row.address =>
              contact.messages_received = row.messages_received
       /\ \A n \in report.newsletters, d \in report.top_domains :
            n.domain = d.domain => /\ n.distinct_senders <= n.messages
                                   /\ n.messages <= d.messages_received
       /\ \A p \in phrases : Len(p.phrase) = 3 /\ Cardinality(phrases) < Top =>
            \E q \in phrases : /\ q.phrase = SubSeq(p.phrase, 1, 2)
                               /\ q.occurrences >= p.occurrences
       /\ Cardinality(Sample(Len(inbox))) >= Min({Len(inbox), SampleFloor})
       /\ \A l \in report.languages :
            l.share[2] = SumFunction([k \in report.languages |-> k.share[1]])
=============================================================================
