# Berger in TLA+

Berger (`src/`, Rust) is a mail triage daemon. It polls a mail index (Bichon)
for new messages in INBOX, tags each one with native filters and optionally an
LLM, files it over IMAP below `Berger/`, remembers it in a SQLite sidecar, and
announces it to webhooks. This directory specifies that behaviour in TLA+,
checks it with TLC on small instances and proves part of it with TLAPS.

Paths below are relative to `src/src/` unless they say otherwise.

## 1. The system

| component | state it keeps | operations | interacts with |
|---|---|---|---|
| daemon loop `cli/run.rs` | the configuration read at start, the IMAP session of one account at a time | for each account in turn: find or insert its row, poll, connect, process each message, save the watermark; then sleep | everything below; runs next to the WebUI |
| Bichon client `ingest/bichon_client.rs` | none | send a request, read its answer: a page, an error envelope, or neither | the poller, the pipeline (downloads), the scan |
| poller `ingest/poller.rs` | none of its own: a watermark in, a watermark out | one windowed, paged search; scope filter | Bichon, `accounts.last_cursor` |
| pipeline `pipeline/mod.rs` | none between messages | ledger check, download, filters, classifier, IMAP actions, six kinds of sidecar rows, webhooks | all of them |
| IMAP actions `actions/` | the mailbox, on the server | resolve, consolidate, then flags, folder creation, copies, one move | IMAP server, which the user uses too |
| classifier `llm/` | the decision cache `llm_decisions` | cache lookup, prompt, HTTP call, parse | pipeline (stores the decision later) |
| webhooks `webhooks/` | `webhook_emissions` | select, build the event (dates, addresses, links), render, POST with retry and backoff, audit | an HTTP consumer |
| sidecar `storage/` | eight tables, autocommitted row by row | insert, lookup, upsert of the watermark | daemon, WebUI, CLI reports |
| WebUI `webui/`, `cli/explain.rs`, `cli/status.rs` | none | read several tables, one statement at a time | the sidecar, through connections of their own |
| dry run `cli/dry_run.rs` | none | poll, filter, resolve, print | Bichon, the sidecar (read only) |
| scan `scan/`, `cli/scan.rs` | `scan_reports`, the files written | windowed fetch, ten analyzers, suggested rules, report and YAML | Bichon, the configuration format |
| Thunderbird export `cli/export_thunderbird.rs` | none | one filter rule per tag with a folder | the `actions:` section; Thunderbird |
| configuration `config/` | none | interpolate, parse, validate | everything at start-up |

What is hard here:

* **Crashes between two durable steps.** IMAP commands and sidecar inserts are
  separate; nothing is transactional across them, and the sidecar itself commits
  row by row. The order of the steps is the only protection, so the order is
  what the models keep.
* **The same message again.** Re-delivery, two envelopes with one Message-ID,
  a failed message polled again, two tags naming one webhook.
* **A mailbox and an index that others change.** The user moves mail and deletes
  folders between two commands of one step; Bichon's index lags the mailbox and
  changes between two pages of one search.
* **Dates chosen by senders.** The watermark is a maximum over `Date:` headers,
  and the webhook payload computes civil dates by hand, before 1970 too.
* **The same thing read twice.** Three functions read an address, two look a
  watermark up, two evaluate a rule, three files parse one configuration.
* **An unreliable webhook consumer.** Lost requests, lost answers, answers that
  arrive during a later attempt.
* **One loop.** Everything is sequential over all accounts: what does not end
  stops everything, and what fails must not.
* **Edits between restarts.** `berger.yaml` changes; the rows keyed by what it
  said before stay.

What makes each component right:

* pipeline: a message is recorded only once it is filed, announced only once it
  is completely recorded, and neither is done again for a recorded Message-ID;
* IMAP actions: exactly the winning folders and flags, the move last, nothing
  lost by a failure;
* poller: nothing in the window is skipped, the watermark never goes back, old
  mail and Berger's own folders are left alone;
* daemon loop: accounts keep their own watermarks, a Message-ID is triaged in
  one of them, and none starves because another fails;
* classifier: a reply is heeded, or the native tags stay in force;
* webhooks: bounded attempts, true verdicts, true events, an end;
* WebUI: a page is a consistent view even while the daemon writes;
* scan, export: what is suggested or exported means to its reader what it meant
  to its writer.

## 2. The modules

| module | models | composed from |
|---|---|---|
| `Selection` | what iterator adapters keep of a sequence (external): pure operators | – |
| `TagPlan` | tags of the filters and the classifier, actions resolved from tags, their consolidation, the webhooks a message fires: pure operators | `Selection` |
| `Mailbox` | the IMAP account: INBOX, folders, copies, flags, and its user (external) | – |
| `Writeback` | `apply_actions` as a program counter over the consolidated plan, one IMAP command per step | `Mailbox`, `TagPlan` |
| `ThunderbirdExport` | the exported rules (pure operators), and what Thunderbird makes of them (external) | `TagPlan` |
| `ApplyActions` | one call of `apply_actions` for every configuration given, next to the export of the same configuration | `Writeback`, `ThunderbirdExport` |
| `Classifier` | the model's HTTP answer, the object cut out of a reply, its decoding: pure operators | `TagPlan` |
| `TriageContract` | what triage promises about a Message-ID: recorded once, then announced, once per webhook | – |
| `Triage` | the daemon's cycle of one account: index, connection, `Pipeline::process` step by step, the sidecar tables, errors and crashes; implements `TriageContract` | `Writeback`, `Classifier` |
| `Folders` | folder names: INBOX, Berger's own, Sent | – |
| `BichonClient` | every kind of answer of Bichon and the result or error the client makes of it: pure operators | – |
| `Poller` | the watermark, the safety margin, the paged search, the cycle around them | `Folders`, `BichonClient` |
| `Accounts` | the loop over all accounts, the `accounts` table, edits of `berger.yaml`, restarts, accounts that fail in every cycle, a server that never answers; the dry run's plan for each account | `BichonClient` |
| `Addresses` | the three readings of a From, To or Cc value: pure operators | – |
| `WebhookPayload` | the event built of a message: civil dates, addresses, classification, links: pure operators | `Addresses` |
| `DeliveryContract` | what a delivery promises: attempts within a budget, a verdict, once | – |
| `WebhookDelivery` | `WebhookEmitter::deliver`: attempts, backoff, time-outs, the audit row, against an unreliable consumer; implements `DeliveryContract` | `WebhookPayload`, `DeliveryContract` |
| `SidecarViews` | opening the sidecar; the WebUI's pages, `berger explain` and `berger status`, one SELECT per step, against the daemon's inserts | – |
| `Config` | the parsed `berger.yaml` and its validation: pure operators | `TagPlan` |
| `NativeFilters` | rules compiled, matched and turned into tags: pure operators | `Config`, `Addresses` |
| `ConfigFile` | interpolation of the file's text, loading, the clients and options the commands build of it: pure operators | `NativeFilters` |
| `ScanStatistics` | the analyzers whose results are only reported: senders, domains, n-grams, languages, volume | `Addresses` |
| `ScanAnalysis` | the analyzers the suggester reads, the suggester, the entry a suggestion is printed as | `Folders`, `NativeFilters`, `ScanStatistics` |
| `Scan` | `berger scan`: options, paging, downloads, conclusion, files written and report saved, the merge of the suggestions | `ScanAnalysis`, `ConfigFile`, `BichonClient`, `Selection` |

`X_proofs` holds the theorems about `X`, for `X` among `TagPlan`, `ApplyActions`,
`Triage`, `Poller`, `Accounts`, `SidecarViews`, `WebhookDelivery` and `Scan`.
Those about the pure operators a component uses are with it: `BichonClient` in
`Poller_proofs`, `WebhookPayload` in `WebhookDelivery_proofs`, `NativeFilters` in
`Scan_proofs`.

`MC*` modules give the constants small values. Definitions whose comment begins
with *Mutant:* are deliberately wrong variants of the definition below them:
substituted for it they break the property they were written for, which shows
that the property depends on the code it is about.

How state and actions correspond to the code:

* `Triage`. `pc` is the place in `poll_one_account` and `Pipeline::process`;
  `batch` the envelopes `poll_account` returned (`Poll` takes any INBOX mail of
  the index: watermarks are `Poller`'s business), `current` the one in hand,
  `plan` and `done` (from `Writeback`) the consolidated actions and how many of
  them are through, `tags` and `decision` the locals of `process`, `hook` the next mention
  of a webhook. `processed_messages`, `llm_decisions`, `audit_rows` and
  `webhook_emissions` are the tables, the audit rows only counted.
  `Classify` is the cache lookup plus the call; `Record` the ledger insert;
  `RecordDecision`, `RecordAuditRow` the inserts behind it, each its own
  commit; `NextWebhook` selects and POSTs, `DeliveryEnds` writes the audit row,
  which may fail and only be logged. `ProcessFails` is any `?` of `process`: the
  loop logs it and goes on. `Crash` forgets everything but the tables and the
  mailbox. Copies of one Message-ID are several envelopes with one `IdOf`.
  `WouldSkip` and `WouldProcess` are `berger dry-run`: functions of the same
  state, since it writes nothing and may be run at any moment.
* `Writeback`. `FolderExists` and `CreateFolder` are the two commands of
  `ensure_folder_exists`, so the user can act between them and between them and
  the COPY. A `UID COPY`, `MOVE` or `STORE` of a message that is no longer in
  INBOX answers OK and does nothing, as RFC 3501 has it; a COPY to a folder
  that is gone fails.
* `Poller`. `FetchPage` is one page with everything the last page brings
  about: the new watermark (a maximum over all messages, Berger's folders
  included), then the scope filter. Of messages of one date a search returns
  any first, and not the same ones for every page (`FirstMatches`, `Pages`). The
  watermark is saved after the batch, whatever failed in it.
* `BichonClient`. An answer is lost, or has a status and a body of some kind;
  `SearchMessages(found)` is the set of results a search may come to when
  `found` is what matches, errors included. `Poller`, `Accounts` and `Scan`
  take one of them at each request.
* `Accounts`. `at` is the place in the `for` loop over the accounts, `rows` the
  `accounts` table, `file` what `berger.yaml` holds now and `config` what the
  daemon read when it started. `OpenAccount` is everything up to the search
  (find the row by name, or insert it; parse the id; read the watermark, or
  take the present); `Search` a whole poll; `NextAccount` both ways out of an
  iteration. `Hang` is an IMAP command that is never answered. `DryRun` is the
  plan `berger dry-run` would make with the file as it is.
* `Classifier`. A reply is a sequence of tokens (prose, lone braces, balanced
  objects), since the code cuts from the first `{` to the last `}`.
* `WebhookDelivery`. `Render` builds the event of `WebhookPayload`, in which the
  calendar is computed as in the code and an address is a sequence of tokens. An attempt is a request in the network: `RequestLost`,
  `Handle` (the consumer sees it, and answers with any status), `Answered`,
  `TransportError` (which may come although the consumer has accepted).
* `SidecarViews`. `RecordMessage`, one insert per table and `LetGo` are what `Triage`'s
  recording looks like from the tables; `Ask` begins a report, `Read` runs its
  next statement on the tables as they are then (each statement of SQLite sees
  one snapshot, two statements two).
* `Scan`. Messages are numbered by date, and a search returns them in this order.
  `FetchPage` is a round of `fetch_window`'s loop on the index as it is then; `Download` keeps a message it cannot download, with no headers;
  `Conclude` is `analyze` and `suggest`. A From value is a sequence of tokens,
  because the scan reads the first pair of brackets and the filters the last.
  An hour has `HourLength` ticks and a day `HoursPerDay` hours.
* `Config`, `NativeFilters`. A configuration is a record shaped like
  `BergerConfig`; a string that trims to nothing is `""`; a regex is the set of
  values it matches, and a pattern outside `DOMAIN Regex` does not compile.
  `Triage` sees a compiled rule as its tag and the messages it hits.

## 3. The runs

| run | what it shows | bounds |
|---|---|---|
| `apply_actions` | the commands of one call file exactly what wins (`AppliesExactly`), a failure loses nothing (`FailureLosesNothing`), nothing follows the move (`NothingAfterMove`), the exported Thunderbird rules file alike where the tags agree (`ExportAgrees`) | three tags and one the message lacks; folders `a`, `a/b`, `a.b`, the last two one mailbox of the server; one failing command, one act of the user |
| `triage` | one delivery per webhook and Message-ID; recorded only once filed; announced only once recorded; a missing audit row is paid for; refinement of `TriageContract`; every indexed message is recorded or leaves the index | two messages, filters, two folders, one webhook named by two tags, one error, one crash, one act of the user |
| `triage_llm` | the decision cache is never hit; what is repeated is paid for by a fault; a reply is heeded; a recorded message's copies are left alone; the dry run announces what a run begins with | two envelopes of one Message-ID; replies bare, wrapped, with two objects, a stray brace or a bad priority, no choice, no completion, no answer |
| `poller` | the window is swept, a message that failed is tried again as long as the margin reaches it, history is left alone, the watermark never goes back | four messages (old, two current, one of Berger's dated beyond the margin of one of them), pages of two, margin 2, one loss, one fault, one crash |
| `accounts` | watermarks are kept apart, a Message-ID in two accounts is triaged in one, no account starves because another fails | two configurations, of two and three accounts, one of which refuses connections or has an id that is no number; three messages; one edit, one fault, one crash, one hung server; clock to 2 |
| `webhook_delivery` | a reported success was accepted, a reported failure used its budget, the event is true of its message, a delivery ends; refinement of `DeliveryContract` | retry budgets 0, 1, 3; 28 instants (leap days, both sides of the epoch, year 0), six From values |
| `sidecar_views` | dashboard counters are nested, no cache hit is invented by reading between two inserts, a page that shows a tag shows all its reasons | reports opened and read; two messages (symmetric), three shapes of triage, windows of 0 and 2 ticks, clock to 3, one recent message shown |
| `scan` | drift of a paged fetch is bounded by the changes of the index; suggested rules match the messages that back them, and merge into a valid configuration without disturbing its tags; contacts are mutual; the report's dimensions add up | eight messages, pages of two, one gained, one lost, one not downloaded, thresholds 0 to 2, option and file errors, a file without filters and one the daemon refuses |
| `dropped_copy` (violation) | a copy dropped in favour of a move that is itself dropped | as `apply_actions` |
| `in_flight_lost` (violation) | a crash behind the MOVE: the message is never recorded | as `triage`, one crash |
| `future_mail` (violation) | one message from the future hides all mail behind the watermark | two messages |
| `dry_run_window` (violation) | an account's Bichon id is edited: the dry run and the daemon look from different watermarks | one message, two configurations, clock to 3 |

The bounds suffice because the interesting cases are small: every hazard of the
triage loop needs at most one message in hand and another one (or the same one
again) in a later cycle, one interruption and one interference; a second of
either only repeats the situation the first one left, which the tables record
completely. Paging needs two pages that a change straddles. The accounts need a
failing one before a healthy one and a healthy one behind it. The consumer of a
webhook needs one attempt whose answer is late and one after it. Where a run
bounds faults, crashes, losses, edits or time, the bound is a constant in its
`.cfg` and a guard in the action it bounds. `Week - Day` also says how long a
report may take: a dashboard query is over before the six days between its two
windows.

`CHECK_DEADLOCK FALSE` is set where the program, or its time, ends: one call of
`apply_actions`, one delivery, one scan; and in `Accounts`, where a hung server
stops the daemon and the clock is bounded.

Fairness. The daemon is one sequential task: `WF_vars(Daemon)` in `Triage`,
`Poller` and `Accounts` says that it goes on, because its sleep is a fixed
interval and its calls end. The HTTP clients have time-outs (Bichon 30 s,
`ingest/bichon_client.rs:65`; the model 60 s, `llm/mod.rs:119`; webhooks 30 s,
`webhooks/emitter.rs:85`), so a lost answer is an error and not a wait. IMAP
commands have none: `Accounts` has a step `Hang` after which the daemon does
nothing, and `OwedIsTriaged` excepts the state it leads to. `Triage` has no such
step; `IndexedIsRecorded` is about servers that answer.
`WF_vars(IndexCatchesUp(e))`: Bichon does index what is in the mailbox. `WF` of
`Deliver` in `WebhookDelivery` rests on the client's time-out, which ends every
attempt: the mutant without it breaks `DeliveryEnds`. Faults, crashes, edits and
the user are bounded, never fair.

## 4. What is proved

Every theorem holds for all values of the constants that satisfy the named
assumptions of the modules concerned: any messages, folders, filters, actions,
webhooks, accounts, and any number of faults, crashes and edits. None assumes
fairness. The assumptions say that a constant is of the kind the code has there
(an `actions:` section names folders, a date is a number, a page is not empty);
two theorems have a hypothesis of their own, `OneMailboxEach` and
`DistinctDates`, and say what happens without it.

**`TagPlan_proofs`** has the lemmas all plans rest on. `FlattenPlaces` and
`PickPlaces` say of each element of a flattened or filtered sequence where it
comes from. `PlanIsAsked`: the consolidated steps are the flags asked for, the
copies that no move names, and the first move at the end. `PlanFilesOnce`: no
folder twice. `ResolvePrefix` and `MergedTags`: the classifier's tags come behind
and change nothing before them. Where these are inductions over a sequence, the
induction is over a set of numbers (`NatSet`), of which the library's theorem
needs no operator.

**`ApplyActions_proofs`.** `Invariance`: `Spec => []IInv`. Between two commands the
plan is what is done and what is left, and the marks of what is done show: a
folder has been copied to as often as the steps behind name it, the flags are
set, and the message has left INBOX only behind the move or by an act of the
user. It yields `OkAppliesExactly` (`AppliesExactly`), `ErrLosesNothing`
(`FailureLosesNothing`) and `MoveIsLast` (`NothingAfterMove`), for any section,
any separator and folders the server does not tell apart. `ExportAgreesAlways`
(`ExportAgrees`) adds that the first rule Thunderbird finds matching is one of a
tag of the message (`MovedBy` by its place in the alphabet), and that a tag's
folder is among the plan's.

**`Triage_proofs`.** `InvInductive`: `Spec => []Inv`. `PostedAtMostOnce` is not
inductive: that a webhook was not POSTed before rests on the message not having
been in the ledger when this pass began (`HandInLedger`), on nothing having been
POSTed for a message outside the ledger (`LedgerFirst`) and, within a pass, on
`NextWebhook` POSTing at a first mention only (`PostedByThisPass`).
`CompleteBeforeAnnounced` carries the tables' contents past the recording.

* From `Inv`: `TypeCorrect`, `WebhookOncePerMessage` (`PostedAtMostOnce`),
  `CacheIsNeverHit` (`CacheNeverHit`: a decision is in the cache only of a
  Message-ID in the ledger, and such a message is not classified),
  `AnnouncedOnceRecorded` (`PostedOnceRecorded`) and `LedgerIsRespected`
  (`LedgerFreezesMailbox`).
* `MissingRowsArePaidFor` (`UnauditedIsPaidFor`) has an invariant of its own,
  `UnauditedInv`: the deliveries without an audit row are a finite set, no larger
  than faults, crashes and the delivery under way together. A delivery begun adds
  one element and its allowance; its end removes the element, or leaves it
  against a fault; a crash leaves it against a crash.
* `RecordingFollowsFiling` (`RecordedOnceFiled`) has `AppliedSoFar` for invariant:
  while a plan is carried out, every step behind the one under way shows on the
  message if it is still in INBOX, and later steps of the same plan undo none.
  It holds of any `ServerPath`, folders the server does not tell apart included,
  and of users who drop folders and move messages between two commands.
* `DryRunIsHonest` (`DryRunAnnounces`): the plan in hand is that of the filters'
  tags with the classifier's behind them, so the dry run's is a prefix of it.
* `ReplyHeeded` (`ReplyIsHeeded`): the text cut out of a reply, from the first
  brace to the last, is one object, or it does not decode; where the only object
  stands among prose it is what is cut out.
* `RepeatsPaid` (`RepeatsArePaidFor`) counts what may still be done to a message
  in the pass under way (`May`, `MayClassify`), next to what was done: every pass
  begun again has been paid for. Its hypothesis `OneMailboxEach`: folders are
  mailboxes of their own on the server. Without it one pass files a message
  twice in a mailbox that two of its folders name.
* `ImplementsTriageContract`: `Spec => Contract!Spec`, a step of the daemon being
  one step of the contract or a stutter.

**`Poller_proofs`.** `Inv` adds to `TypeOK` and `HistoryLeftAlone` that the saved
watermark is not before the daemon's first run (`SavedIsAnchored`), that a poll
searches from the margin below the watermark it read and collects only what is in
that window (`PollInWindow`), and that what reaches the pipeline went through the
scope filter (`ScopeFiltered`). It yields `TypeCorrect`, `HistoryIsLeftAlone` and
`WatermarkNeverGoesBack` (`WatermarkNeverBack`). `WindowIsSwept`
(`WindowSweptOrFailed`) has `SweptSoFar`: while the index only grows, a message
there all along is collected, or so many messages precede it (`Earlier`) that no
page read so far was to hold it. Hypothesis `DistinctDates`: of
messages of one date Bichon may return one twice and the other never.
`FailedIsTriedAgain` (`FailedIsRetried`) takes it further, over cycles, with
`WatermarksAreBacked`: a watermark is the time the first one was saved, or comes
from mail that Bichon has had, so a search can only begin after a failed message
if mail dated more than the margin later has been seen, or the message was that
old when the account was added. The same hypothesis. `TypeOK` is proved, for every
value of the constants, and left out of the run, whose properties say more about
the same variables.
`SearchReturnsThePage`: no lost answer, error status or error envelope passes for
a page.

**`Accounts_proofs`.** `Inv` adds that the row in use is that of the account
being polled and the watermark to save not below the one it was read from
(`RowInUse`), and that the ledger holds the Message-IDs of what was triaged
(`LedgerIsTriaged`). It yields `TypeCorrect`, `TriagedInOneAccount`
(`TriagedOnce`) and `WatermarksKeptApart` (`AccountsKeptApart`). It assumes what
validation guarantees of a configuration: an account (`SomeAccount`) and no name
twice (`NamesDiffer`).

**`WebhookDelivery_proofs`.** `Inv` counts: one sleep behind every attempt that
was not the last (`SleptBetween`), one request per attempt (`SentEach`), and a
2xx in hand was answered to the attempt under way, not to an earlier one
(`ReplyIsToThisAttempt`). It yields `TypeCorrect`, `SuccessIsAccepted`
(`SuccessIsReal`), `FailureHasUsedBudget` (`FailureUsedBudget`) and
`ImplementsDeliveryContract`. `AnnouncesTheTruth` (`EventIsTrue`) joins it to the
lemmas on the payload.

Of the payload: `CivilDatesAreRight`: `civil_from_days` returns an existing
date, the one with that day number, for every integer. `StampsAreRight`: a
timestamp names its instant to the second, before 1970 too. `SenderIsTheFilters`:
with one `>` at most and no quote in the address, the payload's sender is the
address the filters test.

**`SidecarViews_proofs`.** `SidecarInv`: the tables speak of the same messages,
each with the rows of a triage, and a report under way was asked for less than
the difference of the two windows ago. `Grows`: what is stored stays. A report
is not atomic, so `CountingInv` bounds each number it has read by what a later
statement finds at least: messages processed since a day before the report was
asked for (`SinceDay`), all messages, all decided ones (`Decided`). `RecentInv`
says the newest messages are read once; `ExplainInv` that the reasons of a tag
already read are all stored (`RecordingOrder`: an `applied_tags` row is behind
every filter and decision of its message) and are read whole. They yield
`CountersAreNested` (`CountersNested`), `NoHitIsMadeUp` (`NoPhantomHits`),
`TagsAreExplained` (`TagsExplained`) and `TypeCorrect`, the bound on what a page
lists included. Assumed: a triage stores at most one decision
(`TriagedAssumption`, as `Pipeline::process` calls the classifier once) and the
windows differ (`ViewsAssumption`, which also says that time is a number).

**`Scan_proofs`.** `DriftBounded` (`DriftIsBounded`) needs to say what is still to
come: `Ahead` are the messages of the window behind as many of them as were
read. A message gained in front pushes one that was read back among them, which
is one more to be repeated (`RepeatsBounded`); a message lost in front pulls one
out that was not read, one more overlooked (`MissesBounded`); a page moves its
messages from the one set to the other (`PageCut`). `ContactsMutual`
(`ContactsAreMutual`): what was scanned is the inbox in order (`ScanOK`), `Busiest`
chooses among what was counted (`TopKept`), and what was counted was there
(`ContactWritten`). `TypeCorrect` includes that no two rules have one tag.
`RulesBacked` (`SuggestionsBacked`) and `ReportsAddUp` (`ReportAddsUp`) are about
sums. `SumFunction` folds an operator over a set; `SumsOnce` says there is one way
to add up weights an element at a time, so the sum of the sizes of sets that do
not meet is the size of their union (`SumOfParts`), and counts by a key add up to
what has one of the keys (`GroupsAddUp`). The evidence of a rule is then a set of
scanned messages (`Evidence`), each of which the rule, written as YAML and read
back (`FilterIsRead`), matches. For the report, `HourOfDay` puts every date in an
hour of the day, before 1970 too, `EnoughSampled` does the integer division of the
sample, and `FirstTwoAreMore` maps every place of a phrase to one of its beginning,
across the subjects. `SuggestionsFit` (`SuggestionsMerge`) follows a suggestion
through the file: `FilterIsRead` says it is read as it is printed, `SuggestedSound`
that validation and compilation take it (a list of senders is never empty),
`MergedReads` that the other sections are read as before and the rules behind
those of the file, so `MergedStarts`, that the daemon starts again; `TagsBehind`
that rules behind others change none of their tags. `FilesOK` is the invariant of
the outputs: each is still to be written, or was and is still there, because two
files asked for at once have two names (`OutputsApart`). `PatternAssumption` says
that the suggester's own words hold no `${` and its patterns compile and match what
they are meant to, `NoneAssumption` that a value is not the absent one.
`ValidatedRulesCompile`: a rule of a validated configuration declares exactly the
filter type `compile_filters` gives it, so the branch that skips a rule is dead,
as its comment says.

Model-checked only:

* liveness (`IndexedIsRecorded`, `OwedIsTriaged`, `DeliveryEnds`): fairness and
  `ENABLED` are outside the prover's fragment.

Every safety invariant and action property of a passing run is a theorem.

No property covers four of the hazards listed in `PROJECT.json`, because the code
is exposed to them and no text says otherwise: mail polled after it has left
INBOX, mail that outlasts the margin before the first watermark, two folders that
are one mailbox, and `${` in a suggested value. Their notes, and the next section,
say what happens.

## 5. Where code and documentation disagree

The four violation runs are these (quoted with their lines in `PROJECT.json`).
Other observations made while modelling, with no run of their own:

* A COPY done before a crash, or before a ledger insert that fails, is repeated
  in the next cycle; `docs/ops.md:334-336` has the ledger prevent "any double
  processing".
* A message whose IMAP commands fail after it was classified is classified, and
  billed, again: the decision is stored behind the ledger insert
  (`pipeline/mod.rs:286`), while `docs/yaml.md:281-282` has a message classified
  at most once for a given prompt. `RepeatsArePaidFor` states what does hold.
* The model's category is not checked against `categories`, nor its priority
  against 1 to 5 (`docs/yaml.md:274-279`): any u8 is accepted.
* "The first `{ … }` span" (`llm/classifier.rs:193`) is the span from the first
  `{` to the last `}`: a reply with two objects does not decode.
* A delivery's audit row can fail to be written and the event is out
  (`webhooks/emitter.rs:128`; `docs/webhooks.md:36-37` records every emission).
* `filters_matched`, "identifiers of the filters that fired"
  (`webhooks/payload.rs:46`), always equals the tags (`pipeline/mod.rs:390`).
* `account` is empty when Bichon does not name the account
  (`webhooks/payload.rs:144`); a date from year 10000 on is not RFC 3339.
* A `UID COPY` of a message that has left INBOX does nothing, answers OK, and is
  recorded as done (`actions/mod.rs:165`).
* Two folders that differ in `/` against the server's separator are one mailbox
  (`actions/imap_target.rs:68`): a message that wins both is filed in it twice.
* The first poll of an account reaches back by the safety margin
  (`ingest/poller.rs:85` against `:50-51`); `HistoryLeftAlone` allows for it.
* Until a first cycle ends well no watermark is stored, and each begins at its own
  present (`ingest/poller.rs:52`): mail that waits for one longer than the margin
  is never triaged. `BeforeAnchor` in `FailedIsRetried` allows for it.
* Pages are numbered over a live index: a message leaving it during a search
  can hide the next page's first message until the next poll
  (`ingest/poller.rs:106`), and for good if its date is then below the margin.
  `WindowSweptOrFailed` says so with `~shrunk`, `DriftIsBounded` bounds it.
* `berger status` is called a point-in-time snapshot (`cli/status.rs:26`) and
  counts the total before the last day, which may exceed it.
* `berger scan` reads the first bracketed address of a From, the filters the last
  one: a rule suggested from such mail need not match it
  (`scan/address.rs:27`, `filters/mod.rs:112`). `SuggestionsBacked` allows for
  these messages. A `--min-evidence` of 0 suggests rules that nothing backs. A
  `${` in a suggested value or comment is interpolated when the file is loaded.
  The scan compiles no filter and builds no LLM client (`cli/scan.rs:64-80`), so it
  can run on a file the daemon refuses, and suggest rules for it: `SuggestionsMerge`
  promises a start only where there was one.
* The dry run prints resolved actions, before consolidation
  (`cli/dry_run.rs:145`): it announces copies that a move replaces. Two copies of
  one Message-ID are both announced, and one is processed.
* The Thunderbird rules (`cli/export_thunderbird.rs:149`) match a header that is
  never put into the mail, by `contains`: a tag also matches tags that contain
  it. They turn copies into moves, and apply the first rule in alphabetical
  order, not the first in the order of the tags. `ExportAgrees` states when
  both file alike, were the header there.

## 6. What is not modelled, and what comes next

Not modelled: log set-up (`observability`), the WebUI's configuration page,
templates and styles, the wording and hash of the prompt, the text of SQL
statements and migrations, the layout of the scan's text report and its
confidence scores, JSON and YAML syntax, the bytes of HTTP requests and of the
excerpt in an event, the parsing of the command line. They render or transport
what the models hold, and decide nothing the properties tell apart.

Modelled with a simplification: `Triage` and `Poller` have one account, and
`Accounts` takes the whole of `Pipeline::process` as one step that records or
fails; a Message-ID is a model value, so the empty one is any other; one server
mailbox per folder in the runs of `Triage`.

What could come next, most important first:

1. `Triage` as a refinement of one `Process` step of `Accounts`.
2. `Triage` with several accounts, and `berger scan` run beside the daemon.
