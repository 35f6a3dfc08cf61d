---------------------------- MODULE SidecarViews ----------------------------
(***************************************************************************)
(* The reports read from the sidecar while the daemon writes it: the       *)
(* WebUI's dashboard, /recent and /explain pages, `berger explain` and     *)
(* `berger status`.  Every report is several SELECTs on a connection       *)
(* outside any transaction, and the daemon autocommits row by row, so rows *)
(* appear between two statements of one report.                            *)
(*                                                                         *)
(* The daemon's side is what Triage's recording looks like from here: the  *)
(* ledger row, then the rows of the other tables in pipeline order, for    *)
(* one message at a time, possibly cut short.  Reports do not disturb each *)
(* other: one of them is in progress at a time.                            *)
(***************************************************************************)
EXTENDS Naturals, Sequences, SequencesExt, FiniteSets, TLC

CONSTANTS MessageId,
          Triaged,     \* what a triage may record: [table -> number of rows]
          RecentLimit, \* RECENT_LIMIT
          Day, Week,   \* in ticks of the clock
          MaxClock     \* bound: time stops here

ASSUME ViewsAssumption ==
  /\ Day \in Nat /\ Week \in Nat /\ Day < Week
  /\ RecentLimit \in Nat \ {0}
  /\ MaxClock \in Nat

\* A triage takes one decision at most.
ASSUME TriagedAssumption ==
  Triaged \subseteq [llm_decisions : {0, 1}, filter_matches : Nat, applied_tags : Nat,
                     executed_actions : Nat, webhook_emissions : Nat]

VARIABLES clock,
          opened,       \* who has the sidecar open: "daemon", "webui"
          ledger,       \* processed_messages: Message-IDs, in rowid order
          processed_at, \* [ledger's messages -> time]
          rows,         \* [ledger's messages -> the rows their triage calls
                        \*  for in the other tables, each named by its table]
          written,      \* [ledger's messages -> how many of those are in]
          inHand,       \* whether the last message is being recorded
          report,       \* "none", or the report in progress or just read
          todo,         \* its statements still to run
          shown,        \* the results so far: [statement -> result]
          since         \* history: when the report was asked for

sidecar == <<opened, ledger, processed_at, rows, written>>
request == <<report, todo, shown, since>>
vars    == <<clock, sidecar, inHand, request>>

Processed == ToSet(ledger)

-----------------------------------------------------------------------------
(* The daemon *)

\* Database::open creates the sidecar and applies its migrations.
OpenDatabase ==
  /\ opened = {} /\ opened' = {"daemon"}
  /\ UNCHANGED <<clock, ledger, processed_at, rows, written, inHand, request>>

\* A WebUI that cannot open its connection, or does not yet, is done without.
SpawnWebui ==
  /\ opened = {"daemon"} /\ opened' = {"daemon", "webui"}
  /\ UNCHANGED <<clock, ledger, processed_at, rows, written, inHand, request>>

RowsOf(table, n) == [i \in 1..n |-> table]

\* Mutant: the tags are recorded before the filters that matched.
RecordingTagsFirst(t) ==
     RowsOf("llm_decisions", t.llm_decisions)
  \o RowsOf("applied_tags", t.applied_tags)
  \o RowsOf("filter_matches", t.filter_matches)
  \o RowsOf("executed_actions", t.executed_actions)
  \o RowsOf("webhook_emissions", t.webhook_emissions)

\* The rows of one triage, in the order Pipeline::process inserts them.
Recording(t) ==
     RowsOf("llm_decisions", t.llm_decisions)
  \o RowsOf("filter_matches", t.filter_matches)
  \o RowsOf("applied_tags", t.applied_tags)
  \o RowsOf("executed_actions", t.executed_actions)
  \o RowsOf("webhook_emissions", t.webhook_emissions)

\* f with y inserted at x; an x that is there already is not replaced.
Put(f, x, y) ==
  [z \in DOMAIN f \cup {x} |-> IF z \in DOMAIN f THEN f[z] ELSE y]

RecordMessage(m, t) ==
  /\ opened # {} /\ ~inHand /\ inHand' = TRUE
  /\ m \notin Processed
  /\ ledger' = Append(ledger, m)
  /\ processed_at' = Put(processed_at, m, clock)
  /\ rows' = Put(rows, m, Recording(t))
  /\ written' = Put(written, m, 0)
  /\ UNCHANGED <<clock, opened, request>>

\* The next row of the message in hand, when it belongs to this table.
InsertRow(table) ==
  LET m == Last(ledger) IN
  /\ inHand
  /\ written[m] < Len(rows[m]) /\ rows[m][written[m] + 1] = table
  /\ written' = [written EXCEPT ![m] = @ + 1]
  /\ UNCHANGED <<clock, opened, ledger, processed_at, rows, inHand, request>>

RecordDecision == InsertRow("llm_decisions")
RecordMatch    == InsertRow("filter_matches")
RecordTag      == InsertRow("applied_tags")
RecordAction   == InsertRow("executed_actions")
RecordEmission == InsertRow("webhook_emissions")

\* Done, or given up on: the rows not written by now never will be.
LetGo ==
  /\ inHand /\ inHand' = FALSE
  /\ UNCHANGED <<clock, sidecar, request>>

\* A report takes less than the difference between its two windows.
Tick ==
  /\ clock < MaxClock
  /\ todo # <<>> => clock + 1 < since + (Week - Day)
  /\ clock' = clock + 1
  /\ UNCHANGED <<sidecar, inHand, request>>

-----------------------------------------------------------------------------
(* Statements: <<table, message>> lists one message's rows in a table, the  *)
(* others are aggregates.                                                  *)

RowCount(m, table) == Cardinality({i \in 1..written[m] : rows[m][i] = table})

MessageTables == {"llm_decisions", "filter_matches", "applied_tags",
                  "executed_actions", "webhook_emissions"}

AllRows(table) ==
  UNION {{<<m, i>> : i \in 1..RowCount(m, table)} : m \in Processed}

\* Mutant: every message ever triaged, newest first.
NewestAll == Reverse(ledger)

\* The newest messages, newest first: no two messages are recorded in the
\* order opposite to their processed_at.
Newest == SubSeq(Reverse(ledger), 1,
                 Cardinality(1..Len(ledger) \intersect 1..RecentLimit))

Result(q) ==
  CASE q[1] = "recent"    -> Newest
    [] q[1] = "header"    -> q[2] \in Processed
    [] q[1] = "count"     -> Cardinality(Processed)
    [] q[1] = "window"    -> Cardinality({m \in Processed :
                                            processed_at[m] + q[2] >= clock})
    [] q[1] = "sum"       -> Cardinality(AllRows(q[2]))
    [] q[1] = "distinct"  -> Cardinality({x[1] : x \in AllRows(q[2])})
    [] q[1] \in MessageTables -> IF q[2] \in Processed
                                 THEN RowCount(q[2], q[1]) ELSE 0

-----------------------------------------------------------------------------
(* The reports *)

\* A page locks the WebUI's connection, a command opens its own, read-only.
Ask(name, statements) ==
  /\ todo = <<>>
  /\ report' = name /\ todo' = statements /\ shown' = <<>> /\ since' = clock
  /\ UNCHANGED <<clock, sidecar, inHand>>

Page(name, statements) == "webui" \in opened /\ Ask(name, statements)

\* The commands refuse to run while there is no sidecar.
OpenReadonly == opened # {}

\* Mutant: the distinct prompts are counted before the decisions.
DashboardDistinctFirst ==
  Page("dashboard", << <<"window", Day>>, <<"window", Week>>, <<"count">>,
                       <<"distinct", "llm_decisions">>, <<"sum", "llm_decisions">>,
                       <<"sum", "webhook_emissions">> >>)

\* Mutant: the total is counted first.
DashboardTotalFirst ==
  Page("dashboard", << <<"count">>, <<"window", Day>>, <<"window", Week>>,
                       <<"sum", "llm_decisions">>, <<"distinct", "llm_decisions">>,
                       <<"sum", "webhook_emissions">> >>)

Dashboard ==
  Page("dashboard", << <<"window", Day>>, <<"window", Week>>, <<"count">>,
                       <<"sum", "llm_decisions">>, <<"distinct", "llm_decisions">>,
                       <<"sum", "webhook_emissions">> >>)

\* `berger status`
Status ==
  OpenReadonly /\ Ask("status", << <<"count">>, <<"sum", "applied_tags">>,
                   <<"sum", "filter_matches">>, <<"sum", "llm_decisions">>,
                   <<"sum", "executed_actions">>, <<"sum", "webhook_emissions">>,
                   <<"window", Day>>, <<"window", Week>> >>)

Recent == Page("recent", << <<"recent">> >>)

\* /explain/<id> and `berger explain <id>` run the same statements.
Explain(m) == OpenReadonly /\ Ask("explain", << <<"header", m>> >>)

\* What a first result makes a report go on to ask.
Details(q, result) ==
  CASE q[1] = "recent" ->
         FlattenSeq([i \in DOMAIN result |->
                       << <<"applied_tags", result[i]>>,
                          <<"executed_actions", result[i]>> >>])
    [] q[1] = "header" /\ result ->
         << <<"applied_tags", q[2]>>, <<"filter_matches", q[2]>>,
            <<"llm_decisions", q[2]>>, <<"executed_actions", q[2]>>,
            <<"webhook_emissions", q[2]>> >>
    [] OTHER -> <<>>

Read ==
  /\ todo # <<>>
  /\ LET q == Head(todo) IN
       /\ shown' = Put(shown, q, Result(q))
       /\ todo' = Details(q, Result(q)) \o Tail(todo)
  /\ UNCHANGED <<clock, sidecar, inHand, report, since>>

-----------------------------------------------------------------------------
(* What a report shows when it is complete *)

DashboardStats ==
  LET lookups  == shown[<<"sum", "llm_decisions">>]
      distinct == shown[<<"distinct", "llm_decisions">>]
  IN [processed_24h     |-> shown[<<"window", Day>>],
      processed_7d      |-> shown[<<"window", Week>>],
      processed_total   |-> shown[<<"count">>],
      llm_cache_lookups |-> lookups,
      \* decisions that are not the first of their message and prompt (a
      \* message's decisions all have one prompt here)
      llm_cache_hits    |-> IF lookups > distinct THEN lookups - distinct ELSE 0,
      webhooks          |-> shown[<<"sum", "webhook_emissions">>]]

\* As a percentage.
CacheHitRate ==
  LET stats == DashboardStats IN
  IF stats.llm_cache_lookups = 0 THEN 0
  ELSE (stats.llm_cache_hits * 100) \div stats.llm_cache_lookups

StatusSummary ==
  [processed_messages |-> shown[<<"count">>],
   processed_last_24h |-> shown[<<"window", Day>>],
   processed_last_7d  |-> shown[<<"window", Week>>],
   rows |-> [table \in MessageTables |-> shown[<<"sum", table>>]]]

RecentMessages ==
  LET messages == shown[<<"recent">>] IN
  [i \in DOMAIN messages |->
     [message_id |-> messages[i],
      tags       |-> shown[<<"applied_tags", messages[i]>>],
      actions    |-> shown[<<"executed_actions", messages[i]>>]]]

\* Empty when the message is not in the ledger.
MessageExplanation(m) ==
  [table \in {t \in MessageTables : <<t, m>> \in DOMAIN shown} |-> shown[<<table, m>>]]

-----------------------------------------------------------------------------
Init ==
  /\ clock = 0
  /\ opened = {} /\ ledger = <<>> /\ processed_at = <<>> /\ rows = <<>> /\ written = <<>>
  /\ inHand = FALSE
  /\ report = "none" /\ todo = <<>> /\ shown = <<>> /\ since = 0

Daemon ==
  \/ OpenDatabase \/ SpawnWebui
  \/ \E m \in MessageId, t \in Triaged : RecordMessage(m, t)
  \/ RecordDecision \/ RecordMatch \/ RecordTag \/ RecordAction \/ RecordEmission
  \/ LetGo

Reports ==
  \/ Dashboard \/ Status \/ Recent \/ Read
  \/ \E m \in MessageId : Explain(m)

Next == Daemon \/ Reports \/ Tick

Spec == Init /\ [][Next]_vars

-----------------------------------------------------------------------------
(* Properties *)

Complete(name) == report = name /\ todo = <<>>

TypeOK ==
  /\ opened \subseteq {"daemon", "webui"}
  /\ clock \in 0..MaxClock /\ since \in 0..clock
  /\ ledger \in Seq(MessageId) /\ IsInjective(ledger)
  /\ opened = {} => ledger = <<>> /\ report = "none"
  /\ DOMAIN processed_at = Processed
  /\ \A m \in Processed : processed_at[m] \in 0..clock
  /\ DOMAIN rows = Processed /\ DOMAIN written = Processed
  /\ \A m \in Processed : written[m] \in 0..Len(rows[m])
  /\ inHand \in BOOLEAN
  /\ report \in {"none", "dashboard", "status", "recent", "explain"}
  /\ report = "none" => todo = <<>> /\ shown = <<>>
  /\ Complete("recent") =>
       /\ Len(RecentMessages) <= RecentLimit
       /\ Cardinality({q \in DOMAIN shown : q[1] \in MessageTables}) <= 2 * RecentLimit

\* The counters of the dashboard agree with each other although messages are
\* recorded while it counts: the last day is part of the last week, the last
\* week of the total, and the newest messages are listed once each.
\* `berger status` counts the total first and promises only the former.
CountersNested ==
  /\ Complete("dashboard") =>
       /\ DashboardStats.processed_24h <= DashboardStats.processed_7d
       /\ DashboardStats.processed_7d <= DashboardStats.processed_total
  /\ Complete("status") =>
       StatusSummary.processed_last_24h <= StatusSummary.processed_last_7d
  /\ Complete("recent") =>
       \A i, j \in DOMAIN RecentMessages :
         RecentMessages[i].message_id = RecentMessages[j].message_id => i = j

\* The dashboard counts as a cache hit a decision that repeats a message's,
\* and the ledger lets no message be decided twice: a decision stored while
\* it counts is never shown as a hit.
NoPhantomHits ==
  Complete("dashboard") => CacheHitRate = 0

\* A page about a message that shows one of its tags shows why: every filter
\* that matched and the model's decision, even when the message is being
\* recorded while the page is read ("the native filters and the LLM that
\* produced those tags", webui/queries.rs).
TagsExplained ==
  Complete("explain") =>
    \A m \in Processed :
      LET page == MessageExplanation(m) IN
      "applied_tags" \in DOMAIN page /\ page["applied_tags"] > 0 =>
        \A table \in {"filter_matches", "llm_decisions"} :
          page[table] = Cardinality({i \in DOMAIN rows[m] : rows[m][i] = table})
=============================================================================
