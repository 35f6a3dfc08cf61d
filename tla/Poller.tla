------------------------------- MODULE Poller -------------------------------
(***************************************************************************)
(* Incremental polling of one account: the watermark over the messages'    *)
(* Date: field, the safety margin below it, and the paging of a search     *)
(* over an index that Bichon keeps changing and may answer with an error,  *)
(* inside the daemon's cycle (fetch, connect, process each message, save   *)
(* the watermark).                                                         *)
(*                                                                         *)
(* What processing a message involves is module Triage's; here it succeeds *)
(* or fails.  Dates and the clock share one unit.                          *)
(***************************************************************************)
EXTENDS Integers, FiniteSets, Folders, BichonClient

CONSTANTS None,
          Message,
          DateOf,    \* the Date: header, set by the sender
          Mailbox,   \* Mailbox[m]: the IMAP folder Bichon found m in, split
                     \*  at its separators
          PageSize,  \* PAGE_SIZE
          Margin,    \* SAFETY_MARGIN_MS
          FutureMail,\* whether mail dated after its arrival exists
          MaxClock,  \* bound: time stops here
          MaxLosses, \* bound: messages leaving the index
          MaxFaults, \* bound: failed searches, connections and messages
          MaxCrashes \* bound: crashes of the daemon

ASSUME PollerAssumption ==
  /\ None \notin Int
  /\ None \notin Message
  /\ DateOf \in [Message -> Int]
  /\ PageSize \in Nat \ {0}
  /\ Margin \in Nat

VARIABLES clock,
          index,     \* the messages a search can return
          saved,     \* accounts.last_cursor: the persisted watermark
          processed, \* the ledger
          pc,        \* "sleep", "fetch", "connect" or "process"
          watermark, since, page, latest, envelopes,
          arrived,   \* history: when each message was indexed
          stable,    \* history: in the index throughout this search
          shrunk,    \* history: the index lost a message during this search
          failed,    \* history: messages the pipeline failed on this cycle
          failedOnce,\* history: messages it has failed on, ever
          anchor,    \* history: when a watermark was first saved
          faults, crashes

cycle   == <<watermark, since, page, latest, envelopes>>
history == <<arrived, stable, shrunk, failed, failedOnce, anchor>>
vars    == <<clock, index, saved, processed, pc, cycle, history, faults, crashes>>

-----------------------------------------------------------------------------
\* A message with no mailbox name has the empty name.
InScope(m) ==
  LET segments == IF Mailbox[m] = None THEN <<>> ELSE Mailbox[m]
  IN  ~IsBergerFolder(segments) /\ IsInbox(segments)

-----------------------------------------------------------------------------
(* Bichon *)

\* search-messages: everything dated `since` or later, by ascending Date:.
Matches == {m \in index : DateOf[m] >= since}

\* The k first of them; of equal dates any, and not the same ones every time.
FirstMatches(k) ==
  {s \in SUBSET Matches :
     /\ Cardinality(s) <= k /\ (Cardinality(s) = k \/ s = Matches)
     /\ \A m \in s, n \in Matches \ s : DateOf[m] <= DateOf[n]}

\* What the page asked for may hold.
Pages ==
  {p \in SUBSET Matches :
     \E before \in FirstMatches((page - 1) * PageSize),
        upTo \in FirstMatches(page * PageSize) :
       before \subseteq upTo /\ p = upTo \ before}

\* What the client makes of the answers, and the items it reads off one.
Results   == UNION {SearchMessages(p) : p \in Pages}
PagesRead == {r.value.items : r \in {s \in Results : Succeeded(s)}}

IndexGains(m) ==
  /\ arrived[m] = None
  /\ FutureMail \/ DateOf[m] <= clock
  /\ index' = index \cup {m}
  /\ arrived' = [arrived EXCEPT ![m] = clock]
  /\ UNCHANGED <<clock, saved, processed, pc, cycle, stable, shrunk, failed,
                 failedOnce, anchor, faults, crashes>>

\* A message is gone from the server: moved, deleted or expunged.
IndexLoses(m) ==
  /\ m \in index
  /\ Cardinality({n \in Message : arrived[n] # None} \ index) < MaxLosses
  /\ index' = index \ {m}
  /\ IF pc = "fetch"
     THEN stable' = stable \ {m} /\ shrunk' = TRUE
     ELSE UNCHANGED <<stable, shrunk>>
  /\ UNCHANGED <<clock, saved, processed, pc, cycle, arrived, failed, failedOnce,
                 anchor, faults, crashes>>

Tick ==
  /\ clock < MaxClock
  /\ clock' = clock + 1
  /\ UNCHANGED <<index, saved, processed, pc, cycle, history, faults, crashes>>

-----------------------------------------------------------------------------
(* The daemon *)

Idle ==
  /\ pc' = "sleep" /\ watermark' = 0 /\ since' = 0
  /\ page' = 1 /\ latest' = 0 /\ envelopes' = {}

\* Mutant: an account never polled starts at the beginning of time.
StartPollFromEpoch ==
  /\ pc = "sleep"
  /\ pc' = "fetch"
  /\ watermark' = IF saved = None THEN -100 ELSE saved
  /\ since' = watermark' - Margin
  /\ page' = 1 /\ latest' = watermark' /\ envelopes' = {}
  /\ stable' = index /\ shrunk' = FALSE /\ failed' = {}
  /\ UNCHANGED <<clock, index, saved, processed, arrived, failedOnce, anchor,
                 faults, crashes>>

\* Mutant: the search begins at the watermark itself.
StartPollWithoutMargin ==
  /\ pc = "sleep"
  /\ pc' = "fetch"
  /\ watermark' = IF saved = None THEN clock ELSE saved
  /\ since' = watermark'
  /\ page' = 1 /\ latest' = watermark' /\ envelopes' = {}
  /\ stable' = index /\ shrunk' = FALSE /\ failed' = {}
  /\ UNCHANGED <<clock, index, saved, processed, arrived, failedOnce, anchor,
                 faults, crashes>>

\* get_watermark, or an account never polled, anchored at the present.
StartPoll ==
  /\ pc = "sleep"
  /\ pc' = "fetch"
  /\ watermark' = IF saved = None THEN clock ELSE saved
  /\ since' = watermark' - Margin
  /\ page' = 1 /\ latest' = watermark' /\ envelopes' = {}
  /\ stable' = index /\ shrunk' = FALSE /\ failed' = {}
  /\ UNCHANGED <<clock, index, saved, processed, arrived, failedOnce, anchor,
                 faults, crashes>>

\* Mutant: the largest date of this page alone.
RaiseToPage(items) ==
  \E d \in IF items = {} THEN {latest} ELSE {DateOf[m] : m \in items} :
    /\ \A m \in items : d >= DateOf[m]
    /\ latest' = d

\* The largest date seen so far, the watermark included.
Raise(items) ==
  \E d \in {latest} \cup {DateOf[m] : m \in items} :
    /\ d >= latest /\ \A m \in items : d >= DateOf[m]
    /\ latest' = d

\* One page; a short one is the last, and what it leaves out of scope of the
\* pipeline has still raised the watermark.
FetchPage ==
  /\ pc = "fetch"
  /\ \E items \in PagesRead :
       /\ Raise(items)
       /\ IF Cardinality(items) < PageSize
          THEN /\ pc' = "connect"
               /\ envelopes' = {m \in envelopes \cup items : InScope(m)}
               /\ UNCHANGED page
          ELSE /\ page' = page + 1
               /\ envelopes' = envelopes \cup items
               /\ UNCHANGED pc
  /\ UNCHANGED <<clock, index, saved, processed, watermark, since, history,
                 faults, crashes>>

Connect ==
  /\ pc = "connect" /\ pc' = "process"
  /\ UNCHANGED <<clock, index, saved, processed, cycle, history, faults, crashes>>

\* An error of Bichon's, whatever its form, or a failed connection ends the
\* cycle; nothing is saved.
CycleFails ==
  /\ \/ pc = "fetch" /\ \E result \in Results : ~Succeeded(result)
     \/ pc = "connect"
  /\ faults < MaxFaults /\ faults' = faults + 1
  /\ Idle
  /\ UNCHANGED <<clock, index, saved, processed, history, crashes>>

\* The pipeline records the message, or finds it in the ledger already.
Process(m) ==
  /\ pc = "process" /\ m \in envelopes
  /\ envelopes' = envelopes \ {m}
  /\ processed' = processed \cup {m}
  /\ UNCHANGED <<clock, index, saved, pc, watermark, since, page, latest,
                 history, faults, crashes>>

\* A message the pipeline fails on is logged and left.
ProcessFails(m) ==
  /\ pc = "process" /\ m \in envelopes \ processed
  /\ faults < MaxFaults /\ faults' = faults + 1
  /\ envelopes' = envelopes \ {m}
  /\ failed' = failed \cup {m}
  /\ failedOnce' = failedOnce \cup {m}
  /\ UNCHANGED <<clock, index, saved, processed, pc, watermark, since, page,
                 latest, arrived, stable, shrunk, anchor, crashes>>

SaveWatermark ==
  /\ pc = "process" /\ envelopes = {}
  /\ saved' = latest
  /\ anchor' = IF anchor = None THEN clock ELSE anchor
  /\ Idle
  /\ UNCHANGED <<clock, index, processed, arrived, stable, shrunk, failed,
                 failedOnce, faults, crashes>>

Crash ==
  /\ pc # "sleep"
  /\ crashes < MaxCrashes /\ crashes' = crashes + 1
  /\ Idle
  /\ UNCHANGED <<clock, index, saved, processed, history, faults>>

-----------------------------------------------------------------------------
Init ==
  /\ clock = 0 /\ index = {} /\ saved = None /\ processed = {}
  /\ pc = "sleep" /\ watermark = 0 /\ since = 0
  /\ page = 1 /\ latest = 0 /\ envelopes = {}
  /\ arrived = [m \in Message |-> None]
  /\ stable = {} /\ shrunk = FALSE /\ failed = {} /\ failedOnce = {} /\ anchor = None
  /\ faults = 0 /\ crashes = 0

Daemon ==
  \/ StartPoll \/ FetchPage \/ Connect \/ CycleFails \/ SaveWatermark
  \/ \E m \in Message : Process(m) \/ ProcessFails(m)

Bichon == \E m \in Message : IndexGains(m) \/ IndexLoses(m)

Next == Daemon \/ Bichon \/ Tick \/ Crash

Spec == Init /\ [][Next]_vars

FairSpec == Spec /\ WF_vars(Daemon)

-----------------------------------------------------------------------------
(* Properties *)

TypeOK ==
  /\ clock \in Nat
  /\ index \subseteq Message /\ processed \subseteq Message
  /\ envelopes \subseteq Message /\ stable \subseteq Message
  /\ failed \subseteq Message /\ failedOnce \subseteq Message
  /\ saved \in Int \cup {None}
  /\ pc \in {"sleep", "fetch", "connect", "process"}
  /\ watermark \in Int /\ since \in Int /\ latest \in Int
  /\ page \in Nat \ {0}
  /\ arrived \in [Message -> Nat \cup {None}]
  /\ anchor \in Nat \cup {None}
  /\ shrunk \in BOOLEAN
  /\ faults \in Nat /\ crashes \in Nat

\* The persisted watermark never goes back (a crash or a failed cycle leaves
\* it alone).
WatermarkNeverBack ==
  [][saved # None => saved' # None /\ saved' >= saved]_vars

\* The pages of a search miss nothing that was there all along, though the
\* index grows under it, as long as nothing leaves: by the time the cycle
\* can save its watermark, every INBOX message dated within the margin when
\* it began is in the ledger, still to be processed, or was failed on.
WindowSweptOrFailed ==
  pc = "process" /\ ~shrunk =>
    \A m \in stable :
      DateOf[m] >= since /\ InScope(m) => m \in envelopes \cup processed \cup failed

\* Mail dated more than the margin behind other mail Bichon has had.
Overtaken(m) ==
  \E n \in Message : arrived[n] # None /\ DateOf[n] > DateOf[m] + Margin

\* Mail dated more than the margin before the first watermark was saved, or
\* before now while none is.
BeforeAnchor(m) ==
  DateOf[m] < (IF anchor = None THEN clock ELSE anchor) - Margin

\* A message the pipeline failed on is not given up for an error, a crash or
\* a watermark saved past it: every later cycle that finds it in the index,
\* and nothing taken out under its search, gives it to the pipeline again,
\* until mail dated more than the margin after it has been seen, or the first
\* watermark was saved that long after its date.
FailedIsRetried ==
  pc = "process" /\ ~shrunk =>
    \A m \in failedOnce \cap stable :
      \/ m \in envelopes \cup processed \cup failed
      \/ Overtaken(m) \/ BeforeAnchor(m)

\* An account configured at time 0 has none of its history triaged, whatever
\* failed and crashed before a first watermark was saved, but for the margin
\* below it (ops.md: "Berger does not back-fill history"); and nothing in
\* Berger's own folders, though that mail raises the watermark too.
HistoryLeftAlone ==
  \A m \in processed : DateOf[m] >= -Margin /\ InScope(m)

\* "a message that arrives slightly out of Date: order is still swept up":
\* mail that reaches the index at most the margin after its date, once the
\* account has a watermark, is processed.
OutOfOrderIsSwept ==
  \A m \in Message :
    /\ InScope(m) /\ m \in index /\ anchor # None
    /\ arrived[m] >= anchor /\ DateOf[m] >= arrived[m] - Margin
    ~> m \in processed \/ m \notin index
=============================================================================
