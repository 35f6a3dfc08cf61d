---------------------------- MODULE Poller_proofs ----------------------------
(***************************************************************************)
(* Proofs about Poller, for any messages, dates, page size, margin and     *)
(* bounds: the watermark never goes back, history is left alone, a window  *)
(* whose dates differ is swept or the cycle fails, and what the pipeline   *)
(* failed on is tried again as long as the margin reaches it.              *)
(***************************************************************************)
EXTENDS Poller, FiniteSetTheorems, TLAPS

-----------------------------------------------------------------------------
(* The client *)

\* A search that succeeds returns the page asked for: no error page, error
\* envelope or lost answer passes for an empty one.
THEOREM SearchReturnsThePage ==
  ASSUME NEW items, NEW result \in SearchMessages(items), Succeeded(result)
  PROVE  result.value.items = items
<1>1. PICK answer \in SearchAnswers(items) : result = ReadJson(answer, "page")
  BY DEF SearchMessages
<1>2. /\ answer # Lost /\ answer.body.kind = "page"
      /\ result = [value |-> answer.body]
  BY <1>1 DEF ReadJson, Succeeded, MapErrorBody
<1>3. answer.body = [kind |-> "page", items |-> items]
  BY <1>2 DEF SearchAnswers
<1> QED
  BY <1>2, <1>3

-----------------------------------------------------------------------------
(* The inductive invariant *)

\* Watermarks are anchored at a time the daemon ran, or above.
SavedIsAnchored == saved # None => saved >= 0

\* During a poll: it began from the saved watermark or from the present, and
\* searches from the margin below; what it has found is in that window.
PollInWindow ==
  /\ pc # "sleep" =>
       /\ watermark >= 0 /\ (saved # None => watermark = saved)
       /\ since = watermark - Margin
       /\ latest >= watermark
  /\ pc = "sleep" => envelopes = {}
  /\ \A m \in envelopes : DateOf[m] >= since

\* What the pipeline is given has been through the scope filter.
ScopeFiltered ==
  pc \in {"connect", "process"} => \A m \in envelopes : InScope(m)

Inv == TypeOK /\ SavedIsAnchored /\ PollInWindow /\ ScopeFiltered /\ HistoryLeftAlone

-----------------------------------------------------------------------------
\* What is read is the page asked for.
LEMMA PageIsRead ==
  ASSUME NEW items \in PagesRead
  PROVE  items \in Pages
<1>1. PICK r \in Results : Succeeded(r) /\ items = r.value.items
  BY DEF PagesRead
<1>2. PICK p \in Pages : r \in SearchMessages(p)
  BY <1>1 DEF Results
<1>3. items = p
  BY <1>1, <1>2, SearchReturnsThePage
<1> QED BY <1>2, <1>3

\* A page that is read holds messages of the window.
LEMMA PageInWindow ==
  ASSUME NEW items \in PagesRead
  PROVE  items \subseteq index /\ \A m \in items : DateOf[m] >= since
<1>1. items \in Pages
  BY PageIsRead
<1> QED BY <1>1 DEF Pages, Matches

\* Reading a page never lowers the watermark to be saved.
LEMMA RaiseEffect ==
  ASSUME TypeOK, NEW items \in SUBSET Message, Raise(items)
  PROVE  latest' \in Int /\ latest' >= latest
BY PollerAssumption DEF Raise, TypeOK

\* Back to sleep the daemon holds nothing of the poll.
LEMMA IdleEffect ==
  ASSUME TypeOK, Idle
  PROVE  /\ pc' = "sleep" /\ envelopes' = {} /\ page' = 1
         /\ watermark' = 0 /\ since' = 0 /\ latest' = 0
BY DEF Idle

\* The daemon starts in the invariant.
LEMMA InitInv == Init => Inv
<1> SUFFICES ASSUME Init PROVE Inv
  OBVIOUS
<1>1. TypeOK
  <2>1. shrunk \in BOOLEAN
    BY Zenon DEF Init
  <2> QED BY <2>1 DEF Init, TypeOK
<1>2. SavedIsAnchored /\ PollInWindow /\ ScopeFiltered /\ HistoryLeftAlone
  BY DEF Init, SavedIsAnchored, PollInWindow, ScopeFiltered, HistoryLeftAlone
<1> QED BY <1>1, <1>2 DEF Inv

\* Reading a page keeps the invariant.
LEMMA FetchPageStep ==
  ASSUME Inv, FetchPage
  PROVE  Inv'
<1> USE DEF Inv
<1>1. PICK items \in PagesRead :
        /\ Raise(items)
        /\ IF Cardinality(items) < PageSize
           THEN /\ pc' = "connect"
                /\ envelopes' = {m \in envelopes \cup items : InScope(m)}
                /\ UNCHANGED page
           ELSE /\ page' = page + 1
                /\ envelopes' = envelopes \cup items
                /\ UNCHANGED pc
  BY DEF FetchPage
<1>2. items \subseteq Message /\ \A m \in items : DateOf[m] >= since
  BY <1>1, PageInWindow DEF TypeOK
<1>3. latest' \in Int /\ latest' >= latest
  BY <1>1, <1>2, RaiseEffect
<1>4. /\ pc = "fetch"
      /\ UNCHANGED <<clock, index, saved, processed, watermark, since, history,
                     faults, crashes>>
  BY DEF FetchPage
<1>5. CASE Cardinality(items) < PageSize
  <2>1. /\ pc' = "connect" /\ UNCHANGED page
        /\ envelopes' = {m \in envelopes \cup items : InScope(m)}
    BY <1>1, <1>5
  <2> QED
    BY <1>2, <1>3, <1>4, <2>1, PollerAssumption
       DEF TypeOK, SavedIsAnchored, PollInWindow, ScopeFiltered,
           HistoryLeftAlone, InScope, history
<1>6. CASE ~(Cardinality(items) < PageSize)
  <2>1. /\ page' = page + 1 /\ UNCHANGED pc
        /\ envelopes' = envelopes \cup items
    BY <1>1, <1>6
  <2> QED
    BY <1>2, <1>3, <1>4, <2>1, PollerAssumption
       DEF TypeOK, SavedIsAnchored, PollInWindow, ScopeFiltered,
           HistoryLeftAlone, history
<1> QED BY <1>5, <1>6

\* Every step keeps the invariant.
LEMMA InvStep ==
  ASSUME Inv, [Next]_vars
  PROVE  Inv'
<1> USE PollerAssumption
    DEF Inv, TypeOK, SavedIsAnchored, PollInWindow, ScopeFiltered,
        HistoryLeftAlone, cycle, history
<1>1. ASSUME NEW m \in Message, IndexGains(m) PROVE Inv'
  BY <1>1 DEF IndexGains, InScope
<1>2. ASSUME NEW m \in Message, IndexLoses(m) PROVE Inv'
  BY <1>2 DEF IndexLoses, InScope
<1>3. CASE Tick
  BY <1>3 DEF Tick, InScope
<1>4. CASE StartPoll
  <2>1. shrunk' \in BOOLEAN
    BY <1>4, Zenon DEF StartPoll
  <2>2. TypeOK'
    BY <1>4, <2>1 DEF StartPoll
  <2> QED BY <1>4, <2>2 DEF StartPoll
<1>5. CASE FetchPage
  BY <1>5, FetchPageStep
<1>6. CASE Connect
  BY <1>6 DEF Connect
<1>7. CASE CycleFails
  BY <1>7, IdleEffect DEF CycleFails
<1>8. ASSUME NEW m \in Message, Process(m) PROVE Inv'
  <2>1. DateOf[m] >= -Margin /\ InScope(m)
    BY <1>8 DEF Process
  <2> QED BY <1>8, <2>1 DEF Process
<1>9. ASSUME NEW m \in Message, ProcessFails(m) PROVE Inv'
  BY <1>9 DEF ProcessFails
<1>10. CASE SaveWatermark
  BY <1>10, IdleEffect DEF SaveWatermark
<1>11. CASE Crash
  BY <1>11, IdleEffect DEF Crash
<1>12. CASE UNCHANGED vars
  BY <1>12 DEF vars, InScope
<1> QED
  BY <1>1, <1>2, <1>3, <1>4, <1>5, <1>6, <1>7, <1>8, <1>9, <1>10, <1>11,
     <1>12 DEF Next, Daemon, Bichon

\* The invariant holds in every reachable state.
THEOREM InvInductive == Spec => []Inv
<1>1. Inv /\ [Next]_vars => Inv'
  BY InvStep
<1> QED BY <1>1, InitInv, PTL DEF Spec

\* The poller's state keeps its types (ingest/poller.rs).
THEOREM TypeCorrect == Spec => []TypeOK
<1>1. Inv => TypeOK
  BY DEF Inv
<1> QED BY <1>1, InvInductive, PTL

\* No message older than the time the account was added, less the margin, and
\* none outside INBOX, is ever given to the pipeline, whatever the dates of
\* other mail, errors and crashes (ingest/poller.rs, poll_account).
THEOREM HistoryIsLeftAlone == Spec => []HistoryLeftAlone
<1>1. Inv => HistoryLeftAlone
  BY DEF Inv
<1> QED BY <1>1, InvInductive, PTL

\* The persisted watermark never goes back, on whatever mail and however a
\* cycle ends (cli/run.rs, storage/accounts.rs).
THEOREM WatermarkNeverGoesBack == Spec => WatermarkNeverBack
<1> DEFINE Step == saved # None => saved' # None /\ saved' >= saved
<1>1. ASSUME Inv, [Next]_vars PROVE [Step]_vars
  <2>1. CASE UNCHANGED saved
    BY <1>1, <2>1 DEF Inv, TypeOK
  <2>2. CASE SaveWatermark
    BY <1>1, <2>2, PollerAssumption
       DEF SaveWatermark, Inv, TypeOK, PollInWindow
  <2> QED
    BY <1>1, <2>1, <2>2
       DEF Next, Daemon, Bichon, vars, IndexGains, IndexLoses, Tick, StartPoll,
           FetchPage, Connect, CycleFails, Process, ProcessFails, Crash
<1> QED
  BY <1>1, InvInductive, PTL DEF Spec, WatermarkNeverBack

-----------------------------------------------------------------------------
(* The window is swept *)

\* No two messages bear one date.
DistinctDates == \A m, n \in Message : DateOf[m] = DateOf[n] => m = n

\* What the pages before that of m hold, at least.
Earlier(m) == {n \in Matches : DateOf[n] < DateOf[m]}

\* A message there all along has been read, or enough matches come before it
\* that no page read so far was to hold it; once the last page is read, all have
\* been.
SweptSoFar ==
  /\ IsFiniteSet(index)
  /\ pc = "fetch" => stable \subseteq index
  /\ pc = "fetch" /\ ~shrunk =>
       \A m \in stable : DateOf[m] >= since =>
         m \in envelopes \/ Cardinality(Earlier(m)) >= (page - 1) * PageSize
  /\ pc \in {"connect", "process"} /\ ~shrunk =>
       \A m \in stable :
         DateOf[m] >= since /\ InScope(m) => m \in envelopes \cup processed \cup failed

\* The pages before this one, and with it.
LEMMA PageCounts ==
  ASSUME TypeOK
  PROVE  /\ (page - 1) * PageSize \in Nat
         /\ page * PageSize = (page - 1) * PageSize + PageSize
<1>1. PICK q \in Nat : page = q + 1
  <2>1. page - 1 \in Nat /\ page = (page - 1) + 1
    BY DEF TypeOK
  <2> QED BY <2>1
<1>2. PageSize \in Nat
  BY PollerAssumption
<1>3. (q + 1) * PageSize = q * PageSize + PageSize /\ q * PageSize \in Nat /\ (q + 1) - 1 = q
  BY <1>2
<1> QED BY <1>1, <1>3

\* A message of the window, not on a page before this one, is on it; or the page
\* is full, and with it there are enough matches before the message.
LEMMA PageHoldsOrPrecedes ==
  ASSUME TypeOK, DistinctDates, IsFiniteSet(index), NEW items \in Pages,
         NEW m \in Matches, Cardinality(Earlier(m)) >= (page - 1) * PageSize
  PROVE  \/ m \in items
         \/ /\ ~(Cardinality(items) < PageSize)
            /\ Cardinality(Earlier(m)) >= page * PageSize
<1>1. PICK before \in FirstMatches((page - 1) * PageSize),
           upTo \in FirstMatches(page * PageSize) :
             before \subseteq upTo /\ items = upTo \ before
  BY DEF Pages
<1>2. Matches \subseteq index /\ Matches \subseteq Message
  BY DEF Matches, TypeOK
<1>3. IsFiniteSet(Matches) /\ IsFiniteSet(Earlier(m)) /\ IsFiniteSet(before) /\ IsFiniteSet(upTo)
  BY <1>2, FS_Subset DEF Earlier, FirstMatches
<1>a. PICK k : k = (page - 1) * PageSize
  OBVIOUS
<1>b. PICK n \in Nat : n = PageSize
  BY PollerAssumption
<1>4. k \in Nat /\ page * PageSize = k + n
  BY <1>a, <1>b, PageCounts
<1>5. PICK e \in Nat, b \in Nat, u \in Nat :
        e = Cardinality(Earlier(m)) /\ b = Cardinality(before) /\ u = Cardinality(upTo)
  BY <1>3, FS_CardinalityType
<1>6. e >= k /\ b <= k
  BY <1>a, <1>5, <1>1 DEF FirstMatches
<1>7. \A x \in Message : DateOf[x] \in Int
  BY PollerAssumption
<1>8. m \notin before
  <2> SUFFICES ASSUME m \in before PROVE FALSE
    OBVIOUS
  <2>1. Earlier(m) \cup {m} \subseteq before
    <3> SUFFICES ASSUME NEW x \in Earlier(m), x \notin before PROVE FALSE
      OBVIOUS
    <3>1. DateOf[m] <= DateOf[x]
      BY <1>1 DEF FirstMatches, Earlier
    <3>2. DateOf[x] < DateOf[m]
      BY DEF Earlier
    <3> QED BY <3>1, <3>2, <1>2, <1>7 DEF Earlier
  <2>2. m \notin Earlier(m)
    BY <1>2, <1>7 DEF Earlier
  <2>3. Cardinality(Earlier(m) \cup {m}) = e + 1
    BY <1>3, <1>5, <2>2, FS_AddElement
  <2>4. e + 1 <= b
    BY <1>3, <1>5, <2>1, <2>3, FS_Subset
  <2> QED BY <1>4, <1>6, <2>4
<1>9. CASE m \in upTo
  BY <1>1, <1>8, <1>9
<1>10. CASE m \notin upTo
  <2>1. u = k + n
    BY <1>1, <1>4, <1>5, <1>10 DEF FirstMatches
  <2>2. upTo \subseteq Earlier(m)
    <3> SUFFICES ASSUME NEW x \in upTo PROVE DateOf[x] < DateOf[m] /\ x \in Matches
      BY DEF Earlier
    <3>1. x \in Matches /\ DateOf[x] <= DateOf[m]
      BY <1>1, <1>10 DEF FirstMatches
    <3>2. DateOf[x] # DateOf[m]
      BY <1>2, <1>10, <3>1 DEF DistinctDates
    <3> QED BY <1>2, <1>7, <3>1, <3>2
  <2>3. u <= e
    BY <1>3, <1>5, <2>2, FS_Subset
  <2>4. Cardinality(items) = u - b
    <3>1. upTo \cap before = before
      BY <1>1
    <3>2. Cardinality(upTo \ before) = Cardinality(upTo) - Cardinality(upTo \cap before)
      BY <1>3, FS_Difference
    <3> QED BY <1>1, <1>5, <3>1, <3>2
  <2>5. ~(u - b < n)
    BY <1>4, <1>6, <2>1
  <2>6. e >= k + n
    BY <1>4, <1>5, <2>1, <2>3
  <2> QED BY <1>4, <1>5, <1>b, <2>4, <2>5, <2>6
<1> QED BY <1>9, <1>10

\* A page continues where the previous ones ended.
LEMMA FetchPageSweeps ==
  ASSUME TypeOK, DistinctDates, SweptSoFar, FetchPage
  PROVE  SweptSoFar'
<1>1. PICK items \in PagesRead :
        IF Cardinality(items) < PageSize
        THEN /\ pc' = "connect"
             /\ envelopes' = {m \in envelopes \cup items : InScope(m)}
             /\ UNCHANGED page
        ELSE /\ page' = page + 1
             /\ envelopes' = envelopes \cup items
             /\ UNCHANGED pc
  BY DEF FetchPage
<1>2. items \in Pages
  BY PageIsRead
<1>3. /\ pc = "fetch" /\ IsFiniteSet(index) /\ stable \subseteq index
      /\ UNCHANGED <<index, since, stable, shrunk, processed, failed>>
  BY DEF FetchPage, SweptSoFar, history
<1>4. ASSUME ~shrunk, NEW m \in stable, DateOf[m] >= since
      PROVE  \/ m \in envelopes \cup items
             \/ /\ ~(Cardinality(items) < PageSize)
                /\ Cardinality(Earlier(m)) >= page * PageSize
  <2>1. m \in Matches
    BY <1>3, <1>4 DEF Matches
  <2>2. m \in envelopes \/ Cardinality(Earlier(m)) >= (page - 1) * PageSize
    BY <1>3, <1>4 DEF SweptSoFar
  <2> QED BY <1>2, <1>3, <2>1, <2>2, PageHoldsOrPrecedes
<1>5. CASE Cardinality(items) < PageSize
  <2>1. pc' = "connect" /\ envelopes' = {m \in envelopes \cup items : InScope(m)}
    BY <1>1, <1>5
  <2>2. \A m : InScope(m)' <=> InScope(m)
    BY DEF InScope
  <2> QED BY <1>3, <1>4, <1>5, <2>1, <2>2 DEF SweptSoFar
<1>6. CASE ~(Cardinality(items) < PageSize)
  <2>1. pc' = "fetch" /\ envelopes' = envelopes \cup items /\ page' = page + 1
    BY <1>1, <1>3, <1>6
  <2>2. page' - 1 = page
    BY <2>1 DEF TypeOK
  <2>3. \A m : Earlier(m)' = Earlier(m)
    BY <1>3 DEF Earlier, Matches
  <2> QED BY <1>3, <1>4, <2>1, <2>2, <2>3 DEF SweptSoFar
<1> QED BY <1>5, <1>6

\* What the index gains only puts more before a message.
LEMMA GainsSweep ==
  ASSUME TypeOK, SweptSoFar, NEW x \in Message, IndexGains(x)
  PROVE  SweptSoFar'
<1>1. /\ index' = index \cup {x}
      /\ UNCHANGED <<pc, since, page, envelopes, stable, shrunk, processed, failed>>
  BY DEF IndexGains, cycle
<1>2. IsFiniteSet(index')
  BY <1>1, FS_AddElement DEF SweptSoFar
<1>3. ASSUME NEW m
      PROVE  Cardinality(Earlier(m)') >= Cardinality(Earlier(m))
             /\ Cardinality(Earlier(m)) \in Nat /\ Cardinality(Earlier(m)') \in Nat
  <2>1. Earlier(m) \subseteq Earlier(m)' /\ Earlier(m)' \subseteq index' /\ Earlier(m) \subseteq index'
    BY <1>1 DEF Earlier, Matches
  <2>2. IsFiniteSet(Earlier(m)') /\ IsFiniteSet(Earlier(m))
    BY <1>2, <2>1, FS_Subset
  <2> QED BY <2>1, <2>2, FS_Subset, FS_CardinalityType
<1>4. PICK k \in Nat : k = (page - 1) * PageSize
  BY PageCounts
<1>5. \A m : InScope(m)' <=> InScope(m)
  BY DEF InScope
<1>6. ASSUME pc = "fetch", ~shrunk, NEW m \in stable, DateOf[m] >= since
      PROVE  m \in envelopes \/ Cardinality(Earlier(m)') >= k
  BY <1>3, <1>4, <1>6 DEF SweptSoFar
<1> QED BY <1>1, <1>2, <1>4, <1>5, <1>6 DEF SweptSoFar

\* Every step keeps what was read a beginning of the window.
LEMMA SweptStep ==
  ASSUME TypeOK, TypeOK', DistinctDates, SweptSoFar, [Next]_vars
  PROVE  SweptSoFar'
<1>0. \A m : InScope(m)' <=> InScope(m)
  BY DEF InScope
<1>1. ASSUME NEW m \in Message, IndexGains(m) PROVE SweptSoFar'
  BY <1>1, GainsSweep
<1>2. ASSUME NEW m \in Message, IndexLoses(m) PROVE SweptSoFar'
  <2>1. /\ index' = index \ {m}
        /\ pc = "fetch" => stable' = stable \ {m} /\ shrunk'
        /\ pc # "fetch" => UNCHANGED <<stable, shrunk>>
        /\ UNCHANGED <<pc, since, envelopes, processed, failed>>
    BY <1>2 DEF IndexLoses, cycle
  <2>2. IsFiniteSet(index')
    BY <2>1, FS_Subset DEF SweptSoFar
  <2> QED BY <1>0, <2>1, <2>2 DEF SweptSoFar
<1>3. CASE StartPoll
  <2>1. /\ pc' = "fetch" /\ page' = 1 /\ stable' = index /\ index' = index
    BY <1>3 DEF StartPoll
  <2>2. (page' - 1) * PageSize = 0
    BY <2>1, PollerAssumption
  <2>3. \A m : Cardinality(Earlier(m)') >= 0
    <3>1. \A m : Earlier(m)' \subseteq index /\ IsFiniteSet(index)
      BY <2>1 DEF Earlier, Matches, SweptSoFar
    <3> QED BY <3>1, FS_Subset, FS_CardinalityType
  <2> QED BY <2>1, <2>2, <2>3 DEF SweptSoFar
<1>4. CASE FetchPage
  BY <1>4, FetchPageSweeps
<1>5. ASSUME UNCHANGED <<index, since, page, envelopes, stable, shrunk, processed, failed>>,
             UNCHANGED pc \/ (pc = "connect" /\ pc' = "process")
      PROVE  SweptSoFar'
  <2>1. \A m : Earlier(m)' = Earlier(m)
    BY <1>5 DEF Earlier, Matches
  <2> QED BY <1>0, <1>5, <2>1 DEF SweptSoFar
<1>6. ASSUME NEW m \in Message, Process(m) \/ ProcessFails(m) PROVE SweptSoFar'
  <2>1. /\ pc = "process" /\ UNCHANGED <<pc, index, since, stable, shrunk>>
        /\ envelopes' = envelopes \ {m}
        /\ \/ processed' = processed \cup {m} /\ failed' = failed
           \/ processed' = processed /\ failed' = failed \cup {m}
    BY <1>6 DEF Process, ProcessFails, history
  <2> QED BY <1>0, <2>1 DEF SweptSoFar
<1>7. ASSUME pc' = "sleep", index' = index PROVE SweptSoFar'
  BY <1>7 DEF SweptSoFar
<1> QED
  BY <1>1, <1>2, <1>3, <1>4, <1>5, <1>6, <1>7
     DEF Next, Daemon, Bichon, Tick, Connect, CycleFails, SaveWatermark, Crash, Idle,
         vars, cycle, history

\* The pages of a search miss no message that was there all along, though the
\* index grows between two of them: before the watermark is saved, every message
\* of INBOX in the window is in the ledger, about to be processed, or was failed
\* on.  Of messages of one date Bichon may return one twice and the other never;
\* hence the hypothesis (ingest/poller.rs, poll_account).
THEOREM WindowIsSwept ==
  ASSUME DistinctDates
  PROVE  Spec => []WindowSweptOrFailed
<1>1. Init => SweptSoFar
  BY FS_EmptySet DEF Init, SweptSoFar
<1>2. TypeOK /\ TypeOK' /\ SweptSoFar /\ [Next]_vars => SweptSoFar'
  BY SweptStep
<1>3. SweptSoFar => WindowSweptOrFailed
  BY DEF SweptSoFar, WindowSweptOrFailed
<1> QED BY <1>1, <1>2, <1>3, TypeCorrect, PTL DEF Spec

-----------------------------------------------------------------------------
(* What failed is tried again *)

\* A time no later than the first watermark (than now, while none is saved) or
\* than the date of mail Bichon has had.
Backed(w) ==
  \/ w <= (IF anchor = None THEN clock ELSE anchor)
  \/ \E n \in Message : arrived[n] # None /\ DateOf[n] >= w

\* What a search can return has arrived; every watermark is the time the account
\* was added or comes from mail; and what failed was mail of INBOX.
WatermarksAreBacked ==
  /\ \A m \in index : arrived[m] # None
  /\ anchor = None <=> saved = None
  /\ saved # None => Backed(saved)
  /\ pc # "sleep" => Backed(watermark) /\ Backed(latest)
  /\ \A m \in failedOnce : InScope(m)

\* The steps that leave alone what backs a watermark, or let time go on.
LEMMA BackedStays ==
  ASSUME TypeOK, TypeOK', clock' >= clock, UNCHANGED anchor,
         \A n \in Message : arrived[n] # None => arrived'[n] # None
  PROVE  \A w \in Int : Backed(w) => Backed(w)'
<1> SUFFICES ASSUME NEW w \in Int, Backed(w) PROVE Backed(w)'
  OBVIOUS
<1> QED BY DEF Backed, TypeOK

\* Reading a page keeps watermarks backed: a new one is a date it holds.
LEMMA FetchPageBacked ==
  ASSUME Inv, Inv', WatermarksAreBacked, FetchPage
  PROVE  WatermarksAreBacked'
<1>1. PICK items \in PagesRead : Raise(items)
  BY DEF FetchPage
<1>2. items \subseteq index
  BY <1>1, PageInWindow
<1>3. /\ UNCHANGED <<clock, index, saved, arrived, anchor, watermark, failedOnce>>
      /\ pc = "fetch"
  BY DEF FetchPage, history
<1>4. Backed(latest')
  <2>1. latest' = latest \/ \E m \in items : latest' = DateOf[m]
    BY <1>1 DEF Raise
  <2>2. CASE latest' = latest
    BY <1>3, <2>2 DEF WatermarksAreBacked
  <2>3. CASE \E m \in items : latest' = DateOf[m]
    BY <1>2, <2>3, PollerAssumption DEF WatermarksAreBacked, Backed, Inv, TypeOK
  <2> QED BY <2>1, <2>2, <2>3
<1> QED
  BY <1>3, <1>4 DEF WatermarksAreBacked, Backed, InScope

\* Every step keeps watermarks backed.
LEMMA BackedStep ==
  ASSUME Inv, Inv', WatermarksAreBacked, [Next]_vars
  PROVE  WatermarksAreBacked'
<1>0. TypeOK /\ TypeOK'
  BY DEF Inv
<1> USE DEF WatermarksAreBacked, InScope
<1>1. ASSUME NEW m \in Message, IndexGains(m) PROVE WatermarksAreBacked'
  <2>1. /\ index' = index \cup {m} /\ arrived' = [arrived EXCEPT ![m] = clock]
        /\ UNCHANGED <<clock, saved, pc, watermark, latest, failedOnce, anchor>>
    BY <1>1 DEF IndexGains, cycle
  <2>2. \A n \in Message : arrived[n] # None => arrived'[n] # None
    BY <1>0, <2>1, PollerAssumption DEF TypeOK
  <2>3. \A n \in index' : arrived'[n] # None
    BY <1>0, <2>1, PollerAssumption DEF TypeOK
  <2>4. \A w \in Int : Backed(w) => Backed(w)'
    BY <1>0, <2>1, <2>2, BackedStays DEF TypeOK
  <2> QED BY <1>0, <2>1, <2>3, <2>4 DEF TypeOK, Backed
<1>2. ASSUME UNCHANGED <<saved, arrived, anchor>>, clock' >= clock, index' \subseteq index,
             \A m \in failedOnce' : InScope(m),
             pc' = "sleep" \/ (pc # "sleep" /\ UNCHANGED <<watermark, latest>>)
      PROVE  WatermarksAreBacked'
  BY <1>0, <1>2 DEF Backed, TypeOK
<1>3. CASE StartPoll
  <2>1. /\ watermark' = (IF saved = None THEN clock ELSE saved) /\ latest' = watermark'
        /\ UNCHANGED <<clock, index, saved, arrived, anchor, failedOnce>>
    BY <1>3 DEF StartPoll
  <2> QED BY <1>0, <2>1 DEF Backed, TypeOK
<1>4. CASE FetchPage
  BY <1>4, FetchPageBacked
<1>5. CASE SaveWatermark
  <2>1. /\ saved' = latest /\ pc = "process" /\ pc' = "sleep"
        /\ anchor' = IF anchor = None THEN clock ELSE anchor
        /\ UNCHANGED <<clock, index, arrived, failedOnce>>
    BY <1>5 DEF SaveWatermark, Idle
  <2> QED BY <1>0, <2>1, PollerAssumption DEF Backed, TypeOK
<1>6. ASSUME NEW m \in Message, Process(m) \/ ProcessFails(m)
      PROVE  WatermarksAreBacked'
  <2>1. InScope(m) /\ pc = "process"
    BY <1>6 DEF Process, ProcessFails, Inv, ScopeFiltered
  <2>2. failedOnce' \subseteq failedOnce \cup {m}
    BY <1>6 DEF Process, ProcessFails, history
  <2>3. UNCHANGED <<saved, arrived, anchor, clock, index, pc, watermark, latest>>
    BY <1>6 DEF Process, ProcessFails, history
  <2> QED BY <1>0, <1>2, <2>1, <2>2, <2>3 DEF TypeOK
<1>7. CASE Tick \/ (\E m \in Message : IndexLoses(m)) \/ Connect \/ CycleFails \/ Crash
           \/ UNCHANGED vars
  <2>1. /\ UNCHANGED <<saved, arrived, anchor, failedOnce>> /\ index' \subseteq index
        /\ clock' = clock \/ clock' = clock + 1
        /\ pc' = "sleep" \/ (pc # "sleep" /\ UNCHANGED <<watermark, latest>>)
    BY <1>7 DEF Tick, IndexLoses, Connect, CycleFails, Crash, Idle, vars, cycle, history
  <2> QED BY <1>0, <1>2, <2>1 DEF TypeOK
<1> QED
  BY <1>1, <1>3, <1>4, <1>5, <1>6, <1>7 DEF Next, Daemon, Bichon

\* A message the pipeline failed on is given to it again by every later cycle
\* whose search finds it there, as long as the margin reaches it: no error, no
\* crash and no watermark saved past it makes the daemon give it up earlier
\* (ingest/poller.rs, SAFETY_MARGIN_MS; cli/run.rs, poll_one_account).
THEOREM FailedIsTriedAgain ==
  ASSUME DistinctDates
  PROVE  Spec => []FailedIsRetried
<1>1. Init => WatermarksAreBacked
  BY DEF Init, WatermarksAreBacked
<1>2. Inv /\ Inv' /\ WatermarksAreBacked /\ [Next]_vars => WatermarksAreBacked'
  BY BackedStep
<1>3. Inv /\ WatermarksAreBacked /\ WindowSweptOrFailed => FailedIsRetried
  <2> SUFFICES ASSUME Inv, WatermarksAreBacked, WindowSweptOrFailed,
                      pc = "process", ~shrunk, NEW m \in failedOnce \cap stable,
                      ~(m \in envelopes \cup processed \cup failed)
               PROVE  Overtaken(m) \/ BeforeAnchor(m)
    BY DEF FailedIsRetried
  <2>1. m \in Message /\ DateOf[m] \in Int /\ InScope(m)
    BY PollerAssumption DEF Inv, TypeOK, WatermarksAreBacked
  <2>2. ~(DateOf[m] >= since)
    BY <2>1 DEF WindowSweptOrFailed
  <2>3. DateOf[m] < watermark - Margin /\ Backed(watermark) /\ watermark \in Int
    BY <2>1, <2>2, PollerAssumption DEF Inv, TypeOK, PollInWindow, WatermarksAreBacked
  <2> QED
    BY <2>1, <2>3, PollerAssumption DEF Backed, Overtaken, BeforeAnchor, Inv, TypeOK
<1> QED
  BY <1>1, <1>2, <1>3, InvInductive, WindowIsSwept, PTL DEF Spec
=============================================================================
