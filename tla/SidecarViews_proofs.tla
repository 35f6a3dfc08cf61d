------------------------- MODULE SidecarViews_proofs -------------------------
(***************************************************************************)
(* Proofs about SidecarViews, for any messages, triages, windows and       *)
(* length of /recent: what several statements, each on the sidecar of its  *)
(* own moment, add up to.                                                  *)
(***************************************************************************)
EXTENDS SidecarViews, TagPlan_proofs, FiniteSetTheorems

-----------------------------------------------------------------------------
(* The rows of one triage *)

\* n rows of one table.
LEMMA RowsOfIsSeq ==
  ASSUME NEW table \in MessageTables, NEW n \in Nat
  PROVE  /\ RowsOf(table, n) \in Seq(MessageTables)
         /\ Len(RowsOf(table, n)) = n
         /\ \A i \in 1..n : RowsOf(table, n)[i] = table
BY DEF RowsOf

\* The tags come behind the decision, of which there is one, and the filters.
LEMMA RecordingOrder ==
  ASSUME NEW t \in Triaged
  PROVE  LET r == Recording(t) IN
         /\ r \in Seq(MessageTables)
         /\ \A i, j \in 1..Len(r) :
              /\ r[i] = "llm_decisions" /\ r[j] = "llm_decisions" => i = j
              /\ r[i] \in {"filter_matches", "llm_decisions"}
                   /\ r[j] = "applied_tags" => i < j
<1> DEFINE n1 == t.llm_decisions
           n2 == t.filter_matches
           n3 == t.applied_tags
           n4 == t.executed_actions
           n5 == t.webhook_emissions
           r1 == RowsOf("llm_decisions", n1)
           r2 == RowsOf("filter_matches", n2)
           r3 == RowsOf("applied_tags", n3)
           r4 == RowsOf("executed_actions", n4)
           r5 == RowsOf("webhook_emissions", n5)
<1>0. /\ "llm_decisions" \in MessageTables /\ "filter_matches" \in MessageTables
      /\ "applied_tags" \in MessageTables /\ "executed_actions" \in MessageTables
      /\ "webhook_emissions" \in MessageTables
  BY DEF MessageTables
<1>1. /\ n1 \in Nat /\ n2 \in Nat /\ n3 \in Nat /\ n4 \in Nat /\ n5 \in Nat
      /\ n1 \in {0, 1}
  BY TriagedAssumption
<1> HIDE DEF n1, n2, n3, n4, n5
<1>2. /\ r1 \in Seq(MessageTables) /\ Len(r1) = n1
      /\ \A i \in 1..n1 : r1[i] = "llm_decisions"
  BY <1>0, <1>1, RowsOfIsSeq
<1>3. /\ r2 \in Seq(MessageTables) /\ Len(r2) = n2
      /\ \A i \in 1..n2 : r2[i] = "filter_matches"
  BY <1>0, <1>1, RowsOfIsSeq
<1>4. /\ r3 \in Seq(MessageTables) /\ Len(r3) = n3
      /\ \A i \in 1..n3 : r3[i] = "applied_tags"
  BY <1>0, <1>1, RowsOfIsSeq
<1>5. /\ r4 \in Seq(MessageTables) /\ Len(r4) = n4
      /\ \A i \in 1..n4 : r4[i] = "executed_actions"
  BY <1>0, <1>1, RowsOfIsSeq
<1>6. /\ r5 \in Seq(MessageTables) /\ Len(r5) = n5
      /\ \A i \in 1..n5 : r5[i] = "webhook_emissions"
  BY <1>0, <1>1, RowsOfIsSeq
<1> HIDE DEF r1, r2, r3, r4, r5
<1> DEFINE s2 == r1 \o r2
           s3 == s2 \o r3
           s4 == s3 \o r4
           s5 == s4 \o r5
<1>7. /\ s2 \in Seq(MessageTables) /\ Len(s2) = n1 + n2
      /\ \A i \in 1..(n1 + n2) : s2[i] = IF i <= n1 THEN r1[i] ELSE r2[i - n1]
  BY <1>1, <1>2, <1>3, ConcatProperties
<1> HIDE DEF s2
<1>8. /\ s3 \in Seq(MessageTables) /\ Len(s3) = n1 + n2 + n3
      /\ \A i \in 1..(n1 + n2 + n3) :
           s3[i] = IF i <= n1 + n2 THEN s2[i] ELSE r3[i - (n1 + n2)]
  <2>1. /\ s3 \in Seq(MessageTables) /\ Len(s3) = Len(s2) + Len(r3)
        /\ \A i \in 1..(Len(s2) + Len(r3)) :
             s3[i] = IF i <= Len(s2) THEN s2[i] ELSE r3[i - Len(s2)]
    BY <1>4, <1>7, ConcatProperties
  <2> QED BY <1>4, <1>7, <2>1
<1> HIDE DEF s3
<1>9. /\ s4 \in Seq(MessageTables) /\ Len(s4) = n1 + n2 + n3 + n4
      /\ \A i \in 1..(n1 + n2 + n3 + n4) :
           s4[i] = IF i <= n1 + n2 + n3 THEN s3[i] ELSE r4[i - (n1 + n2 + n3)]
  <2>1. /\ s4 \in Seq(MessageTables) /\ Len(s4) = Len(s3) + Len(r4)
        /\ \A i \in 1..(Len(s3) + Len(r4)) :
             s4[i] = IF i <= Len(s3) THEN s3[i] ELSE r4[i - Len(s3)]
    BY <1>5, <1>8, ConcatProperties
  <2> QED BY <1>5, <1>8, <2>1
<1> HIDE DEF s4
<1>10. /\ s5 \in Seq(MessageTables) /\ Len(s5) = n1 + n2 + n3 + n4 + n5
       /\ \A i \in 1..(n1 + n2 + n3 + n4 + n5) :
            s5[i] = IF i <= n1 + n2 + n3 + n4 THEN s4[i]
                    ELSE r5[i - (n1 + n2 + n3 + n4)]
  <2>1. /\ s5 \in Seq(MessageTables) /\ Len(s5) = Len(s4) + Len(r5)
        /\ \A i \in 1..(Len(s4) + Len(r5)) :
             s5[i] = IF i <= Len(s4) THEN s4[i] ELSE r5[i - Len(s4)]
    BY <1>6, <1>9, ConcatProperties
  <2> QED BY <1>6, <1>9, <2>1
<1>11. Recording(t) = s5
  BY DEF Recording, s2, s3, s4, r1, r2, r3, r4, r5, n1, n2, n3, n4, n5
<1> HIDE DEF s5
<1>12. ASSUME NEW i \in 1..(n1 + n2 + n3 + n4 + n5)
       PROVE  s5[i] = IF i <= n1 THEN "llm_decisions"
                      ELSE IF i <= n1 + n2 THEN "filter_matches"
                      ELSE IF i <= n1 + n2 + n3 THEN "applied_tags"
                      ELSE IF i <= n1 + n2 + n3 + n4 THEN "executed_actions"
                      ELSE "webhook_emissions"
  <2>1. CASE i <= n1
    BY <1>1, <1>2, <1>7, <1>8, <1>9, <1>10, <2>1
  <2>2. CASE n1 < i /\ i <= n1 + n2
    BY <1>1, <1>3, <1>7, <1>8, <1>9, <1>10, <2>2
  <2>3. CASE n1 + n2 < i /\ i <= n1 + n2 + n3
    BY <1>1, <1>4, <1>8, <1>9, <1>10, <2>3
  <2>4. CASE n1 + n2 + n3 < i /\ i <= n1 + n2 + n3 + n4
    BY <1>1, <1>5, <1>9, <1>10, <2>4
  <2>5. CASE n1 + n2 + n3 + n4 < i
    BY <1>1, <1>6, <1>10, <2>5
  <2> QED BY <1>1, <2>1, <2>2, <2>3, <2>4, <2>5
<1>13. ASSUME NEW i \in 1..Len(s5), NEW j \in 1..Len(s5)
       PROVE  /\ s5[i] = "llm_decisions" /\ s5[j] = "llm_decisions" => i = j
              /\ s5[i] \in {"filter_matches", "llm_decisions"}
                   /\ s5[j] = "applied_tags" => i < j
  BY <1>1, <1>10, <1>12
<1> QED BY <1>10, <1>11, <1>13

-----------------------------------------------------------------------------
(* The sidecar *)

\* The tables speak of the same messages, each with the rows of a triage, and
\* a report that is being read was asked for a short while ago.
SidecarInv ==
  /\ clock \in Nat /\ since \in Nat /\ since <= clock
  /\ todo # <<>> => clock < since + (Week - Day)
  /\ ledger \in Seq(MessageId)
  /\ \A i, j \in 1..Len(ledger) : ledger[i] = ledger[j] => i = j
  /\ DOMAIN processed_at = Processed
  /\ DOMAIN rows = Processed /\ DOMAIN written = Processed
  /\ \A m \in Processed :
       /\ processed_at[m] \in Nat
       /\ \E t \in Triaged : rows[m] = Recording(t)
       /\ written[m] \in 0..Len(rows[m])

\* What is in the sidecar stays.
Grows ==
  /\ Processed \subseteq Processed'
  /\ \A m \in Processed :
       /\ processed_at'[m] = processed_at[m] /\ rows'[m] = rows[m]
       /\ written'[m] \in Nat /\ written'[m] >= written[m]

\* Inserting leaves what is there.
LEMMA PutEffect ==
  ASSUME NEW f, NEW x, NEW y, NEW g, g = Put(f, x, y)
  PROVE  /\ DOMAIN g = DOMAIN f \cup {x}
         /\ \A z \in DOMAIN f : g[z] = f[z]
         /\ x \notin DOMAIN f => g[x] = y
BY DEF Put

\* Recording a message keeps the sidecar consistent and loses nothing.
LEMMA RecordMessageStep ==
  ASSUME SidecarInv, NEW m \in MessageId, NEW t \in Triaged, RecordMessage(m, t)
  PROVE  SidecarInv' /\ Grows
<1>1. /\ ledger' \in Seq(MessageId) /\ Len(ledger) \in Nat
      /\ Len(ledger') = Len(ledger) + 1
      /\ \A i \in 1..Len(ledger) : ledger'[i] = ledger[i]
      /\ ledger'[Len(ledger) + 1] = m
      /\ DOMAIN ledger = 1..Len(ledger) /\ DOMAIN ledger' = 1..Len(ledger')
  BY AppendProperties, LenProperties DEF SidecarInv, RecordMessage
<1>2. Processed' = Processed \cup {m}
  BY <1>1 DEF Processed, ToSet
<1>3. \A i \in 1..Len(ledger) : ledger[i] # m
  BY <1>1 DEF RecordMessage, Processed, ToSet
<1>4. \A i, j \in 1..Len(ledger') : ledger'[i] = ledger'[j] => i = j
  BY <1>1, <1>3 DEF SidecarInv
<1>5. /\ DOMAIN processed_at' = Processed' /\ DOMAIN rows' = Processed'
      /\ DOMAIN written' = Processed'
      /\ processed_at'[m] = clock /\ rows'[m] = Recording(t) /\ written'[m] = 0
      /\ \A n \in Processed : /\ processed_at'[n] = processed_at[n]
                              /\ rows'[n] = rows[n] /\ written'[n] = written[n]
  <2>1. m \notin Processed
    BY DEF RecordMessage
  <2>2. /\ processed_at' = Put(processed_at, m, clock)
        /\ rows' = Put(rows, m, Recording(t)) /\ written' = Put(written, m, 0)
    BY DEF RecordMessage
  <2>3. /\ DOMAIN processed_at = Processed /\ DOMAIN rows = Processed
        /\ DOMAIN written = Processed
    BY DEF SidecarInv
  <2>4. /\ DOMAIN processed_at' = Processed' /\ processed_at'[m] = clock
        /\ \A n \in Processed : processed_at'[n] = processed_at[n]
    BY <1>2, <2>1, <2>2, <2>3 DEF Put
  <2>5. /\ DOMAIN rows' = Processed' /\ rows'[m] = Recording(t)
        /\ \A n \in Processed : rows'[n] = rows[n]
    BY <1>2, <2>1, <2>2, <2>3 DEF Put
  <2>6. /\ DOMAIN written' = Processed' /\ written'[m] = 0
        /\ \A n \in Processed : written'[n] = written[n]
    BY <1>2, <2>1, <2>2, <2>3 DEF Put
  <2> QED BY <2>4, <2>5, <2>6
<1>6. Recording(t) \in Seq(MessageTables) /\ Len(Recording(t)) \in Nat
  BY RecordingOrder, LenProperties
<1>7. ASSUME NEW n \in Processed'
      PROVE  /\ processed_at'[n] \in Nat
             /\ \E u \in Triaged : rows'[n] = Recording(u)
             /\ written'[n] \in 0..Len(rows'[n])
  <2>1. CASE n = m
    BY <1>5, <1>6, <2>1 DEF SidecarInv
  <2>2. CASE n \in Processed
    BY <1>5, <2>2 DEF SidecarInv
  <2> QED BY <1>2, <2>1, <2>2
<1>8. UNCHANGED <<clock, since, todo>>
  BY DEF RecordMessage, request
<1>9. \A n \in Processed : written[n] \in Nat
  <2> TAKE n \in Processed
  <2>1. PICK u \in Triaged : rows[n] = Recording(u)
    BY DEF SidecarInv
  <2>2. Len(rows[n]) \in Nat
    BY <2>1, RecordingOrder, LenProperties
  <2> QED BY <2>2 DEF SidecarInv
<1> QED
  BY <1>1, <1>2, <1>4, <1>5, <1>7, <1>8, <1>9 DEF SidecarInv, Grows

\* So does inserting a row of it.
LEMMA InsertRowStep ==
  ASSUME SidecarInv, NEW table, InsertRow(table)
  PROVE  SidecarInv' /\ Grows
<1> DEFINE m == Last(ledger)
<1>1. UNCHANGED <<clock, since, todo, ledger, processed_at, rows, Processed>>
  BY DEF InsertRow, request, Processed
<1>2. \A n \in Processed : Len(rows[n]) \in Nat /\ written[n] \in Nat
  <2> TAKE n \in Processed
  <2>1. PICK u \in Triaged : rows[n] = Recording(u)
    BY DEF SidecarInv
  <2>2. Len(rows[n]) \in Nat
    BY <2>1, RecordingOrder, LenProperties
  <2> QED BY <2>2 DEF SidecarInv
<1>3. /\ DOMAIN written' = DOMAIN written
      /\ \A n \in Processed :
           written'[n] = IF n = m THEN written[n] + 1 ELSE written[n]
      /\ written[m] < Len(rows[m])
  BY DEF InsertRow, SidecarInv
<1>4. \A n \in Processed : written'[n] \in 0..Len(rows[n]) /\ written'[n] >= written[n]
  BY <1>2, <1>3 DEF SidecarInv
<1> QED
  BY <1>1, <1>2, <1>3, <1>4 DEF SidecarInv, Grows

\* Every step keeps the sidecar consistent, and it only grows.
LEMMA SidecarStep ==
  ASSUME SidecarInv, [Next]_vars
  PROVE  SidecarInv' /\ Grows
<1>1. ASSUME UNCHANGED <<ledger, processed_at, rows, written>>
      PROVE  /\ Grows /\ UNCHANGED Processed
             /\ clock' \in Nat /\ since' \in Nat /\ since' <= clock'
                  /\ (todo' # <<>> => clock' < since' + (Week - Day)) => SidecarInv'
  <2>1. UNCHANGED Processed
    BY <1>1 DEF Processed
  <2>2. ASSUME NEW m \in Processed
        PROVE  written[m] \in Nat
    <3>1. PICK t \in Triaged : rows[m] = Recording(t)
      BY DEF SidecarInv
    <3>2. Len(rows[m]) \in Nat
      BY <3>1, RecordingOrder, LenProperties
    <3> QED BY <3>2 DEF SidecarInv
  <2> QED BY <1>1, <2>1, <2>2 DEF SidecarInv, Grows
<1>2. CASE OpenDatabase \/ SpawnWebui \/ LetGo \/ UNCHANGED vars
  BY <1>1, <1>2 DEF OpenDatabase, SpawnWebui, LetGo, vars, sidecar, request, SidecarInv
<1>3. CASE Tick
  BY <1>1, <1>3, ViewsAssumption DEF Tick, sidecar, request, SidecarInv
<1>4. ASSUME NEW name, NEW statements, Ask(name, statements)
      PROVE  SidecarInv' /\ Grows
  BY <1>1, <1>4, ViewsAssumption DEF Ask, sidecar, SidecarInv
<1>5. CASE Dashboard \/ Status \/ Recent \/ \E m \in MessageId : Explain(m)
  BY <1>4, <1>5 DEF Dashboard, Status, Recent, Explain, Page
<1>6. CASE Read
  BY <1>1, <1>6 DEF Read, sidecar, SidecarInv
<1>7. CASE RecordDecision \/ RecordMatch \/ RecordTag \/ RecordAction \/ RecordEmission
  BY <1>7, InsertRowStep
     DEF RecordDecision, RecordMatch, RecordTag, RecordAction, RecordEmission
<1> QED
  BY <1>2, <1>3, <1>5, <1>6, <1>7, RecordMessageStep DEF Next, Daemon, Reports

-----------------------------------------------------------------------------
(* What the counting statements return *)

\* The messages of the day before the report was asked for; those decided.
SinceDay == {m \in Processed : processed_at[m] + Day >= since}
Decided  == {m \in Processed : \E i \in 1..written[m] : rows[m][i] = "llm_decisions"}

\* A message's rows, and how many of them are written, are numbered.
LEMMA RowsAreSeq ==
  ASSUME SidecarInv, NEW m \in Processed
  PROVE  /\ Len(rows[m]) \in Nat /\ DOMAIN rows[m] = 1..Len(rows[m])
         /\ written[m] \in Nat /\ written[m] <= Len(rows[m])
<1>1. PICK t \in Triaged : rows[m] = Recording(t)
  BY DEF SidecarInv
<1>2. Len(rows[m]) \in Nat /\ DOMAIN rows[m] = 1..Len(rows[m])
  BY <1>1, RecordingOrder, LenProperties
<1> QED BY <1>2 DEF SidecarInv

\* A sequence has finitely many elements.
LEMMA MembersAreFinite ==
  ASSUME NEW s \in Seq(MessageId)
  PROVE  IsFiniteSet(ToSet(s))
<1>1. s \in [1..Len(s) -> ToSet(s)] /\ Len(s) \in Nat /\ DOMAIN s = 1..Len(s)
  BY LenProperties DEF ToSet
<1>2. s \in Surjection(1..Len(s), ToSet(s))
  BY <1>1 DEF Surjection, ToSet
<1>3. IsFiniteSet(1..Len(s))
  BY <1>1, FS_Interval
<1> QED BY <1>2, <1>3, FS_Surjection

\* The ledger is finite, and so is every part of it.
LEMMA ProcessedIsFinite ==
  ASSUME SidecarInv
  PROVE  /\ IsFiniteSet(Processed) /\ Cardinality(Processed) \in Nat
         /\ \A S \in SUBSET Processed :
              IsFiniteSet(S) /\ Cardinality(S) \in Nat
                /\ Cardinality(S) <= Cardinality(Processed)
<1>1. IsFiniteSet(Processed)
  BY MembersAreFinite DEF SidecarInv, Processed
<1> QED BY <1>1, FS_Subset, FS_CardinalityType

\* The counts a report shows never fall while the sidecar grows.
LEMMA CountsGrow ==
  ASSUME SidecarInv, SidecarInv', Grows
  PROVE  /\ Cardinality(Processed) <= Cardinality(Processed')
         /\ Cardinality(Decided) <= Cardinality(Decided')
         /\ since' = since => Cardinality(SinceDay) <= Cardinality(SinceDay')
<1>1. /\ IsFiniteSet(Processed')
      /\ \A S \in SUBSET Processed' : IsFiniteSet(S)
  <2>1. IsFiniteSet(Processed')
    BY MembersAreFinite DEF SidecarInv, Processed
  <2> QED BY <2>1, FS_Subset
<1>2. Processed \in SUBSET Processed'
  BY DEF Grows
<1>3. Decided \in SUBSET Decided'
  <2> SUFFICES ASSUME NEW m \in Decided PROVE m \in Decided'
    OBVIOUS
  <2>1. m \in Processed /\ written[m] \in Nat
    BY RowsAreSeq DEF Decided
  <2>2. PICK i \in 1..written[m] : rows[m][i] = "llm_decisions"
    BY DEF Decided
  <2>3. i \in 1..written'[m] /\ rows'[m][i] = "llm_decisions" /\ m \in Processed'
    BY <2>1, <2>2 DEF Grows
  <2> QED BY <2>3 DEF Decided
<1>4. since' = since => SinceDay \in SUBSET SinceDay'
  BY DEF SinceDay, Grows
<1>5. Decided' \in SUBSET Processed' /\ SinceDay' \in SUBSET Processed'
  BY DEF Decided, SinceDay
<1> QED BY <1>1, <1>2, <1>3, <1>4, <1>5, FS_Subset

\* A message has one decision at most.
LEMMA DecisionRows ==
  ASSUME SidecarInv, NEW m \in Processed
  PROVE  RowCount(m, "llm_decisions") = IF m \in Decided THEN 1 ELSE 0
<1> DEFINE S == {i \in 1..written[m] : rows[m][i] = "llm_decisions"}
<1>1. PICK t \in Triaged : rows[m] = Recording(t)
  BY DEF SidecarInv
<1>2. \A i, j \in S : i = j
  BY <1>1, RecordingOrder, RowsAreSeq
<1>3. CASE S = {}
  BY <1>3, FS_EmptySet DEF RowCount, Decided
<1>4. CASE S # {}
  <2>1. PICK i \in S : TRUE
    BY <1>4
  <2>2. S = {i}
    BY <1>2, <2>1
  <2> QED BY <2>1, <2>2, FS_Singleton DEF RowCount, Decided
<1> QED BY <1>3, <1>4

\* A decision for each message decided, whichever way they are counted.
LEMMA DecisionCounts ==
  ASSUME SidecarInv
  PROVE  /\ Cardinality(AllRows("llm_decisions")) = Cardinality(Decided)
         /\ {x[1] : x \in AllRows("llm_decisions")} = Decided
<1> DEFINE f == [m \in Decided |-> <<m, 1>>]
           R == AllRows("llm_decisions")
<1>1. Decided \subseteq Processed /\ IsFiniteSet(Decided)
  BY ProcessedIsFinite DEF Decided
<1>2. R = {<<m, 1>> : m \in Decided}
  <2>1. ASSUME NEW m \in Processed
        PROVE  {<<m, i>> : i \in 1..RowCount(m, "llm_decisions")}
                 = IF m \in Decided THEN {<<m, 1>>} ELSE {}
    BY <2>1, DecisionRows
  <2> QED BY <1>1, <2>1 DEF AllRows
<1>3. f \in Bijection(Decided, R)
  BY <1>2 DEF Bijection, Injection, Surjection, IsInjective
<1>4. ExistsBijection(Decided, R)
  BY <1>3 DEF ExistsBijection
<1>5. Cardinality(R) = Cardinality(Decided)
  BY <1>1, <1>4, FS_Bijection
<1>6. {x[1] : x \in R} = Decided
  <2>1. \A x \in R : x[1] \in Decided
    BY <1>2
  <2>2. \A m \in Decided : <<m, 1>> \in R /\ <<m, 1>>[1] = m
    BY <1>2
  <2> HIDE DEF R
  <2> QED BY <2>1, <2>2
<1> QED BY <1>5, <1>6

DayWindow  == <<"window", Day>>
WeekWindow == <<"window", Week>>
Total      == <<"count">>
Lookups    == <<"sum", "llm_decisions">>
Prompts    == <<"distinct", "llm_decisions">>

\* How the results of the counting statements compare at any instant.
LEMMA Results ==
  ASSUME SidecarInv, todo # <<>>
  PROVE  /\ Result(DayWindow) \in Nat /\ Result(DayWindow) <= Cardinality(SinceDay)
         /\ Result(WeekWindow) \in Nat /\ Cardinality(SinceDay) <= Result(WeekWindow)
         /\ Result(WeekWindow) <= Cardinality(Processed)
         /\ Result(Total) = Cardinality(Processed)
         /\ Result(Lookups) = Cardinality(Decided)
         /\ Result(Prompts) = Cardinality(Decided)
<1> DEFINE D == {m \in Processed : processed_at[m] + Day >= clock}
           W == {m \in Processed : processed_at[m] + Week >= clock}
<1>1. /\ Result(DayWindow) = Cardinality(D) /\ Result(WeekWindow) = Cardinality(W)
      /\ Result(Total) = Cardinality(Processed)
      /\ Result(Lookups) = Cardinality(AllRows("llm_decisions"))
      /\ Result(Prompts) = Cardinality({x[1] : x \in AllRows("llm_decisions")})
  <2>1. Result(DayWindow) = Cardinality(D)
    BY DEF Result, MessageTables, DayWindow
  <2>2. Result(WeekWindow) = Cardinality(W)
    BY DEF Result, MessageTables, WeekWindow
  <2>3. Result(Total) = Cardinality(Processed)
    BY DEF Result, MessageTables, Total
  <2>4. Result(Lookups) = Cardinality(AllRows("llm_decisions"))
    BY DEF Result, MessageTables, Lookups
  <2>5. Result(Prompts) = Cardinality({x[1] : x \in AllRows("llm_decisions")})
    BY DEF Result, MessageTables, Prompts
  <2> QED BY <2>1, <2>2, <2>3, <2>4, <2>5
<1>2. /\ clock \in Nat /\ since \in Nat /\ since <= clock
      /\ clock < since + (Week - Day) /\ Week \in Nat /\ Day \in Nat
      /\ \A m \in Processed : processed_at[m] \in Nat
  BY ViewsAssumption DEF SidecarInv
<1>3. D \subseteq SinceDay
  BY <1>2 DEF SinceDay
<1>4. SinceDay \subseteq W
  BY <1>2 DEF SinceDay
<1>5. W \subseteq Processed /\ D \subseteq Processed /\ SinceDay \subseteq Processed
  BY DEF SinceDay
<1>6. /\ IsFiniteSet(W) /\ IsFiniteSet(SinceDay) /\ Cardinality(D) \in Nat
      /\ Cardinality(W) \in Nat /\ Cardinality(W) <= Cardinality(Processed)
  BY <1>5, ProcessedIsFinite
<1>7. Cardinality(D) <= Cardinality(SinceDay) /\ Cardinality(SinceDay) <= Cardinality(W)
  BY <1>3, <1>4, <1>6, FS_Subset
<1> QED BY <1>1, <1>6, <1>7, DecisionCounts
-----------------------------------------------------------------------------
(* A report that counts *)

Counting == {"dashboard", "status"}

Emissions == <<"sum", "webhook_emissions">>

\* Where a dashboard is, and what it has asked so far.
DashboardPlace ==
  \/ /\ todo = <<DayWindow, WeekWindow, Total, Lookups, Prompts, Emissions>>
     /\ DOMAIN shown = {}
  \/ /\ todo = <<WeekWindow, Total, Lookups, Prompts, Emissions>>
     /\ DOMAIN shown = {DayWindow}
  \/ /\ todo = <<Total, Lookups, Prompts, Emissions>>
     /\ DOMAIN shown = {DayWindow, WeekWindow}
  \/ /\ todo = <<Lookups, Prompts, Emissions>>
     /\ DOMAIN shown = {DayWindow, WeekWindow, Total}
  \/ /\ todo = <<Prompts, Emissions>>
     /\ DOMAIN shown = {DayWindow, WeekWindow, Total, Lookups}
  \/ /\ todo = <<Emissions>>
     /\ DOMAIN shown = {DayWindow, WeekWindow, Total, Lookups, Prompts}
  \/ /\ todo = <<>>
     /\ DOMAIN shown = {DayWindow, WeekWindow, Total, Lookups, Prompts, Emissions}

\* The windows end what `berger status` counts.
Tags    == <<"sum", "applied_tags">>
Matches == <<"sum", "filter_matches">>
Actions == <<"sum", "executed_actions">>

StatusPlace ==
  \/ /\ todo \in {
          <<Total, Tags, Matches, Lookups, Actions, Emissions, DayWindow, WeekWindow>>,
          <<Tags, Matches, Lookups, Actions, Emissions, DayWindow, WeekWindow>>,
          <<Matches, Lookups, Actions, Emissions, DayWindow, WeekWindow>>,
          <<Lookups, Actions, Emissions, DayWindow, WeekWindow>>,
          <<Actions, Emissions, DayWindow, WeekWindow>>,
          <<Emissions, DayWindow, WeekWindow>>,
          <<DayWindow, WeekWindow>> }
     /\ DayWindow \notin DOMAIN shown /\ WeekWindow \notin DOMAIN shown
  \/ /\ todo = <<WeekWindow>>
     /\ DayWindow \in DOMAIN shown /\ WeekWindow \notin DOMAIN shown
  \/ todo = <<>> /\ DayWindow \in DOMAIN shown /\ WeekWindow \in DOMAIN shown

\* Each counter is below the next one, or below what that will count at least.
WindowsNested ==
  /\ DayWindow \in DOMAIN shown =>
       shown[DayWindow] \in Nat /\ shown[DayWindow] <= Cardinality(SinceDay)
  /\ WeekWindow \in DOMAIN shown =>
       /\ shown[WeekWindow] \in Nat /\ shown[DayWindow] <= shown[WeekWindow]
       /\ shown[WeekWindow] <= Cardinality(Processed)

DashboardCounts ==
  /\ Total \in DOMAIN shown => shown[WeekWindow] <= shown[Total]
  /\ Lookups \in DOMAIN shown =>
       shown[Lookups] \in Nat /\ shown[Lookups] <= Cardinality(Decided)
  /\ Prompts \in DOMAIN shown =>
       shown[Prompts] \in Nat /\ shown[Lookups] <= shown[Prompts]

CountingInv ==
  /\ report = "dashboard" => DashboardPlace /\ WindowsNested /\ DashboardCounts
  /\ report = "status" => StatusPlace /\ WindowsNested

\* The statements of a report are different ones.
LEMMA StatementsDiffer ==
  /\ DayWindow # WeekWindow /\ DayWindow # Total /\ DayWindow # Lookups
  /\ DayWindow # Prompts /\ DayWindow # Emissions /\ WeekWindow # Total
  /\ WeekWindow # Lookups /\ WeekWindow # Prompts /\ WeekWindow # Emissions
  /\ Total # Lookups /\ Total # Prompts /\ Total # Emissions
  /\ Lookups # Prompts /\ Lookups # Emissions /\ Prompts # Emissions
  /\ DayWindow # Tags /\ DayWindow # Matches /\ DayWindow # Actions
  /\ WeekWindow # Tags /\ WeekWindow # Matches /\ WeekWindow # Actions
BY ViewsAssumption
   DEF DayWindow, WeekWindow, Total, Lookups, Prompts, Emissions, Tags, Matches, Actions

\* A counting statement asks for nothing further.
LEMMA ReadOne ==
  ASSUME Read, NEW rest, <<>> \o rest = rest,
         NEW q \in {DayWindow, WeekWindow, Total, Lookups, Prompts, Emissions, Tags,
                    Matches, Actions},
         Head(todo) = q, Tail(todo) = rest, q \notin DOMAIN shown
  PROVE  /\ todo' = rest
         /\ DOMAIN shown' = DOMAIN shown \cup {q} /\ shown'[q] = Result(q)
         /\ \A z \in DOMAIN shown : shown'[z] = shown[z]
<1>1. Details(q, Result(q)) = <<>>
  BY DEF Details, DayWindow, WeekWindow, Total, Lookups, Prompts, Emissions, Tags,
         Matches, Actions
<1>2. shown' = Put(shown, q, Result(q)) /\ todo' = <<>> \o rest
  BY <1>1 DEF Read
<1> QED BY <1>2 DEF Put

\* Until it reads on, what a report has counted holds.
LEMMA CountingStays ==
  ASSUME SidecarInv, SidecarInv', Grows, UNCHANGED since,
         \A z \in DOMAIN shown : z \in DOMAIN shown' /\ shown'[z] = shown[z]
  PROVE  /\ WindowsNested => \A z \in DOMAIN shown :
              /\ z = DayWindow =>
                   shown'[z] \in Nat /\ shown'[z] <= Cardinality(SinceDay')
              /\ z = WeekWindow =>
                   shown'[z] \in Nat /\ shown'[z] <= Cardinality(Processed')
         /\ DashboardCounts => \A z \in DOMAIN shown :
              z = Lookups => shown'[z] \in Nat /\ shown'[z] <= Cardinality(Decided')
<1>1. /\ Cardinality(Processed) <= Cardinality(Processed')
      /\ Cardinality(Decided) <= Cardinality(Decided')
      /\ Cardinality(SinceDay) <= Cardinality(SinceDay')
  BY CountsGrow
<1>2. /\ Cardinality(Processed) \in Nat /\ Cardinality(Processed') \in Nat
      /\ Cardinality(Decided) \in Nat /\ Cardinality(Decided') \in Nat
      /\ Cardinality(SinceDay) \in Nat /\ Cardinality(SinceDay') \in Nat
  <2>1. IsFiniteSet(Processed) /\ IsFiniteSet(Processed')
    BY MembersAreFinite DEF SidecarInv, Processed
  <2>2. /\ Decided \subseteq Processed /\ Decided' \subseteq Processed'
        /\ SinceDay \subseteq Processed /\ SinceDay' \subseteq Processed'
    BY DEF Decided, SinceDay
  <2> QED BY <2>1, <2>2, FS_Subset, FS_CardinalityType
<1> QED BY <1>1, <1>2 DEF WindowsNested, DashboardCounts

\* Reading one more statement keeps the dashboard's figures coherent.
LEMMA DashboardRead ==
  ASSUME SidecarInv, Read, DashboardPlace, WindowsNested, DashboardCounts
  PROVE  DashboardPlace' /\ WindowsNested' /\ DashboardCounts'
<1>1. /\ UNCHANGED <<Processed, Decided, SinceDay>> /\ todo # <<>>
      /\ Cardinality(SinceDay) \in Nat /\ Cardinality(Processed) \in Nat
      /\ Cardinality(Decided) \in Nat
  BY ProcessedIsFinite DEF Read, sidecar, Processed, Decided, SinceDay
<1>2. /\ Result(DayWindow) \in Nat /\ Result(DayWindow) <= Cardinality(SinceDay)
      /\ Result(WeekWindow) \in Nat /\ Cardinality(SinceDay) <= Result(WeekWindow)
      /\ Result(WeekWindow) <= Cardinality(Processed)
      /\ Result(Total) = Cardinality(Processed)
      /\ Result(Lookups) = Cardinality(Decided)
      /\ Result(Prompts) = Cardinality(Decided)
  BY <1>1, Results
<1>3. CASE /\ todo = <<DayWindow, WeekWindow, Total, Lookups, Prompts, Emissions>>
           /\ DOMAIN shown = {}
  <2> DEFINE rest == <<WeekWindow, Total, Lookups, Prompts, Emissions>>
  <2>1. Head(todo) = DayWindow /\ Tail(todo) = rest /\ <<>> \o rest = rest
    BY <1>3
  <2>2. /\ todo' = rest /\ DOMAIN shown' = {DayWindow}
        /\ shown'[DayWindow] = Result(DayWindow)
    BY <1>3, <2>1, ReadOne, Zenon
  <2> QED
    BY <1>1, <1>2, <2>2, StatementsDiffer
       DEF DashboardPlace, WindowsNested, DashboardCounts
<1>4. CASE /\ todo = <<WeekWindow, Total, Lookups, Prompts, Emissions>>
           /\ DOMAIN shown = {DayWindow}
  <2> DEFINE rest == <<Total, Lookups, Prompts, Emissions>>
  <2>1. Head(todo) = WeekWindow /\ Tail(todo) = rest /\ <<>> \o rest = rest
    BY <1>4
  <2>2. /\ todo' = rest /\ DOMAIN shown' = {DayWindow, WeekWindow}
        /\ shown'[WeekWindow] = Result(WeekWindow)
        /\ shown'[DayWindow] = shown[DayWindow]
    BY <1>4, <2>1, ReadOne, StatementsDiffer
  <2> QED
    BY <1>1, <1>2, <1>4, <2>2, StatementsDiffer
       DEF DashboardPlace, WindowsNested, DashboardCounts
<1>5. CASE /\ todo = <<Total, Lookups, Prompts, Emissions>>
           /\ DOMAIN shown = {DayWindow, WeekWindow}
  <2> DEFINE rest == <<Lookups, Prompts, Emissions>>
  <2>1. Head(todo) = Total /\ Tail(todo) = rest /\ <<>> \o rest = rest
    BY <1>5
  <2>2. /\ todo' = rest /\ DOMAIN shown' = {DayWindow, WeekWindow, Total}
        /\ shown'[Total] = Result(Total)
        /\ shown'[DayWindow] = shown[DayWindow] /\ shown'[WeekWindow] = shown[WeekWindow]
    BY <1>5, <2>1, ReadOne, StatementsDiffer
  <2> QED
    BY <1>1, <1>2, <1>5, <2>2, StatementsDiffer
       DEF DashboardPlace, WindowsNested, DashboardCounts
<1>6. CASE /\ todo = <<Lookups, Prompts, Emissions>>
           /\ DOMAIN shown = {DayWindow, WeekWindow, Total}
  <2> DEFINE rest == <<Prompts, Emissions>>
  <2>1. Head(todo) = Lookups /\ Tail(todo) = rest /\ <<>> \o rest = rest
    BY <1>6
  <2>2. /\ todo' = rest /\ DOMAIN shown' = {DayWindow, WeekWindow, Total, Lookups}
        /\ shown'[Lookups] = Result(Lookups)
        /\ shown'[DayWindow] = shown[DayWindow] /\ shown'[WeekWindow] = shown[WeekWindow]
        /\ shown'[Total] = shown[Total]
    BY <1>6, <2>1, ReadOne, StatementsDiffer
  <2> QED
    BY <1>1, <1>2, <1>6, <2>2, StatementsDiffer
       DEF DashboardPlace, WindowsNested, DashboardCounts
<1>7. CASE /\ todo = <<Prompts, Emissions>>
           /\ DOMAIN shown = {DayWindow, WeekWindow, Total, Lookups}
  <2> DEFINE rest == <<Emissions>>
  <2>1. Head(todo) = Prompts /\ Tail(todo) = rest /\ <<>> \o rest = rest
    BY <1>7
  <2>2. /\ todo' = rest /\ DOMAIN shown' = {DayWindow, WeekWindow, Total, Lookups, Prompts}
        /\ shown'[Prompts] = Result(Prompts)
        /\ shown'[DayWindow] = shown[DayWindow] /\ shown'[WeekWindow] = shown[WeekWindow]
        /\ shown'[Total] = shown[Total] /\ shown'[Lookups] = shown[Lookups]
    BY <1>7, <2>1, ReadOne, StatementsDiffer
  <2> QED
    BY <1>1, <1>2, <1>7, <2>2, StatementsDiffer
       DEF DashboardPlace, WindowsNested, DashboardCounts
<1>8. CASE /\ todo = <<Emissions>>
           /\ DOMAIN shown = {DayWindow, WeekWindow, Total, Lookups, Prompts}
  <2> DEFINE rest == <<>>
  <2>1. Head(todo) = Emissions /\ Tail(todo) = rest /\ <<>> \o rest = rest
    BY <1>8
  <2>2. /\ todo' = rest
        /\ DOMAIN shown' = {DayWindow, WeekWindow, Total, Lookups, Prompts, Emissions}
        /\ shown'[DayWindow] = shown[DayWindow] /\ shown'[WeekWindow] = shown[WeekWindow]
        /\ shown'[Total] = shown[Total] /\ shown'[Lookups] = shown[Lookups]
        /\ shown'[Prompts] = shown[Prompts]
    BY <1>8, <2>1, ReadOne, StatementsDiffer
  <2> QED
    BY <1>1, <1>8, <2>2, StatementsDiffer
       DEF DashboardPlace, WindowsNested, DashboardCounts
<1> QED
  BY <1>1, <1>3, <1>4, <1>5, <1>6, <1>7, <1>8 DEF DashboardPlace

\* Reading one more statement keeps the status's windows nested.
LEMMA StatusRead ==
  ASSUME SidecarInv, Read, StatusPlace, WindowsNested
  PROVE  StatusPlace' /\ WindowsNested'
<1>1. /\ UNCHANGED <<Processed, SinceDay>> /\ todo # <<>>
  BY DEF Read, sidecar, Processed, SinceDay
<1>2. /\ Result(DayWindow) \in Nat /\ Result(DayWindow) <= Cardinality(SinceDay)
      /\ Result(WeekWindow) \in Nat /\ Cardinality(SinceDay) <= Result(WeekWindow)
      /\ Result(WeekWindow) <= Cardinality(Processed)
      /\ Cardinality(SinceDay) \in Nat
  BY <1>1, Results, ProcessedIsFinite DEF SinceDay
<1>3. ASSUME NEW q \in {Total, Tags, Matches, Lookups, Actions, Emissions}, NEW rest,
             todo # <<>>, Head(todo) = q, Tail(todo) = rest, <<>> \o rest = rest,
             DayWindow \notin DOMAIN shown, WeekWindow \notin DOMAIN shown
      PROVE  /\ todo' = rest
             /\ DayWindow \notin DOMAIN shown' /\ WeekWindow \notin DOMAIN shown'
  <2>1. Details(q, Result(q)) = <<>>
    BY DEF Details, Total, Lookups, Emissions, Tags, Matches, Actions
  <2>2. q # DayWindow /\ q # WeekWindow
    BY StatementsDiffer
  <2> QED BY <1>3, <2>1, <2>2 DEF Read, Put
<1>4. CASE todo = <<WeekWindow>> /\ DayWindow \in DOMAIN shown
             /\ WeekWindow \notin DOMAIN shown
  <2> DEFINE rest == <<>>
  <2>1. Head(todo) = WeekWindow /\ Tail(todo) = rest /\ <<>> \o rest = rest
    BY <1>4
  <2>2. /\ todo' = rest /\ DOMAIN shown' = DOMAIN shown \cup {WeekWindow}
        /\ shown'[WeekWindow] = Result(WeekWindow)
        /\ shown'[DayWindow] = shown[DayWindow]
    BY <1>4, <2>1, ReadOne
  <2> QED BY <1>1, <1>2, <1>4, <2>2 DEF StatusPlace, WindowsNested
<1>5. CASE todo = <<DayWindow, WeekWindow>>
             /\ DayWindow \notin DOMAIN shown /\ WeekWindow \notin DOMAIN shown
  <2> DEFINE rest == <<WeekWindow>>
  <2>1. Head(todo) = DayWindow /\ Tail(todo) = rest /\ <<>> \o rest = rest
    BY <1>5
  <2>2. /\ todo' = rest /\ DOMAIN shown' = DOMAIN shown \cup {DayWindow}
        /\ shown'[DayWindow] = Result(DayWindow)
    BY <1>5, <2>1, ReadOne
  <2> QED
    BY <1>1, <1>2, <1>5, <2>2, StatementsDiffer DEF StatusPlace, WindowsNested
<1>6. ASSUME DayWindow \notin DOMAIN shown, WeekWindow \notin DOMAIN shown,
             NEW q \in {Total, Tags, Matches, Lookups, Actions, Emissions}, NEW rest,
             Head(todo) = q, Tail(todo) = rest, <<>> \o rest = rest,
             rest \in {
               <<Tags, Matches, Lookups, Actions, Emissions, DayWindow, WeekWindow>>,
               <<Matches, Lookups, Actions, Emissions, DayWindow, WeekWindow>>,
               <<Lookups, Actions, Emissions, DayWindow, WeekWindow>>,
               <<Actions, Emissions, DayWindow, WeekWindow>>,
               <<Emissions, DayWindow, WeekWindow>>,
               <<DayWindow, WeekWindow>> }
      PROVE  StatusPlace' /\ WindowsNested'
  BY <1>1, <1>3, <1>6 DEF StatusPlace, WindowsNested
<1>7. CASE todo = <<Total, Tags, Matches, Lookups, Actions, Emissions, DayWindow, WeekWindow>>
             /\ DayWindow \notin DOMAIN shown /\ WeekWindow \notin DOMAIN shown
  <2> DEFINE rest == <<Tags, Matches, Lookups, Actions, Emissions, DayWindow, WeekWindow>>
  <2>1. Head(todo) = Total /\ Tail(todo) = rest /\ <<>> \o rest = rest
    BY <1>7
  <2> QED BY <1>6, <1>7, <2>1
<1>8. CASE todo = <<Tags, Matches, Lookups, Actions, Emissions, DayWindow, WeekWindow>>
             /\ DayWindow \notin DOMAIN shown /\ WeekWindow \notin DOMAIN shown
  <2> DEFINE rest == <<Matches, Lookups, Actions, Emissions, DayWindow, WeekWindow>>
  <2>1. Head(todo) = Tags /\ Tail(todo) = rest /\ <<>> \o rest = rest
    BY <1>8
  <2> QED BY <1>6, <1>8, <2>1
<1>9. CASE todo = <<Matches, Lookups, Actions, Emissions, DayWindow, WeekWindow>>
             /\ DayWindow \notin DOMAIN shown /\ WeekWindow \notin DOMAIN shown
  <2> DEFINE rest == <<Lookups, Actions, Emissions, DayWindow, WeekWindow>>
  <2>1. Head(todo) = Matches /\ Tail(todo) = rest /\ <<>> \o rest = rest
    BY <1>9
  <2> QED BY <1>6, <1>9, <2>1
<1>10. CASE todo = <<Lookups, Actions, Emissions, DayWindow, WeekWindow>>
             /\ DayWindow \notin DOMAIN shown /\ WeekWindow \notin DOMAIN shown
  <2> DEFINE rest == <<Actions, Emissions, DayWindow, WeekWindow>>
  <2>1. Head(todo) = Lookups /\ Tail(todo) = rest /\ <<>> \o rest = rest
    BY <1>10
  <2> QED BY <1>6, <1>10, <2>1
<1>11. CASE todo = <<Actions, Emissions, DayWindow, WeekWindow>>
             /\ DayWindow \notin DOMAIN shown /\ WeekWindow \notin DOMAIN shown
  <2> DEFINE rest == <<Emissions, DayWindow, WeekWindow>>
  <2>1. Head(todo) = Actions /\ Tail(todo) = rest /\ <<>> \o rest = rest
    BY <1>11
  <2> QED BY <1>6, <1>11, <2>1
<1>12. CASE todo = <<Emissions, DayWindow, WeekWindow>>
             /\ DayWindow \notin DOMAIN shown /\ WeekWindow \notin DOMAIN shown
  <2> DEFINE rest == <<DayWindow, WeekWindow>>
  <2>1. Head(todo) = Emissions /\ Tail(todo) = rest /\ <<>> \o rest = rest
    BY <1>12
  <2> QED BY <1>6, <1>12, <2>1
<1> QED
  BY <1>1, <1>4, <1>5, <1>7, <1>8, <1>9, <1>10, <1>11, <1>12 DEF StatusPlace

\* Whatever the daemon does, a report that is not read on stays right.
LEMMA CountingKept ==
  ASSUME SidecarInv, SidecarInv', Grows, CountingInv, UNCHANGED request
  PROVE  CountingInv'
<1>1. UNCHANGED <<report, todo, shown, since>>
  BY DEF request
<1>2. DashboardPlace => DashboardPlace'
  BY <1>1 DEF DashboardPlace
<1>3. StatusPlace => StatusPlace'
  BY <1>1 DEF StatusPlace
<1>4. /\ WindowsNested => WindowsNested'
      /\ DashboardCounts => DashboardCounts'
  BY <1>1, CountingStays DEF WindowsNested, DashboardCounts
<1> QED BY <1>1, <1>2, <1>3, <1>4 DEF CountingInv

\* Every step keeps the figures coherent.
LEMMA CountingStep ==
  ASSUME SidecarInv, CountingInv, [Next]_vars
  PROVE  CountingInv'
<1>1. SidecarInv' /\ Grows
  BY SidecarStep
<1>2. CASE Read
  <2>1. UNCHANGED report
    BY <1>2 DEF Read
  <2> QED BY <1>2, <2>1, DashboardRead, StatusRead DEF CountingInv
<1>3. CASE Dashboard
  <2>1. /\ report' = "dashboard" /\ shown' = <<>>
        /\ todo' = <<DayWindow, WeekWindow, Total, Lookups, Prompts, Emissions>>
    BY <1>3 DEF Dashboard, Page, Ask, DayWindow, WeekWindow, Total, Lookups, Prompts,
                Emissions
  <2>2. DOMAIN shown' = {}
    BY <2>1
  <2> QED
    BY <2>1, <2>2 DEF CountingInv, DashboardPlace, WindowsNested, DashboardCounts
<1>4. CASE Status
  <2>1. /\ report' = "status" /\ shown' = <<>>
        /\ todo' = <<Total, Tags, Matches, Lookups, Actions, Emissions, DayWindow, WeekWindow>>
    BY <1>4 DEF Status, Ask, DayWindow, WeekWindow, Total, Lookups, Emissions, Tags,
                Matches, Actions
  <2>2. DOMAIN shown' = {}
    BY <2>1
  <2> QED BY <2>1, <2>2 DEF CountingInv, StatusPlace, WindowsNested
<1>5. CASE Recent \/ \E m \in MessageId : Explain(m)
  BY <1>5 DEF Recent, Explain, Page, Ask, CountingInv
<1>6. CASE Daemon \/ Tick \/ UNCHANGED vars
  <2>1. UNCHANGED request
    BY <1>6 DEF Daemon, OpenDatabase, SpawnWebui, RecordMessage, RecordDecision,
                RecordMatch, RecordTag, RecordAction, RecordEmission, InsertRow,
                LetGo, Tick, vars
  <2> QED BY <1>1, <2>1, CountingKept
<1> QED BY <1>2, <1>3, <1>4, <1>5, <1>6 DEF Next, Reports

-----------------------------------------------------------------------------
(* /recent *)

\* The newest messages are read first, and once.
RecentInv ==
  report = "recent" =>
    \/ todo = << <<"recent">> >> /\ <<"recent">> \notin DOMAIN shown
    \/ /\ <<"recent">> \in DOMAIN shown
       /\ \A i, j \in DOMAIN shown[<<"recent">>] :
            shown[<<"recent">>][i] = shown[<<"recent">>][j] => i = j

\* The newest messages are listed once each, as many as the page has room for.
LEMMA NewestDiffer ==
  ASSUME SidecarInv
  PROVE  /\ Newest \in Seq(MessageId) /\ Len(Newest) <= RecentLimit
         /\ \A i, j \in DOMAIN Newest : Newest[i] = Newest[j] => i = j
<1> DEFINE r == Reverse(ledger)
           k == Cardinality(1..Len(ledger) \intersect 1..RecentLimit)
<1>1. /\ Len(ledger) \in Nat /\ \A i \in 1..Len(ledger) : ledger[i] \in MessageId
      /\ \A i, j \in 1..Len(ledger) : ledger[i] = ledger[j] => i = j
  BY LenProperties, ElementOfSeq DEF SidecarInv
<1>2. k \in Nat /\ k <= Len(ledger) /\ k <= RecentLimit
  <2>1. IsFiniteSet(1..Len(ledger)) /\ Cardinality(1..Len(ledger)) = Len(ledger)
    <3>1. 1 \in Int /\ Len(ledger) \in Int
      BY <1>1
    <3>2. /\ IsFiniteSet(1..Len(ledger))
          /\ Cardinality(1..Len(ledger))
               = IF 1 > Len(ledger) THEN 0 ELSE Len(ledger) - 1 + 1
      BY <3>1, FS_Interval
    <3> QED BY <1>1, <3>2
  <2>2. /\ IsFiniteSet(1..RecentLimit)
        /\ Cardinality(1..RecentLimit) = RecentLimit
    <3>1. 1 \in Int /\ RecentLimit \in Int /\ RecentLimit >= 1
      BY ViewsAssumption
    <3>2. /\ IsFiniteSet(1..RecentLimit)
          /\ Cardinality(1..RecentLimit)
               = IF 1 > RecentLimit THEN 0 ELSE RecentLimit - 1 + 1
      BY <3>1, FS_Interval
    <3> QED BY <3>1, <3>2
  <2> QED
    BY <2>1, <2>2, FS_Intersection, FS_CardinalityType
<1>3. \A i \in 1..Len(ledger) : r[i] = ledger[(Len(ledger) - i) + 1]
  BY <1>1 DEF Reverse
<1>4. \A i, j \in 1..Len(ledger) : r[i] = r[j] => i = j
  BY <1>1, <1>3, SMTT(30)
<1>5. \A i \in 1..k : r[i] \in MessageId
  BY <1>1, <1>2, <1>3
<1> HIDE DEF r, k
<1>6. /\ SubSeq(r, 1, k) \in Seq(MessageId)
      /\ Len(SubSeq(r, 1, k)) = IF 1 <= k THEN k - 1 + 1 ELSE 0
      /\ \A i \in 1..(k - 1 + 1) : SubSeq(r, 1, k)[i] = r[1 + i - 1]
  BY <1>2, <1>5, SubSeqProperties
<1>7. DOMAIN SubSeq(r, 1, k) = 1..k /\ \A i \in 1..k : SubSeq(r, 1, k)[i] = r[i]
  BY <1>2, <1>6, LenProperties
<1>8. Newest = SubSeq(r, 1, k)
  BY DEF Newest, r, k
<1>9. Len(SubSeq(r, 1, k)) <= RecentLimit
  BY <1>2, <1>6
<1> QED BY <1>1, <1>2, <1>4, <1>6, <1>7, <1>8, <1>9

\* Every step keeps the page of recent messages coherent.
LEMMA RecentStep ==
  ASSUME SidecarInv, RecentInv, [Next]_vars
  PROVE  RecentInv'
<1> DEFINE q == <<"recent">>
<1>1. CASE Read
  <2>1. UNCHANGED report
    BY <1>1 DEF Read
  <2>2. shown' = Put(shown, Head(todo), Result(Head(todo)))
    BY <1>1 DEF Read
  <2>3. CASE q \in DOMAIN shown
    <3>1. q \in DOMAIN shown' /\ shown'[q] = shown[q]
      BY <2>2, <2>3 DEF Put
    <3>2. report = "recent" =>
            \A i, j \in DOMAIN shown[q] : shown[q][i] = shown[q][j] => i = j
      BY <2>3 DEF RecentInv
    <3> QED BY <2>1, <3>1, <3>2 DEF RecentInv
  <2>4. CASE todo = <<q>> /\ q \notin DOMAIN shown
    <3>1. q \in DOMAIN shown' /\ shown'[q] = Result(q)
      BY <2>2, <2>4 DEF Put
    <3>2. Result(q) = Newest
      BY DEF Result, MessageTables
    <3> QED BY <3>1, <3>2, NewestDiffer DEF RecentInv
  <2> QED BY <2>1, <2>3, <2>4 DEF RecentInv
<1>2. CASE Recent
  BY <1>2 DEF Recent, Page, Ask, RecentInv
<1>3. CASE Dashboard \/ Status \/ \E m \in MessageId : Explain(m)
  BY <1>3 DEF Dashboard, Status, Explain, Page, Ask, RecentInv
<1>4. CASE Daemon \/ Tick \/ UNCHANGED vars
  <2>1. UNCHANGED <<report, todo, shown>>
    BY <1>4 DEF Daemon, OpenDatabase, SpawnWebui, RecordMessage, RecordDecision,
                RecordMatch, RecordTag, RecordAction, RecordEmission, InsertRow,
                LetGo, Tick, vars, request
  <2> QED BY <2>1 DEF RecentInv
<1> QED BY <1>1, <1>2, <1>3, <1>4 DEF Next, Reports

-----------------------------------------------------------------------------
(* /explain *)

ExplainPlace(m) ==
  \/ /\ todo = << <<"header", m>> >>
     /\ DOMAIN shown = {}
  \/ /\ todo = << <<"applied_tags", m>>, <<"filter_matches", m>>, <<"llm_decisions", m>>,
                  <<"executed_actions", m>>, <<"webhook_emissions", m>> >>
     /\ DOMAIN shown = { <<"header", m>> }
  \/ /\ todo = << <<"filter_matches", m>>, <<"llm_decisions", m>>,
                  <<"executed_actions", m>>, <<"webhook_emissions", m>> >>
     /\ DOMAIN shown = { <<"header", m>>, <<"applied_tags", m>> }
  \/ /\ todo = << <<"llm_decisions", m>>, <<"executed_actions", m>>,
                  <<"webhook_emissions", m>> >>
     /\ DOMAIN shown = { <<"header", m>>, <<"applied_tags", m>>, <<"filter_matches", m>> }
  \/ /\ todo = << <<"executed_actions", m>>, <<"webhook_emissions", m>> >>
     /\ DOMAIN shown = { <<"header", m>>, <<"applied_tags", m>>, <<"filter_matches", m>>,
                         <<"llm_decisions", m>> }
  \/ /\ todo = << <<"webhook_emissions", m>> >>
     /\ DOMAIN shown = { <<"header", m>>, <<"applied_tags", m>>, <<"filter_matches", m>>,
                         <<"llm_decisions", m>>, <<"executed_actions", m>> }
  \/ /\ todo = <<>>
     /\ DOMAIN shown = { <<"header", m>>, <<"applied_tags", m>>, <<"filter_matches", m>>,
                         <<"llm_decisions", m>>, <<"executed_actions", m>>,
                         <<"webhook_emissions", m>> }
  \/ todo = <<>> /\ DOMAIN shown = { <<"header", m>> }

Reasons == {"filter_matches", "llm_decisions"}

\* A tag that was read had all its reasons written, and they are read whole.
ReasonsShown(m) ==
  <<"applied_tags", m>> \in DOMAIN shown /\ shown[<<"applied_tags", m>>] > 0 =>
    /\ m \in Processed
    /\ \A i \in DOMAIN rows[m] : rows[m][i] \in Reasons => i <= written[m]
    /\ \A table \in Reasons : <<table, m>> \in DOMAIN shown =>
         shown[<<table, m>>] = Cardinality({i \in DOMAIN rows[m] : rows[m][i] = table})

ExplainInv ==
  report = "explain" => \E m \in MessageId : ExplainPlace(m) /\ ReasonsShown(m)

\* A message whose tag is written has all its reasons written.
LEMMA TagComesLast ==
  ASSUME SidecarInv, NEW m, Result(<<"applied_tags", m>>) > 0
  PROVE  /\ m \in Processed
         /\ \A i \in DOMAIN rows[m] : rows[m][i] \in Reasons => i <= written[m]
<1>1. Result(<<"applied_tags", m>>)
        = IF m \in Processed THEN RowCount(m, "applied_tags") ELSE 0
  BY DEF Result, MessageTables
<1>2. m \in Processed
  BY <1>1
<1>3. PICK t \in Triaged : rows[m] = Recording(t)
  BY <1>2 DEF SidecarInv
<1>4. {i \in 1..written[m] : rows[m][i] = "applied_tags"} # {}
  BY <1>1, <1>2, FS_EmptySet DEF RowCount
<1>5. PICK j \in 1..written[m] : rows[m][j] = "applied_tags"
  BY <1>4
<1>6. ASSUME NEW i \in DOMAIN rows[m], rows[m][i] \in Reasons
      PROVE  i <= written[m]
  <2>1. /\ i \in 1..Len(rows[m]) /\ j \in 1..Len(rows[m])
        /\ written[m] \in Nat
    BY <1>2, <1>5, RowsAreSeq
  <2>2. i < j
    BY <1>3, <1>5, <1>6, <2>1, RecordingOrder DEF Reasons
  <2> QED BY <2>1, <2>2
<1> QED BY <1>2, <1>6

\* What is then read of them is all there will be.
LEMMA ReasonsAreWhole ==
  ASSUME SidecarInv, NEW m \in Processed, NEW table \in Reasons,
         \A i \in DOMAIN rows[m] : rows[m][i] \in Reasons => i <= written[m]
  PROVE  Result(<<table, m>>)
           = Cardinality({i \in DOMAIN rows[m] : rows[m][i] = table})
<1>1. Result(<<table, m>>) = RowCount(m, table)
  BY DEF Result, MessageTables, Reasons
<1>2. {i \in 1..written[m] : rows[m][i] = table}
        = {i \in DOMAIN rows[m] : rows[m][i] = table}
  BY RowsAreSeq
<1> QED BY <1>1, <1>2 DEF RowCount

\* Reading one more statement keeps the explanation whole.
LEMMA ExplainRead ==
  ASSUME SidecarInv, Read, NEW m \in MessageId, ExplainPlace(m), ReasonsShown(m)
  PROVE  ExplainPlace(m)' /\ ReasonsShown(m)'
<1> DEFINE H == <<"header", m>>
           T == <<"applied_tags", m>>
           F == <<"filter_matches", m>>
           L == <<"llm_decisions", m>>
           X == <<"executed_actions", m>>
           E == <<"webhook_emissions", m>>
<1>0. /\ H # T /\ H # F /\ H # L /\ H # X /\ H # E /\ T # F /\ T # L /\ T # X
      /\ T # E /\ F # L /\ F # X /\ F # E /\ L # X /\ L # E /\ X # E
  OBVIOUS
<1>1. /\ UNCHANGED <<Processed, rows, written>> /\ todo # <<>>
      /\ shown' = Put(shown, Head(todo), Result(Head(todo)))
      /\ todo' = Details(Head(todo), Result(Head(todo))) \o Tail(todo)
  BY DEF Read, sidecar, Processed
<1>2. ASSUME NEW q \in {T, F, L, X, E}, NEW rest, Head(todo) = q, Tail(todo) = rest,
             <<>> \o rest = rest, q \notin DOMAIN shown
      PROVE  /\ todo' = rest /\ DOMAIN shown' = DOMAIN shown \cup {q}
             /\ shown'[q] = Result(q)
             /\ \A z \in DOMAIN shown : shown'[z] = shown[z]
  <2>1. Details(q, Result(q)) = <<>>
    BY <1>2 DEF Details
  <2> QED BY <1>1, <1>2, <2>1 DEF Put
<1>3. CASE todo = <<H>> /\ DOMAIN shown = {}
  <2>1. Head(todo) = H /\ Tail(todo) = <<>>
    BY <1>3
  <2>2. DOMAIN shown' = {H}
    BY <1>1, <1>3, <2>1 DEF Put
  <2>3. Result(H) \in BOOLEAN
    BY DEF Result, MessageTables
  <2>4. CASE Result(H)
    <3>1. Details(H, Result(H)) = <<T, F, L, X, E>>
      BY <2>4 DEF Details
    <3>2. <<T, F, L, X, E>> \o <<>> = <<T, F, L, X, E>>
      OBVIOUS
    <3>3. todo' = <<T, F, L, X, E>>
      BY <1>1, <2>1, <3>1, <3>2
    <3> QED BY <1>0, <2>2, <3>3 DEF ExplainPlace, ReasonsShown
  <2>5. CASE ~Result(H)
    <3>1. Details(H, Result(H)) = <<>>
      BY <2>5 DEF Details
    <3>2. todo' = <<>>
      BY <1>1, <2>1, <3>1
    <3> QED BY <1>0, <2>2, <3>2 DEF ExplainPlace, ReasonsShown
  <2> QED BY <2>3, <2>4, <2>5
<1>4. CASE todo = <<T, F, L, X, E>> /\ DOMAIN shown = {H}
  <2> DEFINE rest == <<F, L, X, E>>
  <2>1. Head(todo) = T /\ Tail(todo) = rest /\ <<>> \o rest = rest
    BY <1>4
  <2>2. todo' = rest /\ DOMAIN shown' = {H, T} /\ shown'[T] = Result(T)
    BY <1>0, <1>2, <1>4, <2>1
  <2>3. ReasonsShown(m)'
    BY <1>0, <1>1, <2>2, TagComesLast DEF ReasonsShown, Reasons
  <2> QED BY <2>2, <2>3 DEF ExplainPlace
<1>5. CASE todo = <<F, L, X, E>> /\ DOMAIN shown = {H, T}
  <2> DEFINE rest == <<L, X, E>>
  <2>1. Head(todo) = F /\ Tail(todo) = rest /\ <<>> \o rest = rest
    BY <1>5
  <2>2. todo' = rest /\ DOMAIN shown' = {H, T, F} /\ shown'[F] = Result(F)
        /\ shown'[T] = shown[T]
    BY <1>0, <1>2, <1>5, <2>1
  <2>3. ReasonsShown(m)'
    BY <1>0, <1>1, <1>5, <2>2, ReasonsAreWhole DEF ReasonsShown, Reasons
  <2> QED BY <2>2, <2>3 DEF ExplainPlace
<1>6. CASE todo = <<L, X, E>> /\ DOMAIN shown = {H, T, F}
  <2> DEFINE rest == <<X, E>>
  <2>1. Head(todo) = L /\ Tail(todo) = rest /\ <<>> \o rest = rest
    BY <1>6
  <2>2. todo' = rest /\ DOMAIN shown' = {H, T, F, L} /\ shown'[L] = Result(L)
        /\ shown'[T] = shown[T] /\ shown'[F] = shown[F]
    BY <1>0, <1>2, <1>6, <2>1
  <2>3. ReasonsShown(m)'
    BY <1>0, <1>1, <1>6, <2>2, ReasonsAreWhole DEF ReasonsShown, Reasons
  <2> QED BY <2>2, <2>3 DEF ExplainPlace
<1>7. CASE todo = <<X, E>> /\ DOMAIN shown = {H, T, F, L}
  <2> DEFINE rest == <<E>>
  <2>1. Head(todo) = X /\ Tail(todo) = rest /\ <<>> \o rest = rest
    BY <1>7
  <2>2. todo' = rest /\ DOMAIN shown' = {H, T, F, L, X}
        /\ shown'[T] = shown[T] /\ shown'[F] = shown[F] /\ shown'[L] = shown[L]
    BY <1>0, <1>2, <1>7, <2>1
  <2>3. ReasonsShown(m)'
    BY <1>0, <1>1, <1>7, <2>2 DEF ReasonsShown, Reasons
  <2> QED BY <2>2, <2>3 DEF ExplainPlace
<1>8. CASE todo = <<E>> /\ DOMAIN shown = {H, T, F, L, X}
  <2> DEFINE rest == <<>>
  <2>1. Head(todo) = E /\ Tail(todo) = rest /\ <<>> \o rest = rest
    BY <1>8
  <2>2. todo' = rest /\ DOMAIN shown' = {H, T, F, L, X, E}
        /\ shown'[T] = shown[T] /\ shown'[F] = shown[F] /\ shown'[L] = shown[L]
    BY <1>0, <1>2, <1>8, <2>1
  <2>3. ReasonsShown(m)'
    BY <1>0, <1>1, <1>8, <2>2 DEF ReasonsShown, Reasons
  <2> QED BY <2>2, <2>3 DEF ExplainPlace
<1> QED
  BY <1>1, <1>3, <1>4, <1>5, <1>6, <1>7, <1>8 DEF ExplainPlace

\* Every step keeps the explanation whole.
LEMMA ExplainStep ==
  ASSUME SidecarInv, ExplainInv, [Next]_vars
  PROVE  ExplainInv'
<1>1. Grows
  BY SidecarStep
<1>2. CASE Read
  BY <1>2, ExplainRead DEF Read, ExplainInv
<1>3. ASSUME NEW m \in MessageId, Explain(m)
      PROVE  ExplainInv'
  <2>1. /\ report' = "explain" /\ todo' = << <<"header", m>> >> /\ shown' = <<>>
    BY <1>3 DEF Explain, Ask
  <2>2. DOMAIN shown' = {}
    BY <2>1
  <2>3. ExplainPlace(m)' /\ ReasonsShown(m)'
    BY <2>1, <2>2 DEF ExplainPlace, ReasonsShown
  <2> QED BY <2>3 DEF ExplainInv
<1>4. CASE Dashboard \/ Status \/ Recent
  BY <1>4 DEF Dashboard, Status, Recent, Page, Ask, ExplainInv
<1>5. CASE Daemon \/ Tick \/ UNCHANGED vars
  <2>1. UNCHANGED <<report, todo, shown>>
    BY <1>5 DEF Daemon, OpenDatabase, SpawnWebui, RecordMessage, RecordDecision,
                RecordMatch, RecordTag, RecordAction, RecordEmission, InsertRow,
                LetGo, Tick, vars, request
  <2>2. ASSUME NEW m \in MessageId, ExplainPlace(m), ReasonsShown(m)
        PROVE  ExplainPlace(m)' /\ ReasonsShown(m)'
    <3>1. ExplainPlace(m)'
      BY <2>1, <2>2 DEF ExplainPlace
    <3>2. m \in Processed => /\ m \in Processed' /\ rows'[m] = rows[m]
                             /\ written[m] \in Nat /\ written'[m] \in Nat
                             /\ written'[m] >= written[m]
                             /\ DOMAIN rows[m] \subseteq Nat
      BY <1>1, RowsAreSeq DEF Grows
    <3>3. ReasonsShown(m)'
      BY <2>1, <2>2, <3>2 DEF ReasonsShown
    <3> QED BY <3>1, <3>3
  <2> QED BY <2>1, <2>2 DEF ExplainInv
<1> QED BY <1>2, <1>3, <1>4, <1>5 DEF Next, Reports

-----------------------------------------------------------------------------
(* The theorems *)

Inv == SidecarInv /\ CountingInv /\ RecentInv /\ ExplainInv

\* Whatever the daemon records between two statements of a report, the report
\* is where its code has got to, and each number it has read is at most what
\* the next statement will find.
THEOREM InvInductive == Spec => []Inv
<1>1. Init => Inv
  <2> SUFFICES ASSUME Init PROVE Inv
    OBVIOUS
  <2>1. Processed = {} /\ DOMAIN processed_at = {} /\ DOMAIN rows = {}
        /\ DOMAIN written = {}
    BY DEF Init, Processed, ToSet
  <2>2. SidecarInv
    BY <2>1 DEF Init, SidecarInv
  <2>3. report = "none"
    BY DEF Init
  <2> QED BY <2>2, <2>3 DEF Inv, CountingInv, RecentInv, ExplainInv
<1>2. Inv /\ [Next]_vars => Inv'
  BY SidecarStep, CountingStep, RecentStep, ExplainStep DEF Inv
<1> QED BY <1>1, <1>2, PTL DEF Spec

\* The dashboard's counters and those of `berger status` are nested, and
\* /recent lists a message once, for any messages, windows and limit, although
\* messages are recorded between the statements (webui/queries.rs, status.rs).
THEOREM CountersAreNested == Spec => []CountersNested
<1>1. Inv => CountersNested
  <2> SUFFICES ASSUME Inv PROVE CountersNested
    OBVIOUS
  <2>1. ASSUME Complete("dashboard")
        PROVE  /\ DashboardStats.processed_24h <= DashboardStats.processed_7d
               /\ DashboardStats.processed_7d <= DashboardStats.processed_total
    <3>1. WeekWindow \in DOMAIN shown /\ Total \in DOMAIN shown
      BY <2>1 DEF Complete, Inv, CountingInv, DashboardPlace
    <3>2. /\ shown[DayWindow] <= shown[WeekWindow]
          /\ shown[WeekWindow] <= shown[Total]
      BY <2>1, <3>1 DEF Complete, Inv, CountingInv, WindowsNested, DashboardCounts
    <3>3. /\ DashboardStats.processed_24h = shown[DayWindow]
          /\ DashboardStats.processed_7d = shown[WeekWindow]
          /\ DashboardStats.processed_total = shown[Total]
      BY DEF DashboardStats, DayWindow, WeekWindow, Total
    <3> QED BY <3>2, <3>3
  <2>2. ASSUME Complete("status")
        PROVE  StatusSummary.processed_last_24h <= StatusSummary.processed_last_7d
    <3>1. WeekWindow \in DOMAIN shown
      BY <2>2 DEF Complete, Inv, CountingInv, StatusPlace
    <3>2. shown[DayWindow] <= shown[WeekWindow]
      BY <2>2, <3>1 DEF Complete, Inv, CountingInv, WindowsNested
    <3>3. /\ StatusSummary.processed_last_24h = shown[DayWindow]
          /\ StatusSummary.processed_last_7d = shown[WeekWindow]
      BY DEF StatusSummary, DayWindow, WeekWindow
    <3> QED BY <3>2, <3>3
  <2>3. ASSUME Complete("recent"),
               NEW i \in DOMAIN RecentMessages, NEW j \in DOMAIN RecentMessages,
               RecentMessages[i].message_id = RecentMessages[j].message_id
        PROVE  i = j
    <3> DEFINE messages == shown[<<"recent">>]
    <3>1. \A k, l \in DOMAIN messages : messages[k] = messages[l] => k = l
      BY <2>3 DEF Complete, Inv, RecentInv
    <3>2. /\ DOMAIN RecentMessages = DOMAIN messages
          /\ \A k \in DOMAIN messages : RecentMessages[k].message_id = messages[k]
      BY DEF RecentMessages
    <3> QED BY <2>3, <3>1, <3>2
  <2> QED BY <2>1, <2>2, <2>3 DEF CountersNested
<1> QED BY <1>1, InvInductive, PTL

\* The dashboard shows no cache hit that is only a decision stored while it
\* was counting: the ledger lets no message be decided twice, and the decisions
\* are counted before their prompts (webui/queries.rs).
THEOREM NoHitIsMadeUp == Spec => []NoPhantomHits
<1>1. Inv => NoPhantomHits
  <2> SUFFICES ASSUME Inv, Complete("dashboard") PROVE CacheHitRate = 0
    BY DEF NoPhantomHits
  <2>1. Lookups \in DOMAIN shown /\ Prompts \in DOMAIN shown
    BY DEF Complete, Inv, CountingInv, DashboardPlace
  <2>2. /\ shown[Lookups] \in Nat /\ shown[Prompts] \in Nat
        /\ shown[Lookups] <= shown[Prompts]
    BY <2>1 DEF Complete, Inv, CountingInv, DashboardCounts
  <2>3. /\ DashboardStats.llm_cache_lookups = shown[Lookups]
        /\ DashboardStats.llm_cache_hits
             = IF shown[Lookups] > shown[Prompts]
               THEN shown[Lookups] - shown[Prompts] ELSE 0
    BY DEF DashboardStats, Lookups, Prompts
  <2>4. DashboardStats.llm_cache_hits = 0
    BY <2>2, <2>3
  <2>5. CacheHitRate = IF shown[Lookups] = 0 THEN 0 ELSE (0 * 100) \div shown[Lookups]
    BY <2>3, <2>4 DEF CacheHitRate
  <2>6. 0 * 100 = 0
    OBVIOUS
  <2>7. shown[Lookups] # 0 => 0 \div shown[Lookups] = 0
    BY <2>2
  <2> QED BY <2>5, <2>6, <2>7
<1> QED BY <1>1, InvInductive, PTL

\* A page about a message that shows a tag shows every filter and decision of
\* its triage, even read while the message is being recorded: the tags are read
\* first and written last (explain.rs, triage/pipeline.rs).
THEOREM TagsAreExplained == Spec => []TagsExplained
<1>1. Inv => TagsExplained
  <2> SUFFICES ASSUME Inv, Complete("explain"), NEW m \in Processed,
                      "applied_tags" \in DOMAIN MessageExplanation(m),
                      MessageExplanation(m)["applied_tags"] > 0,
                      NEW table \in Reasons
               PROVE  MessageExplanation(m)[table]
                        = Cardinality({i \in DOMAIN rows[m] : rows[m][i] = table})
    BY DEF TagsExplained, Reasons
  <2>1. PICK n \in MessageId : ExplainPlace(n) /\ ReasonsShown(n)
    BY DEF Complete, Inv, ExplainInv
  <2>2. /\ <<"applied_tags", m>> \in DOMAIN shown
        /\ MessageExplanation(m)["applied_tags"] = shown[<<"applied_tags", m>>]
    BY DEF MessageExplanation
  <2>3. todo = <<>>
    BY DEF Complete
  <2>4. /\ m = n
        /\ \A t \in Reasons : <<t, n>> \in DOMAIN shown
    BY <2>1, <2>2, <2>3 DEF ExplainPlace, Reasons
  <2>5. shown[<<table, m>>]
          = Cardinality({i \in DOMAIN rows[m] : rows[m][i] = table})
    BY <2>1, <2>2, <2>4 DEF ReasonsShown
  <2>6. MessageExplanation(m)[table] = shown[<<table, m>>]
    BY <2>4 DEF MessageExplanation, MessageTables, Reasons
  <2> QED BY <2>5, <2>6
<1> QED BY <1>1, InvInductive, PTL

-----------------------------------------------------------------------------
(* The types *)

\* The statements /recent runs for the messages it lists.
Listing(messages) ==
  {<<table, messages[i]>> : table \in {"applied_tags", "executed_actions"},
                            i \in DOMAIN messages}

\* The page reads the newest messages, and then two statements for each.
RecentPlace ==
  report = "recent" =>
    \/ todo = << <<"recent">> >> /\ DOMAIN shown = {}
    \/ /\ <<"recent">> \in DOMAIN shown
       /\ shown[<<"recent">>] \in Seq(MessageId)
       /\ Len(shown[<<"recent">>]) <= RecentLimit
       /\ todo \in Seq(Listing(shown[<<"recent">>]))
       /\ DOMAIN shown \subseteq {<<"recent">>} \cup Listing(shown[<<"recent">>])

\* Nothing is recorded later than now.
StampsPast ==
  /\ clock \in 0..MaxClock
  /\ \A m \in Processed : processed_at[m] <= clock

Opened ==
  /\ opened \subseteq {"daemon", "webui"}
  /\ opened = {} => ledger = <<>> /\ report = "none"
  /\ inHand \in BOOLEAN
  /\ report \in {"none", "dashboard", "status", "recent", "explain"}
  /\ report = "none" => todo = <<>> /\ shown = <<>>

\* Every step leaves the records in the past.
LEMMA StampsStep ==
  ASSUME StampsPast, SidecarInv, [Next]_vars
  PROVE  StampsPast'
<1>1. ASSUME UNCHANGED <<ledger, processed_at>>, clock' \in 0..MaxClock, clock' >= clock
      PROVE  StampsPast'
  <2>1. Processed' = Processed /\ \A m \in Processed : processed_at[m] \in Nat
    BY <1>1 DEF Processed, SidecarInv
  <2> QED BY <1>1, <2>1, ViewsAssumption DEF StampsPast
<1>2. CASE UNCHANGED <<clock, ledger, processed_at>>
  BY <1>1, <1>2, ViewsAssumption DEF StampsPast
<1>3. CASE Tick
  BY <1>1, <1>3, ViewsAssumption DEF Tick, sidecar, StampsPast
<1>4. ASSUME NEW m \in MessageId, NEW t \in Triaged, RecordMessage(m, t)
      PROVE  StampsPast'
  <2>1. /\ ledger' = Append(ledger, m) /\ processed_at' = Put(processed_at, m, clock)
        /\ m \notin DOMAIN processed_at /\ UNCHANGED clock
    BY <1>4 DEF RecordMessage, SidecarInv
  <2>2. Processed' = Processed \cup {m}
    BY <2>1 DEF Processed, ToSet, SidecarInv
  <2>3. /\ \A z \in DOMAIN processed_at : processed_at'[z] = processed_at[z]
        /\ processed_at'[m] = clock
    BY <2>1 DEF Put
  <2>4. DOMAIN processed_at = Processed
    BY DEF SidecarInv
  <2>5. clock <= clock
    BY ViewsAssumption DEF StampsPast
  <2> QED BY <2>1, <2>2, <2>3, <2>4, <2>5 DEF StampsPast
<1>5. CASE Reports \/ UNCHANGED vars
  BY <1>2, <1>5 DEF Reports, Dashboard, Status, Recent, Explain, Page, Ask, Read, vars,
                    sidecar
<1>6. CASE \/ OpenDatabase \/ SpawnWebui \/ LetGo
           \/ RecordDecision \/ RecordMatch \/ RecordTag \/ RecordAction \/ RecordEmission
  BY <1>2, <1>6 DEF OpenDatabase, SpawnWebui, LetGo, RecordDecision, RecordMatch,
                    RecordTag, RecordAction, RecordEmission, InsertRow, sidecar
<1> QED BY <1>3, <1>4, <1>5, <1>6 DEF Next, Daemon

\* Every step keeps who has the sidecar open, and what is asked of it.
LEMMA OpenedStep ==
  ASSUME Opened, [Next]_vars
  PROVE  Opened'
<1> USE DEF Opened
<1>1. CASE OpenDatabase \/ SpawnWebui \/ LetGo \/ UNCHANGED vars
  BY <1>1 DEF OpenDatabase, SpawnWebui, LetGo, vars, sidecar, request
<1>2. CASE Tick
  BY <1>2 DEF Tick, sidecar, request
<1>3. CASE Dashboard \/ Status \/ Recent \/ \E m \in MessageId : Explain(m)
  BY <1>3 DEF Dashboard, Status, Recent, Explain, Page, OpenReadonly, Ask, sidecar
<1>4. CASE Read
  BY <1>4 DEF Read, sidecar
<1>5. ASSUME NEW m \in MessageId, NEW t \in Triaged, RecordMessage(m, t)
      PROVE  Opened'
  BY <1>5 DEF RecordMessage, request
<1>6. CASE RecordDecision \/ RecordMatch \/ RecordTag \/ RecordAction \/ RecordEmission
  BY <1>6 DEF RecordDecision, RecordMatch, RecordTag, RecordAction, RecordEmission,
              InsertRow, request
<1> QED BY <1>1, <1>2, <1>3, <1>4, <1>5, <1>6 DEF Next, Daemon, Reports

\* The list asks for the two statements of each of its messages.
LEMMA DetailsListed ==
  ASSUME NEW messages \in Seq(MessageId)
  PROVE  Details(<<"recent">>, messages) \in Seq(Listing(messages))
<1> DEFINE pairs == [i \in DOMAIN messages |->
                       << <<"applied_tags", messages[i]>>,
                          <<"executed_actions", messages[i]>> >>]
<1>1. Details(<<"recent">>, messages) = FlattenSeq(pairs)
  BY DEF Details
<1>2. \A i \in DOMAIN messages : pairs[i] \in Seq(Listing(messages))
  BY DEF Listing
<1>3. pairs \in Seq(Seq(Listing(messages)))
  <2>1. DOMAIN pairs = 1..Len(messages) /\ Len(messages) \in Nat
    OBVIOUS
  <2>2. pairs = [i \in 1..Len(messages) |-> pairs[i]]
    OBVIOUS
  <2>3. \A i \in 1..Len(messages) : pairs[i] \in Seq(Listing(messages))
    BY <1>2
  <2> HIDE DEF pairs
  <2> QED BY <2>1, <2>2, <2>3
<1> HIDE DEF pairs
<1> QED BY <1>1, <1>3, FlattenPlaces

\* Every step keeps /recent at its place in the list.
LEMMA RecentPlaceStep ==
  ASSUME SidecarInv, RecentPlace, [Next]_vars
  PROVE  RecentPlace'
<1> DEFINE q == <<"recent">>
<1>1. CASE Read /\ report = "recent"
  <2>1. /\ UNCHANGED report /\ todo # <<>>
        /\ shown' = Put(shown, Head(todo), Result(Head(todo)))
        /\ todo' = Details(Head(todo), Result(Head(todo))) \o Tail(todo)
    BY <1>1 DEF Read
  <2>2. CASE todo = <<q>> /\ DOMAIN shown = {}
    <3>1. Head(todo) = q /\ Tail(todo) = <<>> /\ Result(q) = Newest
      BY <2>2 DEF Result, MessageTables
    <3>2. DOMAIN shown' = {q} /\ shown'[q] = Newest
      BY <2>1, <2>2, <3>1 DEF Put
    <3>3. Newest \in Seq(MessageId) /\ Len(Newest) <= RecentLimit
      BY NewestDiffer
    <3>4. todo' \in Seq(Listing(Newest))
      <4>1. Details(q, Newest) \in Seq(Listing(Newest))
        BY <3>3, DetailsListed
      <4>2. Details(q, Newest) \o <<>> = Details(q, Newest)
        BY <4>1
      <4> QED BY <2>1, <3>1, <4>1, <4>2
    <3> QED BY <3>2, <3>3, <3>4 DEF RecentPlace
  <2>3. CASE /\ q \in DOMAIN shown
             /\ shown[q] \in Seq(MessageId)
             /\ Len(shown[q]) <= RecentLimit
             /\ todo \in Seq(Listing(shown[q]))
             /\ DOMAIN shown \subseteq {q} \cup Listing(shown[q])
    <3>1. Head(todo) \in Listing(shown[q]) /\ Tail(todo) \in Seq(Listing(shown[q]))
      BY <2>1, <2>3
    <3>2. Details(Head(todo), Result(Head(todo))) = <<>>
      BY <3>1 DEF Listing, Details
    <3>3. todo' = Tail(todo)
      BY <2>1, <3>1, <3>2
    <3>4. /\ DOMAIN shown' = DOMAIN shown \cup {Head(todo)}
          /\ shown'[q] = shown[q]
      BY <2>1, <2>3 DEF Put
    <3> QED BY <2>3, <3>1, <3>3, <3>4 DEF RecentPlace
  <2> QED BY <1>1, <2>2, <2>3 DEF RecentPlace
<1>2. CASE Read /\ report # "recent"
  BY <1>2 DEF Read, RecentPlace
<1>3. CASE Recent
  BY <1>3 DEF Recent, Page, Ask, RecentPlace
<1>4. CASE Dashboard \/ Status \/ \E m \in MessageId : Explain(m)
  BY <1>4 DEF Dashboard, Status, Explain, Page, Ask, RecentPlace
<1>5. CASE Daemon \/ Tick \/ UNCHANGED vars
  <2>1. UNCHANGED <<report, todo, shown>>
    BY <1>5 DEF Daemon, OpenDatabase, SpawnWebui, RecordMessage, RecordDecision,
                RecordMatch, RecordTag, RecordAction, RecordEmission, InsertRow,
                LetGo, Tick, vars, request
  <2> QED BY <2>1 DEF RecentPlace
<1> QED BY <1>1, <1>2, <1>3, <1>4, <1>5 DEF Next, Reports

\* A list has at most two statements for each of its messages.
LEMMA ListingBounded ==
  ASSUME NEW messages \in Seq(MessageId)
  PROVE  /\ IsFiniteSet(Listing(messages))
         /\ Cardinality(Listing(messages)) <= 2 * Len(messages)
<1> DEFINE tables == {"applied_tags", "executed_actions"}
           places == 1..Len(messages)
           name   == [x \in tables \X places |-> <<x[1], messages[x[2]]>>]
<1>1. Len(messages) \in Nat /\ DOMAIN messages = places
  OBVIOUS
<1>2. /\ IsFiniteSet(places) /\ Cardinality(places) = Len(messages)
  <2>1. /\ IsFiniteSet(1..Len(messages))
        /\ Cardinality(1..Len(messages))
             = IF 1 > Len(messages) THEN 0 ELSE Len(messages) - 1 + 1
    BY <1>1, FS_Interval
  <2> QED BY <1>1, <2>1
<1>3. IsFiniteSet(tables) /\ Cardinality(tables) = 2
  <2>1. /\ IsFiniteSet({"applied_tags"}) /\ Cardinality({"applied_tags"}) = 1
    BY FS_Singleton
  <2>2. tables = {"applied_tags"} \cup {"executed_actions"}
    OBVIOUS
  <2>3. /\ IsFiniteSet(tables)
        /\ Cardinality(tables) = Cardinality({"applied_tags"}) + 1
    BY <2>1, <2>2, FS_AddElement
  <2> QED BY <2>1, <2>3
<1>4. /\ IsFiniteSet(tables \X places)
      /\ Cardinality(tables \X places) = 2 * Len(messages)
  <2>1. IsFiniteSet(tables) /\ IsFiniteSet(places)
    BY <1>2, <1>3
  <2>2. /\ IsFiniteSet(tables \X places)
        /\ Cardinality(tables \X places) = Cardinality(tables) * Cardinality(places)
    BY <2>1, FS_Product
  <2> QED BY <1>2, <1>3, <2>2
<1>5. name \in Surjection(tables \X places, Listing(messages))
  <2>1. \A x \in tables \X places : name[x] \in Listing(messages)
    BY <1>1 DEF Listing
  <2>2. ASSUME NEW y \in Listing(messages)
        PROVE  \E x \in tables \X places : name[x] = y
    <3>1. PICK table \in tables, i \in places : y = <<table, messages[i]>>
      BY <1>1 DEF Listing
    <3>2. <<table, i>> \in tables \X places /\ name[<<table, i>>] = y
      BY <3>1
    <3> QED BY <3>2
  <2> HIDE DEF name, tables, places
  <2>3. name \in [tables \X places -> Listing(messages)]
    BY <2>1 DEF name
  <2> QED BY <2>2, <2>3 DEF Surjection
<1> HIDE DEF name, tables, places
<1> QED BY <1>4, <1>5, FS_Surjection

\* The sidecar's tables name the same messages, no report is asked of a
\* sidecar nobody has opened, and /recent lists at most RECENT_LIMIT messages
\* (db/mod.rs, webui/queries.rs).
THEOREM TypeCorrect == Spec => []TypeOK
<1>1. Init => StampsPast /\ Opened /\ RecentPlace
  <2> SUFFICES ASSUME Init PROVE StampsPast /\ Opened /\ RecentPlace
    OBVIOUS
  <2>1. Processed = {}
    BY DEF Init, Processed, ToSet
  <2>2. report = "none" /\ clock = 0 /\ 0 \in 0..MaxClock
    BY ViewsAssumption DEF Init
  <2> QED BY <2>1, <2>2 DEF Init, StampsPast, Opened, RecentPlace
<1>2. Inv /\ StampsPast /\ Opened /\ RecentPlace /\ [Next]_vars => StampsPast' /\ Opened' /\ RecentPlace'
  BY StampsStep, OpenedStep, RecentPlaceStep DEF Inv
<1>3. Inv /\ StampsPast /\ Opened /\ RecentPlace => TypeOK
  <2> SUFFICES ASSUME Inv, StampsPast, Opened, RecentPlace PROVE TypeOK
    OBVIOUS
  <2>1. SidecarInv
    BY DEF Inv
  <2>2. since \in 0..clock /\ ledger \in Seq(MessageId) /\ IsInjective(ledger)
    BY <2>1 DEF SidecarInv, IsInjective
  <2>3. \A m \in Processed : processed_at[m] \in 0..clock
    BY <2>1 DEF SidecarInv, StampsPast
  <2>4. ASSUME Complete("recent")
        PROVE  /\ Len(RecentMessages) <= RecentLimit
               /\ Cardinality({x \in DOMAIN shown : x[1] \in MessageTables})
                    <= 2 * RecentLimit
    <3> DEFINE messages == shown[<<"recent">>]
               read     == {x \in DOMAIN shown : x[1] \in MessageTables}
    <3>1. /\ messages \in Seq(MessageId) /\ Len(messages) <= RecentLimit
          /\ DOMAIN shown \subseteq {<<"recent">>} \cup Listing(messages)
      BY <2>4 DEF Complete, RecentPlace
    <3>2. Len(RecentMessages) = Len(messages)
      BY <3>1 DEF RecentMessages
    <3>3. read \subseteq Listing(messages)
      BY <3>1 DEF MessageTables
    <3> HIDE DEF messages, read
    <3>4. IsFiniteSet(Listing(messages))
            /\ Cardinality(Listing(messages)) <= 2 * Len(messages)
      BY <3>1, ListingBounded
    <3>5. IsFiniteSet(read) /\ Cardinality(read) <= Cardinality(Listing(messages))
      BY <3>3, <3>4, FS_Subset
    <3>6. Cardinality(read) \in Nat /\ Cardinality(Listing(messages)) \in Nat
      BY <3>4, <3>5, FS_CardinalityType
    <3>7. Cardinality(read) <= 2 * RecentLimit
      BY <3>1, <3>4, <3>5, <3>6, ViewsAssumption
    <3> QED BY <3>1, <3>2, <3>7 DEF read
  <2> QED BY <2>1, <2>2, <2>3, <2>4 DEF TypeOK, StampsPast, Opened, SidecarInv
<1> QED BY <1>1, <1>2, <1>3, InvInductive, PTL DEF Spec
=============================================================================
