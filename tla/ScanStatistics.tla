---------------------------- MODULE ScanStatistics ----------------------------
(***************************************************************************)
(* The dimensions of a scan that are only reported: senders and domains,   *)
(* phrases in subjects, languages, and the hours mail comes at.  `inbox`   *)
(* is a sequence of envelopes; a subject is a sequence of words.           *)
(***************************************************************************)
EXTENDS Integers, FiniteSetsExt, Addresses, Selection

CONSTANTS Top,          \* TOP_SENDERS, TOP_DOMAINS, TOP_NGRAMS, ...
          Dropped,      \* the words shorter than MIN_TOKEN_LEN, and STOPWORDS
          Language,     \* [subject -> its language, or "unknown"]: whatlang
          SampleFloor,  \* SAMPLE_FLOOR
          SampleShare,  \* one subject of this many is tried beyond the floor
          HourLength,   \* an hour, in the unit of Date:
          HoursPerDay

-----------------------------------------------------------------------------
Tally(messages, Counted(_)) ==
  Cardinality({i \in DOMAIN messages : Counted(messages[i])})

\* The busiest of the things counted, as many as Top; how ties break is left
\* open.
Busiest(counts) ==
  CHOOSE kept \in SUBSET DOMAIN counts :
    /\ Cardinality(kept) = Min({Top, Cardinality(DOMAIN counts)})
    /\ \A k \in kept, t \in DOMAIN counts \ kept : counts[k] >= counts[t]

-----------------------------------------------------------------------------
(* Senders *)

SendersOf(inbox) == [i \in DOMAIN inbox |-> ScanAddress(inbox[i].from)]

CountFrom(inbox) ==
  LET senders == SendersOf(inbox)
  IN [a \in {s \in ToSet(senders) : IsAddress(s)} |->
        Tally(senders, LAMBDA s : s = a)]

TopSenders(inbox) ==
  LET counts == CountFrom(inbox)
  IN {[address |-> a, messages_received |-> counts[a]] :
        a \in Busiest(counts)}

TopDomains(inbox) ==
  LET senders == SendersOf(inbox)
      counts  == [d \in {DomainOf(s) : s \in DOMAIN CountFrom(inbox)} |->
                    Tally(senders, LAMBDA s : IsAddress(s) /\ DomainOf(s) = d)]
  IN {[domain |-> d, messages_received |-> counts[d]] : d \in Busiest(counts)}

-----------------------------------------------------------------------------
(* Subjects *)

CleanTokens(subject) == Pick(subject, {i \in DOMAIN subject : subject[i] \notin Dropped})

Windows(tokens, size) ==
  [i \in 1..(Len(tokens) - size + 1) |-> SubSeq(tokens, i, i + size - 1)]

PhrasesOf(subject) ==
  LET tokens == CleanTokens(subject) IN Windows(tokens, 2) \o Windows(tokens, 3)

TopSubjectNgrams(inbox) ==
  LET phrases == FlattenSeq([i \in DOMAIN inbox |-> PhrasesOf(inbox[i].subject)])
      counts  == [p \in ToSet(phrases) |-> Tally(phrases, LAMBDA q : q = p)]
  IN {[phrase |-> p, occurrences |-> counts[p]] : p \in Busiest(counts)}

-----------------------------------------------------------------------------
(* Languages *)

\* The positions of the subjects tried.
Sample(size) ==
  LET target == IF size <= SampleFloor THEN size
                ELSE Max({size \div SampleShare, SampleFloor})
      stride == size \div target
  IN {i \in 1..size : (i - 1) % stride = 0}

\* A share is a numerator and its denominator.
DetectLanguages(inbox) ==
  LET found == {i \in Sample(Len(inbox)) : Language[inbox[i].subject] # "unknown"}
  IN {[language |-> l,
       share |-> <<Cardinality({i \in found : Language[inbox[i].subject] = l}),
                   Cardinality(found)>>] : l \in {Language[inbox[i].subject] : i \in found}}

-----------------------------------------------------------------------------
(* Volume *)

\* Integer division as the machine does it: towards zero.
Quotient(a, b) == IF a >= 0 THEN a \div b ELSE -((-a) \div b)

\* Mutant: the machine's remainder, negative for negative dates.
HourOfTruncated(date) ==
  LET hours == Quotient(date, HourLength)
  IN  hours - HoursPerDay * Quotient(hours, HoursPerDay)

HourOf(date) == Quotient(date, HourLength) % HoursPerDay

AnalyzeVolume(inbox) ==
  LET hourly == [hour \in 0..HoursPerDay - 1 |->
                   Tally(inbox, LAMBDA envelope : HourOf(envelope.date) = hour)]
      busiest == Min({h \in DOMAIN hourly :
                        \A g \in DOMAIN hourly : hourly[h] >= hourly[g]})
  IN [hourly |-> hourly, busiest_hour |-> busiest,
      peak_hour_messages |-> hourly[busiest]]
=============================================================================
