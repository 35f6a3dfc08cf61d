------------------------------ MODULE Addresses ------------------------------
(***************************************************************************)
(* The three readings of a From, To or Cc value: the native filters', the  *)
(* scan's and the webhook payload's.  A value is a sequence of words and   *)
(* of the tokens "<", ">", "@" and "quote".                                *)
(***************************************************************************)
EXTENDS Integers, Sequences, SequencesExt

LastOf(s, token)  == SelectLastInSeq(s, LAMBDA t : t = token)
FirstOf(s, token) == SelectInSeq(s, LAMBDA t : t = token)

Between(s, open, close) ==
  IF open # 0 /\ close # 0 /\ open < close THEN SubSeq(s, open + 1, close - 1)
                                           ELSE s

LocalPart(address) == SubSeq(address, 1, LastOf(address, "@") - 1)
DomainOf(address)  == SubSeq(address, LastOf(address, "@") + 1, Len(address))

IsAddress(address) ==
  LastOf(address, "@") # 0 /\ LocalPart(address) # <<>> /\ DomainOf(address) # <<>>

\* The native filters' reading: between the last "<" and the last ">".
FilterAddress(raw) == Between(raw, LastOf(raw, "<"), LastOf(raw, ">"))

\* The scan's: between the first "<" and the first ">".
ScanAddress(raw) == Between(raw, FirstOf(raw, "<"), FirstOf(raw, ">"))

TrimQuotes(s) ==
  LET kept == {i \in DOMAIN s : s[i] # "quote"}
  IN IF kept = {} THEN <<>>
     ELSE SubSeq(s, CHOOSE i \in kept : \A j \in kept : i <= j,
                    CHOOSE i \in kept : \A j \in kept : i >= j)

\* The payload's: between the last "<" and the first ">" after it.
ParseAddress(raw) ==
  LET open  == LastOf(raw, "<")
      close == open - 1 + FirstOf(SubSeq(raw, open, Len(raw)), ">")
  IN IF open # 0 /\ close > open
     THEN [name  |-> TrimQuotes(SubSeq(raw, 1, open - 1)),
           email |-> SubSeq(raw, open + 1, close - 1)]
     ELSE [name |-> <<>>, email |-> TrimQuotes(raw)]
=============================================================================
