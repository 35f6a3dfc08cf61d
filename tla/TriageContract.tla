--------------------------- MODULE TriageContract ---------------------------
(***************************************************************************)
(* What triage promises of each Message-ID, with everything about how      *)
(* left out: at most one message is in hand; it is acted upon only while   *)
(* it is unrecorded; it is recorded once; its webhooks are POSTed only     *)
(* once the recording is complete, by the pass that recorded it, and each  *)
(* at most once.  A pass may be cut short at any point.                    *)
(***************************************************************************)
CONSTANTS MessageId, Webhook, None

VARIABLES recorded, \* the Message-IDs in the ledger
          open,     \* the Message-ID in hand, or None
          phase,    \* "idle", "acting", "recording" or "announcing"
          fired     \* the <<Message-ID, webhook>> pairs POSTed

contractVars == <<recorded, open, phase, fired>>

Init ==
  /\ recorded = {} /\ fired = {}
  /\ open = None /\ phase = "idle"

Take(m) ==
  /\ phase = "idle" /\ m \notin recorded
  /\ open' = m /\ phase' = "acting"
  /\ UNCHANGED <<recorded, fired>>

Record ==
  /\ phase = "acting"
  /\ recorded' = recorded \cup {open} /\ phase' = "recording"
  /\ UNCHANGED <<open, fired>>

Complete ==
  /\ phase = "recording" /\ phase' = "announcing"
  /\ UNCHANGED <<recorded, open, fired>>

Fire(w) ==
  /\ phase = "announcing" /\ <<open, w>> \notin fired
  /\ fired' = fired \cup {<<open, w>>}
  /\ UNCHANGED <<recorded, open, phase>>

\* The message is let go of: done with, failed, or lost with the process.
Close ==
  /\ phase # "idle"
  /\ open' = None /\ phase' = "idle"
  /\ UNCHANGED <<recorded, fired>>

Next ==
  \/ \E m \in MessageId : Take(m)
  \/ Record \/ Complete \/ Close
  \/ \E w \in Webhook : Fire(w)

Spec == Init /\ [][Next]_contractVars
=============================================================================
