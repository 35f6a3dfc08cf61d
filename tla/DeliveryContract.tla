-------------------------- MODULE DeliveryContract --------------------------
(***************************************************************************)
(* What the delivery of one webhook promises: it is attempted a bounded    *)
(* number of times, the consumer accepts the event no more often than it   *)
(* is attempted, and the verdict is given once: "succeeded" only when the  *)
(* consumer has accepted the event.  A delivery can also be lost, with     *)
(* the process, before any verdict.                                        *)
(***************************************************************************)
EXTENDS Naturals

VARIABLES budget,   \* attempts allowed, fixed at the outset
          attempts, \* attempts begun
          accepted, \* times the consumer accepted the event
          verdict   \* "none", "succeeded", "failed" or "lost"

contractVars == <<budget, attempts, accepted, verdict>>

Init ==
  /\ budget \in Nat \ {0}
  /\ attempts = 0 /\ accepted = 0 /\ verdict = "none"

Try ==
  /\ verdict = "none" /\ attempts < budget
  /\ attempts' = attempts + 1
  /\ UNCHANGED <<budget, accepted, verdict>>

\* A request still on its way can be accepted after the verdict.
Accept ==
  /\ accepted < attempts
  /\ accepted' = accepted + 1
  /\ UNCHANGED <<budget, attempts, verdict>>

Conclude ==
  /\ verdict = "none"
  /\ \/ verdict' = "succeeded" /\ accepted > 0
     \/ verdict' \in {"failed", "lost"}
  /\ UNCHANGED <<budget, attempts, accepted>>

Next == Try \/ Accept \/ Conclude

Spec == Init /\ [][Next]_contractVars
=============================================================================
