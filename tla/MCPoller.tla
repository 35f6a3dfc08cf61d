------------------------------ MODULE MCPoller ------------------------------
(***************************************************************************)
(* Instances of Poller for TLC.  Names of messages are "m<i>".             *)
(***************************************************************************)
EXTENDS Poller

CONSTANTS m1, m2, m3, m4

Inbox  == <<"INBOX">>
Filed  == <<"INBOX", "Berger", "junk">>

\* m1 is history (none of it within the margin), m2 and m3 current mail, m4 in a
\* Berger folder and more than the margin later than m2.
MCDateOf  == [m \in Message |-> CASE m = m1 -> -3 [] m = m2 -> 1
                                  [] m = m3 -> 2 [] m = m4 -> 4]
MCMailbox == [m \in Message |-> IF m = m4 THEN Filed ELSE Inbox]

\* m2 bears a date far beyond its arrival.
FutureDateOf == [m \in Message |-> IF m = m2 THEN 9 ELSE 1]
=============================================================================
