-------------------------- MODULE MCWebhookDelivery --------------------------
(* Deliveries of messages whose dates and senders are hard to render.       *)
EXTENDS WebhookDelivery

\* Days since the epoch of 29 February 1600, 2000 and 2024, 28 February 1900,
\* 1 March 2100, New Year's Eve 1969, and 1 January of year 0.
Days == {-135081, 11016, 19782, -25510, 47541, -1, -719528}

\* Milliseconds: within the day, the last one, the one before the epoch's.
Milliseconds == {-1, 0, 30599999, 86399999}

Bare  == <<"bob", "@", "x">>
Froms == { Bare,
           <<"quote", "Clair", "quote", "<">> \o Bare \o <<">">>,
           <<"<">> \o Bare \o <<">", "<", "ann", "@", "y", ">">>,
           <<"Name", "<">> \o Bare \o <<">", ">">>,
           <<"quote">> \o Bare \o <<"quote">>,
           <<"Name", "<">> \o Bare }

Context(from, date) ==
  [envelope |-> [id |-> "id", message_id |-> "message", account_email |-> "",
                 from |-> from, to |-> <<Bare>>, date |-> date],
   eml  |-> [parses |-> FALSE],
   tags |-> <<"t">>, classification |-> None, base |-> [url |-> "bichon"]]

\* A sender for each date, a date for each sender.
MCEvents ==
  LET now     == [day |-> 20592, ms |-> 0]
      epoch   == [day |-> 0, ms |-> 0]
      dated   == {[day |-> d, ms |-> r] : d \in Days, r \in Milliseconds}
  IN {[context |-> Context(Bare, date), now |-> now] : date \in dated}
       \cup {[context |-> Context(from, epoch), now |-> now] : from \in Froms}
=============================================================================
