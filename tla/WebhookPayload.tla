--------------------------- MODULE WebhookPayload ---------------------------
(***************************************************************************)
(* The canonical event of webhooks/payload.rs.  TLC's integers have 32     *)
(* bits: the instant of d * 86,400,000 + r milliseconds since the epoch is *)
(* [day |-> d, ms |-> r], r being any integer.                             *)
(***************************************************************************)
EXTENDS Addresses

\* Mutant: the last day of an era falls into a year of its own.
CivilFromDaysLongEra(days) ==
  LET z   == days + 719468
      era == z \div 146097
      doe == z % 146097
      yoe == (doe - doe \div 1460 + doe \div 36524) \div 365
      doy == doe - (365 * yoe + yoe \div 4 - yoe \div 100)
      mp  == (5 * doy + 2) \div 153
      month == IF mp < 10 THEN mp + 3 ELSE mp - 9
  IN [year  |-> yoe + era * 400 + (IF month <= 2 THEN 1 ELSE 0),
      month |-> month,
      day   |-> doy - (153 * mp + 2) \div 5 + 1]

\* In a year that begins on 1 March, of an era of 400 years.
CivilFromDays(days) ==
  LET z   == days + 719468
      era == z \div 146097
      doe == z % 146097
      yoe == (doe - doe \div 1460 + doe \div 36524 - doe \div 146096) \div 365
      doy == doe - (365 * yoe + yoe \div 4 - yoe \div 100)
      mp  == (5 * doy + 2) \div 153
      month == IF mp < 10 THEN mp + 3 ELSE mp - 9
  IN [year  |-> yoe + era * 400 + (IF month <= 2 THEN 1 ELSE 0),
      month |-> month,
      day   |-> doy - (153 * mp + 2) \div 5 + 1]

\* The fields of YYYY-MM-DDTHH:MM:SSZ.
EpochMsToRfc3339(instant) ==
  LET secs        == instant.ms \div 1000
      secs_of_day == secs % 86400
  IN [date   |-> CivilFromDays(instant.day + secs \div 86400),
      hour   |-> secs_of_day \div 3600,
      minute |-> (secs_of_day % 3600) \div 60,
      second |-> secs_of_day % 60]

\* Bytes that are no message have no bodies and no attachments.
ExtractBodies(eml) ==
  IF eml.parses THEN [text |-> eml.text, html |-> eml.html,
                      has_attachments |-> eml.attachments > 0]
  ELSE [text |-> "", html |-> "", has_attachments |-> FALSE]

\* The base's trailing slashes are dropped.
BichonMessageUri(base, id) == <<base.url, id>>

\* WebhookPayload::build, of [envelope, eml, tags, classification, base];
\* what fired the tags is the tags.
Build(context, timestamp) ==
  LET envelope == context.envelope
  IN [timestamp       |-> EpochMsToRfc3339(timestamp),
      account         |-> envelope.account_email,
      tags            |-> context.tags,
      filters_matched |-> context.tags,
      message |-> [id     |-> envelope.message_id,
                   from   |-> ParseAddress(envelope.from),
                   to     |-> [i \in DOMAIN envelope.to |-> ParseAddress(envelope.to[i])],
                   date   |-> EpochMsToRfc3339(envelope.date),
                   bodies |-> ExtractBodies(context.eml)],
      classification     |-> context.classification,
      bichon_message_uri |-> BichonMessageUri(context.base, envelope.id)]

-----------------------------------------------------------------------------
(* The Gregorian calendar *)

IsLeap(year) == year % 4 = 0 /\ (year % 100 = 0 => year % 400 = 0)

MonthLength(year, month) ==
  IF month = 2 THEN IF IsLeap(year) THEN 29 ELSE 28
  ELSE IF month \in {4, 6, 9, 11} THEN 30 ELSE 31

\* Leap years from year 1 up to the year before.
LeapsBefore(year) ==
  (year - 1) \div 4 - (year - 1) \div 100 + (year - 1) \div 400

DaysBeforeMonth(year, month) ==
  << 0, 31, 59, 90, 120, 151, 181, 212, 243, 273, 304, 334 >>[month]
    + (IF month > 2 /\ IsLeap(year) THEN 1 ELSE 0)

IsCivil(date) ==
  /\ date.month \in 1..12
  /\ date.day \in 1..MonthLength(date.year, date.month)

DayNumber(date) ==
  365 * (date.year - 1970) + LeapsBefore(date.year) - LeapsBefore(1970)
    + DaysBeforeMonth(date.year, date.month) + date.day - 1

\* A stamp is of an instant: a day and a time that exist, the second it is in.
Stamps(stamp, instant) ==
  /\ IsCivil(stamp.date)
  /\ stamp.hour \in 0..23 /\ stamp.minute \in 0..59 /\ stamp.second \in 0..59
  /\ LET seconds == 86400 * (DayNumber(stamp.date) - instant.day)
                      + 3600 * stamp.hour + 60 * stamp.minute + stamp.second
     IN 1000 * seconds <= instant.ms /\ instant.ms < 1000 * seconds + 1000
=============================================================================
