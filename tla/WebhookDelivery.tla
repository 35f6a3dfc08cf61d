--------------------------- MODULE WebhookDelivery ---------------------------
(***************************************************************************)
(* WebhookEmitter::emit for one webhook: render the event, POST it, retry  *)
(* with backoff, record the emission.  The consumer is another machine: a  *)
(* request can be lost, be answered, be answered too late (after the 30 s  *)
(* timeout, so that the retry overtakes it), or be accepted and its answer *)
(* lost.  The webhook's configuration is chosen at the start and never     *)
(* changes.                                                                *)
(***************************************************************************)
EXTENDS WebhookPayload, FiniteSets

CONSTANTS None,
          MaxAttempts,  \* the values retry.max_attempts may have
          Status,       \* the statuses a consumer answers with
          Events,       \* [context, now] of the messages announced
          MayCrash,     \* whether the daemon may crash
          MayFailToSave \* whether the sidecar write may fail

ASSUME DeliveryAssumption ==
  /\ MaxAttempts \subseteq Nat
  /\ Status \subseteq 100..599
  /\ None \notin Int
  /\ {MayCrash, MayFailToSave} \subseteq BOOLEAN

\* What is announced has dates and a From.
ASSUME EventsAssumption ==
  \A e \in Events : /\ e.now \in [day : Int, ms : Int]
                    /\ e.context.envelope.date \in [day : Int, ms : Int]
                    /\ e.context.envelope.from \in Seq(STRING)

\* None is neither a payload nor a report.
ASSUME NoneIsNone ==
  /\ \A e \in Events : Build(e.context, e.now) # None
  /\ None \notin [http_status : Status \cup {None, 0}, attempts : Nat,
                  succeeded : BOOLEAN]

VARIABLES webhook,     \* the configuration: retry.max_attempts, whether the
                       \*  backoff is exponential, whether `method` is HTTP's
                       \*  and the template renders
          event,       \* what is announced
          body,        \* the payload, once rendered, or None
          pc,          \* "render", "post", "wait", "backoff", "record" or "end"
          attempt,     \* the attempt under way, from 1
          last_status, \* status of the last retryable failure
          waits,       \* seconds slept after each attempt
          report,      \* DeliveryReport, or None
          row,         \* the webhook_emissions row, or None
          inflight,    \* the attempts whose request is on its way
          accepted,    \* the attempts the consumer answered 2xx
          reply,       \* the answer to the attempt under way, or None
          sent         \* history: requests sent

daemon   == <<webhook, event, body, attempt, last_status, waits, report, row>>
consumer == <<inflight, accepted, reply>>
vars     == <<pc, daemon, consumer, sent>>

\* `retry.max_attempts.max(1)`
Budget == IF webhook.max_attempts = 0 THEN 1 ELSE webhook.max_attempts

IsSuccess(s)   == s \in 200..299
IsRetryable(s) == s \in 500..599 \/ s = 429

\* Seconds to sleep after attempt n, before the next: 4^(n-1), at most 4^10.
BackoffDelay(n) ==
  IF webhook.exponential THEN 4 ^ (IF n - 1 < 10 THEN n - 1 ELSE 10) ELSE 1

Report(status, attempts, succeeded) ==
  [http_status |-> status, attempts |-> attempts, succeeded |-> succeeded]

Init ==
  /\ webhook \in [max_attempts : MaxAttempts, exponential : BOOLEAN,
                  valid_method : BOOLEAN, renders : BOOLEAN]
  /\ event \in Events /\ body = None
  /\ pc = "render" /\ attempt = 1 /\ last_status = None /\ waits = <<>>
  /\ report = None /\ row = None
  /\ inflight = {} /\ accepted = {} /\ reply = None /\ sent = 0

-----------------------------------------------------------------------------
(* emit, deliver *)

\* A template that does not render fails before anything is sent or recorded.
Render ==
  /\ pc = "render"
  /\ IF webhook.renders
     THEN pc' = "post" /\ body' = Build(event.context, event.now)
     ELSE pc' = "end" /\ UNCHANGED body
  /\ UNCHANGED <<webhook, event, attempt, last_status, waits, report, row, consumer,
                 sent>>

Conclude(r) ==
  /\ pc' = "record" /\ report' = r
  /\ UNCHANGED <<webhook, event, body, attempt, last_status, waits, row>>

\* An invalid method fails before anything is sent.
Post ==
  /\ pc = "post"
  /\ IF webhook.valid_method
     THEN /\ pc' = "wait" /\ inflight' = inflight \cup {attempt}
          /\ sent' = sent + 1
          /\ UNCHANGED daemon
     ELSE /\ Conclude(Report(0, attempt, FALSE))
          /\ UNCHANGED <<inflight, sent>>
  /\ reply' = None
  /\ UNCHANGED accepted

\* Mutant: one attempt too many.
RetryableTooOften(status) ==
  /\ last_status' = status
  /\ IF attempt <= Budget
     THEN /\ pc' = "backoff" /\ waits' = Append(waits, BackoffDelay(attempt))
          /\ UNCHANGED report
     ELSE /\ pc' = "record" /\ report' = Report(status, attempt, FALSE)
          /\ UNCHANGED waits
  /\ UNCHANGED <<webhook, event, body, attempt, row, consumer, sent>>

\* Mutant: sleeps after the last attempt too.
RetryableSleepsLast(status) ==
  /\ last_status' = status
  /\ waits' = Append(waits, BackoffDelay(attempt))
  /\ IF attempt < Budget
     THEN pc' = "backoff" /\ UNCHANGED report
     ELSE pc' = "record" /\ report' = Report(status, attempt, FALSE)
  /\ UNCHANGED <<webhook, event, body, attempt, row, consumer, sent>>

\* A transient failure: sleep, then try again, or give up.
Retryable(status) ==
  /\ last_status' = status
  /\ IF attempt < Budget
     THEN /\ pc' = "backoff" /\ waits' = Append(waits, BackoffDelay(attempt))
          /\ UNCHANGED report
     ELSE /\ pc' = "record" /\ report' = Report(status, attempt, FALSE)
          /\ UNCHANGED waits
  /\ UNCHANGED <<webhook, event, body, attempt, row, consumer, sent>>

\* Mutant: anything below 400 counts as success.
AnsweredBelow400 ==
  /\ pc = "wait" /\ reply # None
  /\ \/ /\ reply < 400
        /\ Conclude(Report(reply, attempt, TRUE))
        /\ UNCHANGED <<consumer, sent>>
     \/ /\ reply >= 400 /\ ~IsRetryable(reply)
        /\ Conclude(Report(reply, attempt, FALSE))
        /\ UNCHANGED <<consumer, sent>>
     \/ IsRetryable(reply) /\ Retryable(reply)

Answered ==
  /\ pc = "wait" /\ reply # None
  /\ \/ /\ IsSuccess(reply)
        /\ Conclude(Report(reply, attempt, TRUE))
        /\ UNCHANGED <<consumer, sent>>
     \/ /\ ~IsSuccess(reply) /\ ~IsRetryable(reply)
        /\ Conclude(Report(reply, attempt, FALSE))
        /\ UNCHANGED <<consumer, sent>>
     \/ IsRetryable(reply) /\ Retryable(reply)

\* Mutant: the client has no timeout, and waits for an answer.
TransportErrorNoTimeout ==
  /\ pc = "wait" /\ reply # None
  /\ Retryable(None)

\* No answer in time, whatever became of the request.
TransportError ==
  /\ pc = "wait"
  /\ Retryable(None)

BackoffEnds ==
  /\ pc = "backoff"
  /\ pc' = "post" /\ attempt' = attempt + 1
  /\ UNCHANGED <<webhook, event, body, last_status, waits, report, row, consumer,
                 sent>>

\* The row is written, or the write fails and emit returns Err.
Record ==
  /\ pc = "record" /\ pc' = "end"
  /\ \/ row' = report
     \/ MayFailToSave /\ UNCHANGED row
  /\ UNCHANGED <<webhook, event, body, attempt, last_status, waits, report, consumer,
                 sent>>

Crash ==
  /\ MayCrash /\ pc # "end"
  /\ pc' = "end"
  /\ UNCHANGED <<daemon, consumer, sent>>

-----------------------------------------------------------------------------
(* The network and the consumer *)

RequestLost(n) ==
  /\ inflight' = inflight \ {n}
  /\ UNCHANGED <<pc, daemon, accepted, reply, sent>>

\* The consumer handles a request; its answer counts if it is still awaited.
Handle(n, s) ==
  /\ inflight' = inflight \ {n}
  /\ accepted' = IF IsSuccess(s) THEN accepted \cup {n} ELSE accepted
  /\ reply' = IF pc = "wait" /\ n = attempt THEN s ELSE reply
  /\ UNCHANGED <<pc, daemon, sent>>

Deliver == Render \/ Post \/ Answered \/ TransportError \/ BackoffEnds \/ Record

Consumer ==
  \E n \in inflight : RequestLost(n) \/ \E s \in Status : Handle(n, s)

Next == Deliver \/ Consumer \/ Crash

Spec == Init /\ [][Next]_vars

FairSpec == Spec /\ WF_vars(Deliver)

-----------------------------------------------------------------------------
(* Properties *)

TypeOK ==
  /\ pc \in {"render", "post", "wait", "backoff", "record", "end"}
  /\ pc \in {"post", "wait", "backoff", "record"} => body # None
  /\ attempt \in 1..Budget
  /\ last_status \in Status \cup {None}
  /\ waits \in Seq(Nat)
  /\ report \in [http_status : Status \cup {None, 0}, attempts : 1..Budget,
                 succeeded : BOOLEAN] \cup {None}
  /\ row \in {None, report}
  /\ inflight \subseteq 1..Budget /\ accepted \subseteq 1..Budget
  /\ reply \in Status \cup {None}
  /\ sent \in 0..Budget

\* A report of success means the consumer did accept the attempt it names,
\* and only a 2xx is success, however late answers and retries overtook each
\* other.
SuccessIsReal ==
  report # None /\ report.succeeded =>
    IsSuccess(report.http_status) /\ report.attempts \in accepted

\* What is audited is the whole truth about the last attempt: a failure is
\* reported either at once on a permanent answer or with the budget used up,
\* with a sleep before every attempt but the first and none after the last.
FailureUsedBudget ==
  report # None =>
    /\ Len(waits) = report.attempts - 1
    /\ ~report.succeeded /\ (report.http_status = None \/ IsRetryable(report.http_status))
         => report.attempts = Budget
    /\ \A i \in DOMAIN waits : waits[i] = BackoffDelay(i)

\* The delivery ends, whatever the consumer does: it blocks the triage loop
\* for a bounded number of attempts and sleeps.
DeliveryEnds == <>(pc = "end")

\* What is announced is true of the message: its dates exist and are those of
\* the instants, also before the epoch and around the leap days of centuries;
\* its sender is the address the native filters tagged it by, unless the From
\* has a second ">" or quotes an address that is not in brackets.
EventIsTrue ==
  body # None =>
    LET envelope == event.context.envelope
        sender   == body.message.from.email
        closing  == {i \in DOMAIN envelope.from : envelope.from[i] = ">"}
    IN /\ Stamps(body.timestamp, event.now)
       /\ Stamps(body.message.date, envelope.date)
       /\ \/ sender = FilterAddress(envelope.from)
          \/ Cardinality(closing) > 1
          \/ Contains(FilterAddress(envelope.from), "quote")

Contract == INSTANCE DeliveryContract WITH
  budget   <- Budget,
  attempts <- sent,
  accepted <- Cardinality(accepted),
  verdict  <- CASE report = None /\ pc # "end" -> "none"
                [] report = None /\ pc = "end" -> "lost"
                [] report # None -> IF report.succeeded THEN "succeeded"
                                    ELSE "failed"

\* The retry loop keeps the delivery contract.
ImplementsContract == Contract!Spec
=============================================================================
