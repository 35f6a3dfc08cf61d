------------------------------- MODULE Triage -------------------------------
(***************************************************************************)
(* The triage daemon: one account's poll cycles, each message run through  *)
(* Pipeline::process, and the sidecar it is recorded in.                   *)
(*                                                                         *)
(* The sidecar autocommits every insert, so a crash or an error can fall   *)
(* between any two of them, and between an IMAP command and the insert     *)
(* that remembers it.  Bichon's index lags the mailbox.  A poll returns    *)
(* every indexed INBOX message (the watermark is module Poller's).         *)
(***************************************************************************)
EXTENDS Writeback, Classifier

CONSTANTS MessageId, IdOf,   \* IdOf[e]: the Message-ID header of message e
          Filters, Actions,  \* the configuration (see TagPlan)
          Webhook, Webhooks, \* webhook names; Webhooks[w]: its `when` filter
          UseLlm,            \* an `llm:` section is configured
          Answer,            \* what the model may answer (see Classifier)
          MaxFaults,         \* bound: errors returned to the daemon
          MaxCrashes         \* bound: crashes of the daemon

ASSUME IdAssumption ==
  /\ IdOf \in [Envelope -> MessageId]
  /\ None \notin Envelope
  /\ None \notin MessageId
  /\ None \notin Answer
  /\ None \notin Webhook
  /\ IsFiniteSet(Envelope)

ASSUME ConfigAssumption ==
  /\ Filters \in Seq(ToSet(Filters))
  /\ IsSection(Actions, Folder) /\ None \notin Folder
  /\ DOMAIN Webhooks \subseteq Webhook
  /\ UseLlm \in BOOLEAN

\* The choices of a chat completion are listed, and each is a list of tokens.
ASSUME AnswerAssumption ==
  \A a \in Answer : a.choices # None =>
    /\ a.choices \in Seq(ToSet(a.choices))
    /\ \A reply \in ToSet(a.choices) : reply \in Seq(ToSet(reply))

Classification == {Outcome(a) : a \in Answer} \ {None}

VARIABLES
  index,              \* Bichon: the messages it believes are in INBOX
  \* the sidecar
  processed_messages, \* the ledger: Message-IDs
  llm_decisions,      \* [MessageId -> cached classification or None]
  audit_rows,         \* [MessageId -> rows of filter_matches, applied_tags
                      \*  and executed_actions written so far]
  webhook_emissions,  \* [MessageId \X Webhook -> rows]
  \* the daemon
  pc, batch, current, tags, decision, hook,
  answer,             \* the model's, to the message in hand, or None
  \* history
  posted,             \* [MessageId \X Webhook -> deliveries begun]
  classified,         \* [MessageId -> successful LLM calls]
  faults, crashes

sidecar == <<processed_messages, llm_decisions, audit_rows, webhook_emissions>>
local   == <<current, tags, decision, hook, answer>>
history == <<posted, classified>>
bounds  == <<faults, crashes>>
vars    == <<mailbox, userActs, writeback, session, index, sidecar, pc, batch,
             local, history, bounds>>

Init ==
  /\ MailboxInit
  /\ NoRequest
  /\ session = FALSE
  /\ index = {}
  /\ processed_messages = {}
  /\ llm_decisions = [m \in MessageId |-> None]
  /\ audit_rows = [m \in MessageId |-> 0]
  /\ webhook_emissions = [x \in MessageId \X Webhook |-> 0]
  /\ pc = "sleep" /\ batch = {}
  /\ current = None /\ tags = <<>> /\ decision = None /\ hook = 0
  /\ answer = None
  /\ posted = [x \in MessageId \X Webhook |-> 0]
  /\ classified = [m \in MessageId |-> 0]
  /\ faults = 0 /\ crashes = 0

-----------------------------------------------------------------------------
(* Bichon and the user *)

IndexCatchesUp(e) ==
  /\ (e \in inbox) # (e \in index)
  /\ index' = IF e \in inbox THEN index \cup {e} ELSE index \ {e}
  /\ UNCHANGED <<mailbox, userActs, writeback, session, sidecar, pc, batch,
                 local, history, bounds>>

UserActs ==
  /\ (\E e \in Envelope : UserTakes(e)) \/ (\E p \in Path : UserDropsFolder(p))
  /\ UNCHANGED <<writeback, session, index, sidecar, pc, batch, local, history,
                 bounds>>

-----------------------------------------------------------------------------
(* The poll cycle *)

Id == IdOf[current]

\* Control moves within the message in hand.
Goto(label) == pc' = label /\ UNCHANGED <<batch, current>>

\* Mutant: the message stays in hand.
ReleaseKeepsCurrent ==
  /\ UNCHANGED current /\ tags' = <<>> /\ decision' = None /\ hook' = 0
  /\ answer' = None
  /\ request' = <<>> /\ plan' = <<>> /\ done' = 0 /\ stage' = "check"

\* The message in hand is finished with, one way or the other.
Release ==
  /\ current' = None /\ tags' = <<>> /\ decision' = None /\ hook' = 0
  /\ answer' = None
  /\ request' = <<>> /\ plan' = <<>> /\ done' = 0 /\ stage' = "check"

\* An operation returns Err.
Fault == faults < MaxFaults /\ faults' = faults + 1 /\ UNCHANGED crashes

Poll ==
  /\ pc = "sleep"
  /\ pc' = "connect" /\ batch' = index
  /\ UNCHANGED <<mailbox, userActs, writeback, session, index, sidecar, local,
                 history, bounds>>

Connect ==
  /\ pc = "connect"
  /\ pc' = "next" /\ session' = TRUE
  /\ UNCHANGED <<mailbox, userActs, writeback, index, sidecar, batch, local,
                 history, bounds>>

ConnectFails ==
  /\ pc = "connect" /\ Fault
  /\ pc' = "sleep" /\ batch' = {}
  /\ UNCHANGED <<mailbox, userActs, writeback, session, index, sidecar, local,
                 history>>

\* Mutant: the ledger is not consulted.
TakeNextUnchecked(e) ==
  /\ pc = "next" /\ e \in batch
  /\ batch' = batch \ {e}
  /\ pc' = "download" /\ current' = e
  /\ UNCHANGED <<mailbox, userActs, writeback, session, index, sidecar, tags,
                 decision, hook, answer, history, bounds>>

\* The for loop over the batch, and is_already_processed.
TakeNext(e) ==
  /\ pc = "next" /\ e \in batch
  /\ batch' = batch \ {e}
  /\ IF IdOf[e] \in processed_messages
     THEN UNCHANGED <<pc, current>>
     ELSE pc' = "download" /\ current' = e
  /\ UNCHANGED <<mailbox, userActs, writeback, session, index, sidecar, tags,
                 decision, hook, answer, history, bounds>>

\* Mutant: the loop over the batch may end early.
EndCycleEarly ==
  /\ pc = "next" /\ batch' = {}
  /\ pc' = "sleep" /\ session' = FALSE
  /\ UNCHANGED <<mailbox, userActs, writeback, index, sidecar, local, history,
                 bounds>>

\* The batch is through: the watermark is saved and the daemon sleeps.
EndCycle ==
  /\ pc = "next" /\ batch = {}
  /\ pc' = "sleep" /\ session' = FALSE
  /\ UNCHANGED <<mailbox, userActs, writeback, index, sidecar, batch, local,
                 history, bounds>>

-----------------------------------------------------------------------------
(* Pipeline::process *)

\* download_message, then the native filters.
Download ==
  /\ pc = "download"
  /\ Goto("classify")
  /\ tags' = RunFilters(Filters, current)
  /\ UNCHANGED <<mailbox, userActs, writeback, session, index, sidecar, decision,
                 hook, answer, history, bounds>>

\* Mutant: a decision is stored as soon as it is made.
ClassifyAndStore ==
  /\ pc = "classify"
  /\ Goto("apply")
  /\ answer' \in IF UseLlm /\ llm_decisions[Id] = None THEN Answer ELSE {None}
  /\ LET cached  == llm_decisions[Id]
         outcome == IF answer' = None THEN cached ELSE Outcome(answer')
     IN /\ tags' = IF UseLlm THEN MergeLlmTags(tags, outcome) ELSE tags
        /\ decision' = IF cached # None THEN None ELSE outcome
        /\ llm_decisions' = [llm_decisions EXCEPT ![Id] = outcome]
        /\ classified' = IF cached = None /\ outcome # None
                         THEN [classified EXCEPT ![Id] = @ + 1] ELSE classified
  /\ Begin(ResolveActions(tags', Actions))
  /\ UNCHANGED <<mailbox, userActs, session, index, processed_messages,
                 audit_rows, webhook_emissions, hook, posted, bounds>>

\* The classifier (a cached decision is used as is and not stored again),
\* then resolve_actions.
Classify ==
  /\ pc = "classify"
  /\ Goto("apply")
  /\ answer' \in IF UseLlm /\ llm_decisions[Id] = None THEN Answer ELSE {None}
  /\ LET cached  == llm_decisions[Id]
         outcome == IF answer' = None THEN cached ELSE Outcome(answer')
     IN /\ tags' = IF UseLlm THEN MergeLlmTags(tags, outcome) ELSE tags
        /\ decision' = IF cached # None THEN None ELSE outcome
        /\ classified' = IF cached = None /\ outcome # None
                         THEN [classified EXCEPT ![Id] = @ + 1] ELSE classified
  /\ Begin(ResolveActions(tags', Actions))
  /\ UNCHANGED <<mailbox, userActs, session, index, sidecar, hook, posted, bounds>>

Apply ==
  /\ pc = "apply"
  /\ FolderExists \/ RunCommand(current)
  /\ UNCHANGED <<userActs, index, sidecar, pc, batch, local, history, bounds>>

\* The first command that fails abandons the message.
ApplyFails ==
  /\ pc = "apply"
  /\ CommandFails(current)
  /\ \/ MustFail /\ UNCHANGED bounds
     \/ Fault
  /\ pc' = "next" /\ Release
  /\ UNCHANGED <<userActs, index, sidecar, batch, history>>

\* Mutant: recorded before every step is done.
RecordEarly ==
  /\ pc = "apply"
  /\ processed_messages' = processed_messages \cup {Id}
  /\ Goto("decision")
  /\ UNCHANGED <<mailbox, userActs, writeback, session, index, llm_decisions,
                 audit_rows, webhook_emissions, tags, decision, hook, answer,
                 history, bounds>>

Record ==
  /\ pc = "apply" /\ AllDone
  /\ processed_messages' = processed_messages \cup {Id}
  /\ Goto("decision")
  /\ UNCHANGED <<mailbox, userActs, writeback, session, index, llm_decisions,
                 audit_rows, webhook_emissions, tags, decision, hook, answer,
                 history, bounds>>

RecordDecision ==
  /\ pc = "decision"
  /\ llm_decisions' = IF decision # None
                      THEN [llm_decisions EXCEPT ![Id] = decision]
                      ELSE llm_decisions
  /\ Goto("audit")
  /\ UNCHANGED <<mailbox, userActs, writeback, session, index, processed_messages,
                 audit_rows, webhook_emissions, tags, decision, hook, answer,
                 history, bounds>>

\* One row per matching filter, one for the classifier, one per tag, one
\* per executed action.
AuditLength ==
  Len(MatchingFilters(Filters, current)) + (IF UseLlm THEN 1 ELSE 0)
    + Len(tags) + Len(plan)

\* Mutant: announced before the last row is written.
RecordAuditRowButLast ==
  /\ pc = "audit"
  /\ IF audit_rows[Id] + 1 >= AuditLength
     THEN Goto("webhooks") /\ UNCHANGED audit_rows
     ELSE Goto("audit") /\ audit_rows' = [audit_rows EXCEPT ![Id] = @ + 1]
  /\ UNCHANGED <<mailbox, userActs, writeback, session, index, processed_messages,
                 llm_decisions, webhook_emissions, tags, decision, hook, answer,
                 history, bounds>>

RecordAuditRow ==
  /\ pc = "audit"
  /\ IF audit_rows[Id] = AuditLength
     THEN Goto("webhooks") /\ UNCHANGED audit_rows
     ELSE Goto("audit") /\ audit_rows' = [audit_rows EXCEPT ![Id] = @ + 1]
  /\ UNCHANGED <<mailbox, userActs, writeback, session, index, processed_messages,
                 llm_decisions, webhook_emissions, tags, decision, hook, answer,
                 history, bounds>>

\* emit_webhooks walks the tags; a webhook that fires is POSTed, unless its
\* template does not render.
NextWebhook ==
  /\ pc = "webhooks" /\ hook < Len(tags)
  /\ hook' = hook + 1
  /\ IF FiresAt(tags, Actions, Webhooks, hook + 1)
     THEN \/ /\ Goto("posting")
             /\ posted' = [posted EXCEPT
                             ![<<Id, WebhookAt(tags, Actions, hook + 1)>>] = @ + 1]
          \/ Goto("webhooks") /\ UNCHANGED posted
     ELSE Goto("webhooks") /\ UNCHANGED posted
  /\ UNCHANGED <<mailbox, userActs, writeback, session, index, sidecar, tags,
                 decision, answer, classified, bounds>>

\* Mutant: an emission whose delivery failed is not recorded.
DeliveryEndsUnaudited ==
  /\ pc = "posting"
  /\ Goto("webhooks")
  /\ \/ webhook_emissions' = [webhook_emissions EXCEPT
                                 ![<<Id, WebhookAt(tags, Actions, hook)>>] = @ + 1]
     \/ UNCHANGED webhook_emissions
  /\ UNCHANGED <<mailbox, userActs, writeback, session, index, processed_messages,
                 llm_decisions, audit_rows, tags, decision, hook, answer,
                 history, bounds>>

\* The delivery has run its course; its audit row is written, or cannot be.
DeliveryEnds ==
  /\ pc = "posting"
  /\ Goto("webhooks")
  /\ \/ /\ webhook_emissions' = [webhook_emissions EXCEPT
                                   ![<<Id, WebhookAt(tags, Actions, hook)>>] = @ + 1]
        /\ UNCHANGED bounds
     \/ Fault /\ UNCHANGED webhook_emissions
  /\ UNCHANGED <<mailbox, userActs, writeback, session, index, processed_messages,
                 llm_decisions, audit_rows, tags, decision, hook, answer, history>>

\* process returns Processed.
Finish ==
  /\ pc = "webhooks" /\ hook = Len(tags)
  /\ pc' = "next" /\ Release
  /\ UNCHANGED <<mailbox, userActs, session, index, sidecar, batch, history,
                 bounds>>

\* A Bichon or sidecar error makes process return Err; the loop goes on.
ProcessFails ==
  /\ \/ pc \in {"download", "classify", "decision", "audit"}
     \/ pc = "apply" /\ AllDone
  /\ Fault
  /\ pc' = "next" /\ Release
  /\ UNCHANGED <<mailbox, userActs, session, index, sidecar, batch, history>>

-----------------------------------------------------------------------------
\* The process dies; the mailbox, the index and the sidecar survive it.
Crash ==
  /\ pc # "sleep"
  /\ crashes < MaxCrashes /\ crashes' = crashes + 1
  /\ pc' = "sleep" /\ batch' = {} /\ session' = FALSE /\ Release
  /\ UNCHANGED <<mailbox, userActs, index, sidecar, history, faults>>

Process ==
  \/ Download \/ Classify \/ Apply \/ ApplyFails \/ Record \/ RecordDecision
  \/ RecordAuditRow \/ NextWebhook \/ DeliveryEnds \/ Finish \/ ProcessFails

Daemon ==
  \/ Poll \/ Connect \/ ConnectFails \/ EndCycle
  \/ \E e \in Envelope : TakeNext(e)
  \/ Process

Bichon == \E e \in Envelope : IndexCatchesUp(e)

Next == Daemon \/ Bichon \/ UserActs \/ Crash

Fairness ==
  /\ WF_vars(Daemon)
  /\ \A e \in Envelope : WF_vars(IndexCatchesUp(e))

Spec == Init /\ [][Next]_vars

FairSpec == Spec /\ Fairness

-----------------------------------------------------------------------------
(* `berger dry-run`, at any moment: what it would announce of a message the *)
(* poll returns.  It writes nothing and runs the native filters alone.      *)

WouldSkip(e) == IdOf[e] \in processed_messages

\* Resolved actions, not consolidated.
WouldProcess(e) == ResolveActions(RunFilters(Filters, e), Actions)

-----------------------------------------------------------------------------
(* Invariants *)

Labels == {"sleep", "connect", "next", "download", "classify", "apply",
           "decision", "audit", "webhooks", "posting"}

\* Past the ledger insert: the message in hand is recorded.
Recorded == {"decision", "audit", "webhooks", "posting"}

\* Types of the mailbox, of the state the daemon keeps and of the sidecar.
TypeOK ==
  /\ MailboxTypeOK
  /\ index \subseteq Envelope
  /\ batch \subseteq Envelope
  /\ processed_messages \subseteq MessageId
  /\ llm_decisions \in [MessageId -> Classification \cup {None}]
  /\ audit_rows \in [MessageId -> Nat]
  /\ webhook_emissions \in [MessageId \X Webhook -> Nat]
  /\ posted \in [MessageId \X Webhook -> Nat]
  /\ classified \in [MessageId -> Nat]
  /\ pc \in Labels
  /\ current \in Envelope \cup {None}
  /\ current = None <=> pc \in {"sleep", "connect", "next"}
  /\ decision \in Classification \cup {None}
  /\ hook \in Nat
  /\ faults \in Nat /\ crashes \in Nat

\* However often the daemon crashes, fails or sees a message again, it
\* begins at most one delivery of a webhook for a Message-ID, and never
\* writes more audit rows than deliveries (webhooks.md: "a webhook
\* referenced by two tags fires once").
PostedAtMostOnce ==
  \A m \in MessageId, w \in Webhook :
    /\ posted[<<m, w>>] <= 1
    /\ webhook_emissions[<<m, w>>] <= posted[<<m, w>>]

\* The decision cache is never hit by the daemon: a decision is stored only
\* behind the ledger insert, and a message in the ledger is not classified.
CacheNeverHit ==
  pc = "classify" => llm_decisions[Id] = None

\* Work is repeated only by what interrupts a pass: every further copy of a
\* message in a folder, and every further model call for a message, is paid
\* for by an error, a crash or the user (yaml.md: "a message is classified at
\* most once for a given prompt", which holds of uninterrupted passes).
RepeatsArePaidFor ==
  LET passes == 1 + faults + crashes + userActs IN
    /\ \A p \in Path, e \in Envelope : copies[p][e] <= passes
    /\ \A m \in MessageId :
         classified[m] <= passes * Cardinality({e \in Envelope : IdOf[e] = m})

\* A delivery without an audit row is under way, or its pass was cut short
\* (webhooks.md: "Every emission - success or failure - is recorded").
UnauditedIsPaidFor ==
  Cardinality({x \in MessageId \X Webhook : webhook_emissions[x] < posted[x]})
    <= faults + crashes + (IF pc = "posting" THEN 1 ELSE 0)

\* The dry run announces what the daemon does, and with a classifier "a real
\* run would also apply its tags" (cli/dry_run.rs): of a message being acted
\* on it reports the actions the daemon began with, the classifier's coming
\* behind them; a message filed and recorded it reports as skipped.
DryRunAnnounces ==
  /\ pc = "apply" => /\ ~WouldSkip(current)
                     /\ IsPrefix(WouldProcess(current), request)
  /\ pc \in Recorded => WouldSkip(current)

\* What the model says is what the message is tagged with: besides the tags of
\* the filters it carries those of one classification the reply holds, whole, or
\* the mark of a failure and nothing else; and a reply that holds one
\* classification, alone or wrapped in prose without braces, is not taken for a
\* failure ("so a model that wraps its JSON in a markdown fence or prose can
\* still be parsed", llm/classifier.rs).
ReplyIsHeeded ==
  pc = "apply" /\ answer # None =>
    LET text == Complete(answer)
        objects == IF text = None THEN {}
                   ELSE {i \in DOMAIN text : text[i].kind = "object"}
        said == {Classified(text[i].fields) : i \in objects} \ {None}
        heeded(outcome) ==
          ToSet(tags) = ToSet(RunFilters(Filters, current)) \cup ToSet(LlmTags(outcome))
    IN /\ \E outcome \in said \cup {None} : heeded(outcome)
       /\ said # {} /\ Cardinality(objects) = 1
            /\ (\A i \in DOMAIN text : text[i].kind \in {"prose", "object"})
            => \E c \in said : heeded(c)

-----------------------------------------------------------------------------
(* Why they hold: what is true between any two steps (Triage_proofs) *)

\* Nothing is remembered or announced of a Message-ID outside the ledger.
LedgerFirst ==
  \A m \in MessageId \ processed_messages :
    /\ llm_decisions[m] = None
    /\ \A w \in Webhook : posted[<<m, w>>] = 0

\* The message in hand enters the ledger when its pass records it, not before.
HandInLedger ==
  /\ pc \in {"download", "classify", "apply"} => Id \notin processed_messages
  /\ pc \in Recorded => Id \in processed_messages

\* What this pass has POSTed, earlier tags than hook have mentioned.
PostedByThisPass ==
  /\ pc \in {"decision", "audit"} =>
       \A w \in Webhook : posted[<<Id, w>>] = 0
  /\ pc \in {"webhooks", "posting"} =>
       \A w \in Webhook : posted[<<Id, w>>] > 0 =>
         \E j \in 1..hook : WebhookAt(tags, Actions, j) = w
  /\ pc = "posting" =>
       LET w == WebhookAt(tags, Actions, hook) IN
         /\ w \in Webhook
         /\ posted[<<Id, w>>] = 1 /\ webhook_emissions[<<Id, w>>] = 0

\* The recording is complete before the announcing starts.
CompleteBeforeAnnounced ==
  /\ pc \in {"audit", "webhooks", "posting"} /\ decision # None =>
       llm_decisions[Id] = decision
  /\ pc \in {"webhooks", "posting"} => audit_rows[Id] = AuditLength

\* The message in hand carries the tags of the filters, then those of the
\* model's answer; what is done to it is what those tags ask for.
HandTagged ==
  /\ pc = "classify" => tags = RunFilters(Filters, current)
  /\ pc = "apply" =>
       /\ IF UseLlm
          THEN /\ answer \in Answer
               /\ tags = MergeLlmTags(RunFilters(Filters, current), Outcome(answer))
          ELSE answer = None /\ tags = RunFilters(Filters, current)
       /\ request = ResolveActions(tags, Actions)
       /\ plan = Consolidate(request)

Inv ==
  /\ TypeOK /\ LedgerFirst /\ HandInLedger /\ PostedByThisPass
  /\ PostedAtMostOnce /\ CompleteBeforeAnnounced

-----------------------------------------------------------------------------
(* Action properties *)

\* Nothing is done on the server to a message whose Message-ID is already
\* in the ledger, whichever of its copies Bichon shows: only the user
\* removes it from INBOX and no folder gains it (Bichon coherence rule #2).
LedgerFreezesMailbox ==
  [][\A e \in Envelope : IdOf[e] \in processed_messages =>
       /\ (e \in inbox /\ e \notin inbox') => userActs' > userActs
       /\ \A p \in Path : copies'[p][e] <= copies[p][e]
       /\ flags'[e] = flags[e]]_vars

\* When a message enters the ledger every step of its plan has been done to
\* the message, if it is still in INBOX to see: copies filed (unless the user
\* has dropped the folder), flags set, and a planned move means it is not there
\* ("A message is recorded as processed only after its actions have been
\* applied").
RecordedOnceFiled ==
  [][processed_messages' # processed_messages /\ current \in inbox =>
       \A i \in 1..Len(plan) :
         /\ plan[i].kind # "move_to"
         /\ plan[i].kind = "mark_seen" => "Seen" \in flags[current]
         /\ plan[i].kind = "mark_flagged" => "Flagged" \in flags[current]
         /\ plan[i].kind = "copy_to" =>
              LET p == ServerPath[plan[i].folder]
              IN  p \in Path \cap folders => copies[p][current] > 0]_vars

\* When a webhook is POSTed, the sidecar already holds everything about the
\* message: the ledger entry, the audit rows and the classification
\* (webhooks.md: "tags are already applied and recorded regardless").
PostedOnceRecorded ==
  [][posted' # posted =>
       /\ Id \in processed_messages
       /\ audit_rows[Id] = AuditLength
       /\ decision # None => llm_decisions[Id] = decision]_vars

-----------------------------------------------------------------------------
(* Liveness *)

\* Faults, crashes and the user permitting (each is bounded), a message
\* Bichon indexes is recorded or leaves the index.
IndexedIsRecorded ==
  \A e \in Envelope :
    e \in index ~> (IdOf[e] \in processed_messages \/ e \notin index)

-----------------------------------------------------------------------------
(* Refinement *)

Phase ==
  CASE pc \in {"sleep", "connect", "next"}        -> "idle"
    [] pc \in {"download", "classify", "apply"}   -> "acting"
    [] pc \in {"decision", "audit"}               -> "recording"
    [] pc \in {"webhooks", "posting"}             -> "announcing"

Contract == INSTANCE TriageContract WITH
              recorded <- processed_messages,
              open <- IF current = None THEN None ELSE IdOf[current],
              phase <- Phase,
              fired <- {x \in MessageId \X Webhook : posted[x] > 0}

\* The daemon keeps triage's promises about every Message-ID.
ImplementsContract == Contract!Spec

-----------------------------------------------------------------------------
(* What the documentation says *)

\* "a message in flight is simply re-polled on the next cycle" (docs/ops.md).
InFlightIsFinished ==
  \A e \in Envelope : pc = "apply" /\ current = e
                         ~> IdOf[e] \in processed_messages

=============================================================================
