---------------------------- MODULE Triage_proofs ----------------------------
(***************************************************************************)
(* Proofs about Triage, for any mailbox, configuration and bounds.         *)
(***************************************************************************)
EXTENDS Triage, TagPlan_proofs, FiniteSetTheorems

USE DEF Labels

\* Adding one somewhere keeps a function counting.
LEMMA CountUp ==
  ASSUME NEW S, NEW f \in [S -> Nat], NEW x
  PROVE  [f EXCEPT ![x] = @ + 1] \in [S -> Nat]
<1>1. CASE x \in S
  BY <1>1
<1>2. CASE x \notin S
  <2>1. [f EXCEPT ![x] = @ + 1] = f
    BY <1>2
  <2> QED BY <2>1
<1> QED BY <1>1, <1>2

\* Any IMAP command, on any message and folder, keeps the mailbox typed, and
\* touches no message but its own.
LEMMA UidStoreEffect ==
  ASSUME MailboxTypeOK, NEW c \in Envelope, NEW flag \in {"Seen", "Flagged"},
         UidStore(c, flag), UNCHANGED userActs
  PROVE  /\ MailboxTypeOK'
         /\ UNCHANGED <<inbox, copies>>
         /\ \A e \in Envelope \ {c} : flags'[e] = flags[e]
BY DEF MailboxTypeOK, UidStore

\* A copy of one message changes the count of no other.
LEMMA FiledEffect ==
  ASSUME MailboxTypeOK, NEW c \in Envelope, NEW p
  PROVE  /\ Filed(c, p) \in [Path -> [Envelope -> Nat]]
         /\ \A q \in Path, e \in Envelope \ {c} : Filed(c, p)[q][e] = copies[q][e]
<1>1. CASE c \in inbox /\ p \in Path
  <2>1. copies[p] \in [Envelope -> Nat]
    BY <1>1 DEF MailboxTypeOK
  <2>2. [copies[p] EXCEPT ![c] = @ + 1] \in [Envelope -> Nat]
    BY <2>1
  <2>3. Filed(c, p) = [copies EXCEPT ![p] = [copies[p] EXCEPT ![c] = @ + 1]]
    BY <1>1 DEF Filed
  <2> QED BY <1>1, <2>1, <2>2, <2>3 DEF MailboxTypeOK
<1>2. CASE ~(c \in inbox /\ p \in Path)
  <2>1. Filed(c, p) = copies
    BY <1>2 DEF Filed, MailboxTypeOK
  <2> QED BY <2>1 DEF MailboxTypeOK
<1> QED BY <1>1, <1>2

\* Filing a message leaves the others where they are.
LEMMA FileMessageEffect ==
  ASSUME MailboxTypeOK, NEW c \in Envelope, NEW p,
         UidCopy(c, p) \/ UidMove(c, p), UNCHANGED userActs
  PROVE  /\ MailboxTypeOK'
         /\ UNCHANGED flags /\ inbox \ {c} \subseteq inbox'
         /\ \A q \in Path, e \in Envelope \ {c} : copies'[q][e] = copies[q][e]
BY FiledEffect DEF MailboxTypeOK, UidCopy, UidMove

\* A step of apply_actions touches no message but its own.
LEMMA ApplyEffect ==
  ASSUME MailboxTypeOK, NEW c \in Envelope, UNCHANGED userActs,
         FolderExists \/ RunCommand(c) \/ CommandFails(c)
  PROVE  /\ MailboxTypeOK'
         /\ inbox \ {c} \subseteq inbox'
         /\ \A q \in Path, e \in Envelope \ {c} : copies'[q][e] = copies[q][e]
         /\ \A e \in Envelope \ {c} : flags'[e] = flags[e]
<1>1. CASE UNCHANGED mailbox
  BY <1>1 DEF mailbox, MailboxTypeOK
<1>2. CASE AddFlag(c)
  BY <1>2, UidStoreEffect DEF AddFlag
<1>3. CASE FileMessage(c)
  BY <1>3, FileMessageEffect DEF FileMessage
<1>4. CASE CreateFolder
  BY <1>4 DEF CreateFolder, CreateMailbox, MailboxTypeOK
<1> QED
  BY <1>1, <1>2, <1>3, <1>4 DEF FolderExists, RunCommand, CommandFails

\* The user removes copies, and adds none.
LEMMA UserActsEffect ==
  ASSUME MailboxTypeOK, UserActs
  PROVE  /\ MailboxTypeOK' /\ UNCHANGED flags /\ userActs' > userActs
         /\ \A p \in Path, e \in Envelope : copies'[p][e] <= copies[p][e]
<1>1. ASSUME NEW e \in Envelope, UserTakes(e)
      PROVE  /\ MailboxTypeOK' /\ UNCHANGED <<flags, copies>>
             /\ userActs' > userActs
  BY <1>1 DEF UserTakes, MailboxTypeOK
<1>2. ASSUME NEW p \in Path, UserDropsFolder(p)
      PROVE  /\ MailboxTypeOK' /\ UNCHANGED flags /\ userActs' > userActs
             /\ \A q \in Path, e \in Envelope : copies'[q][e] <= copies[q][e]
  BY <1>2 DEF UserDropsFolder, MailboxTypeOK
<1> QED
  BY <1>1, <1>2 DEF UserActs, MailboxTypeOK

\* Every step keeps the mailbox one.
LEMMA MailboxTypeOKStep ==
  ASSUME TypeOK, [Next]_vars
  PROVE  MailboxTypeOK'
<1>1. CASE UNCHANGED <<mailbox, userActs>>
  BY <1>1 DEF mailbox, MailboxTypeOK, TypeOK
<1>2. CASE UserActs
  BY <1>2, UserActsEffect DEF TypeOK
<1>3. CASE Apply \/ ApplyFails
  <2>1. current \in Envelope
    BY <1>3 DEF Apply, ApplyFails, TypeOK
  <2> QED BY <1>3, <2>1, ApplyEffect DEF Apply, ApplyFails, TypeOK
<1> QED
  BY <1>1, <1>2, <1>3
     DEF Next, Daemon, Process, Bichon, IndexCatchesUp, Crash, Poll, Connect,
         ConnectFails, EndCycle, TakeNext, Download, Classify, Record,
         RecordDecision, RecordAuditRow, NextWebhook, DeliveryEnds, Finish,
         ProcessFails, vars

\* Every step keeps the types.
LEMMA TypeOKStep ==
  ASSUME TypeOK, [Next]_vars
  PROVE  TypeOK'
 <1>0. MailboxTypeOK'
  BY MailboxTypeOKStep
<1> USE <1>0, IdAssumption DEF TypeOK, sidecar, local, history, bounds
<1>1. ASSUME NEW e \in Envelope, IndexCatchesUp(e) PROVE TypeOK'
  BY <1>1 DEF IndexCatchesUp
<1>2. CASE UserActs
  BY <1>2 DEF UserActs
<1>3. CASE Poll
  BY <1>3 DEF Poll
<1>4. CASE Connect
  BY <1>4 DEF Connect
<1>5. CASE ConnectFails
  BY <1>5 DEF ConnectFails, Fault
<1>6. ASSUME NEW e \in Envelope, TakeNext(e) PROVE TypeOK'
  BY <1>6 DEF TakeNext
<1>7. CASE EndCycle
  BY <1>7 DEF EndCycle
<1>8. CASE Download
  BY <1>8 DEF Download, Goto
<1>9. CASE Classify
  <2>1. Id \in MessageId
    BY <1>9 DEF Classify, Id
  <2>2. decision' \in Classification \cup {None}
    BY <1>9, <2>1 DEF Classify, Classification
  <2>3. classified' \in [MessageId -> Nat]
    BY <1>9, <2>1 DEF Classify
  <2> QED BY <1>9, <2>2, <2>3 DEF Classify, Goto
<1>10. CASE Apply
  BY <1>10 DEF Apply
<1>11. CASE ApplyFails
  BY <1>11 DEF ApplyFails, Release, Fault
<1>12. CASE Record
  <2>1. Id \in MessageId
    BY <1>12 DEF Record, Id
  <2> QED BY <1>12, <2>1 DEF Record, Goto
<1>13. CASE RecordDecision
  BY <1>13 DEF RecordDecision, Goto
<1>14. CASE RecordAuditRow
  BY <1>14 DEF RecordAuditRow, Goto
<1>15. CASE NextWebhook
  <2>1. posted' \in [MessageId \X Webhook -> Nat]
    <3> DEFINE x == <<Id, WebhookAt(tags, Actions, hook + 1)>>
    <3>1. [posted EXCEPT ![x] = @ + 1] \in [MessageId \X Webhook -> Nat]
      BY CountUp
    <3>2. posted' = [posted EXCEPT ![x] = @ + 1] \/ posted' = posted
      BY <1>15 DEF NextWebhook
    <3> QED BY <3>1, <3>2
  <2>2. pc' \in {"posting", "webhooks"} /\ UNCHANGED <<batch, current>>
    BY <1>15 DEF NextWebhook, Goto
  <2> QED BY <1>15, <2>1, <2>2 DEF NextWebhook
<1>16. CASE DeliveryEnds
  <2>1. webhook_emissions' \in [MessageId \X Webhook -> Nat]
    BY <1>16 DEF DeliveryEnds
  <2> QED BY <1>16, <2>1 DEF DeliveryEnds, Goto, Fault
<1>17. CASE Finish
  BY <1>17 DEF Finish, Release
<1>18. CASE ProcessFails
  BY <1>18 DEF ProcessFails, Release, Fault
<1>19. CASE Crash
  BY <1>19 DEF Crash, Release
<1>20. CASE UNCHANGED vars
  BY <1>20 DEF vars
<1> QED
  BY <1>1, <1>2, <1>3, <1>4, <1>5, <1>6, <1>7, <1>8, <1>9, <1>10, <1>11,
     <1>12, <1>13, <1>14, <1>15, <1>16, <1>17, <1>18, <1>19, <1>20
     DEF Next, Daemon, Process, Bichon

\* The daemon's state and the sidecar keep their types; a message is in hand
\* exactly from its download to the end of its webhooks.
THEOREM TypeCorrect == Spec => []TypeOK
<1>1. Init => TypeOK
  BY IdAssumption DEF Init, TypeOK, MailboxInit, MailboxTypeOK
<1>2. TypeOK /\ [Next]_vars => TypeOK'
  BY TypeOKStep
<1> QED
  BY <1>1, <1>2, PTL DEF Spec

-----------------------------------------------------------------------------
(* The inductive invariant *)

\* Inv speaks of the sidecar, of what was POSTed and of the message in hand:
\* a step that leaves those alone preserves it.
LEMMA SameHand ==
  ASSUME Inv, TypeOK',
         UNCHANGED <<sidecar, posted, pc, current, tags, decision, hook, plan>>
  PROVE  Inv'
BY DEF Inv, sidecar, LedgerFirst, HandInLedger, PostedByThisPass,
       PostedAtMostOnce, CompleteBeforeAnnounced, Recorded, Id, AuditLength

\* A step that lets go of the message in hand preserves Inv.
LEMMA HandEmptied ==
  ASSUME Inv, TypeOK', UNCHANGED <<sidecar, posted>>,
         pc' \in {"sleep", "connect", "next"}
  PROVE  Inv'
BY DEF Inv, sidecar, LedgerFirst, HandInLedger, PostedByThisPass,
       PostedAtMostOnce, CompleteBeforeAnnounced, Recorded

\* Up to the ledger insert a pass leaves the sidecar alone.
LEMMA BeforeLedger ==
  ASSUME Inv, TypeOK', UNCHANGED <<sidecar, posted>>,
         pc' \in {"download", "classify", "apply"},
         Id' \notin processed_messages
  PROVE  Inv'
BY DEF Inv, sidecar, LedgerFirst, HandInLedger, PostedByThisPass,
       PostedAtMostOnce, CompleteBeforeAnnounced, Recorded

\* The message in hand is one.
LEMMA HandIsMessage ==
  ASSUME TypeOK, pc \notin {"sleep", "connect", "next"}
  PROVE  current \in Envelope /\ Id \in MessageId
BY IdAssumption DEF TypeOK, Id

\* Inserting the ledger row keeps the invariant.
LEMMA RecordInv ==
  ASSUME Inv, TypeOK', Record
  PROVE  Inv'
<1> USE DEF Inv
<1>1. Id \in MessageId /\ Id' = Id /\ pc' = "decision"
  BY HandIsMessage DEF Record, Goto, Id
<1>2. processed_messages' = processed_messages \cup {Id}
      /\ UNCHANGED <<llm_decisions, audit_rows, webhook_emissions, posted>>
  BY DEF Record, history
<1>3. LedgerFirst'
  BY <1>2 DEF LedgerFirst
<1>4. HandInLedger'
  BY <1>1, <1>2 DEF HandInLedger, Recorded
<1>5. \A w \in Webhook : posted[<<Id, w>>] = 0
  BY <1>1 DEF Record, LedgerFirst, HandInLedger
<1>6. PostedByThisPass'
  BY <1>1, <1>2, <1>5 DEF PostedByThisPass
<1>7. PostedAtMostOnce'
  BY <1>2 DEF PostedAtMostOnce
<1>8. CompleteBeforeAnnounced'
  BY <1>1 DEF CompleteBeforeAnnounced
<1> QED BY <1>3, <1>4, <1>6, <1>7, <1>8

\* Inserting the classifier's row keeps the invariant.
LEMMA RecordDecisionInv ==
  ASSUME Inv, TypeOK', RecordDecision
  PROVE  Inv'
<1> USE DEF Inv
<1>1. Id \in MessageId /\ Id \in processed_messages
  BY HandIsMessage DEF RecordDecision, HandInLedger, Recorded
<1>2. Id' = Id /\ pc' = "audit" /\ UNCHANGED decision
      /\ UNCHANGED <<processed_messages, audit_rows, webhook_emissions, posted>>
  BY DEF RecordDecision, Goto, Id, history
<1>3. /\ \A m \in MessageId : m # Id => llm_decisions'[m] = llm_decisions[m]
      /\ decision # None => llm_decisions'[Id] = decision
  BY <1>1 DEF RecordDecision, TypeOK
<1>4. LedgerFirst'
  BY <1>1, <1>2, <1>3 DEF LedgerFirst
<1>5. HandInLedger'
  BY <1>1, <1>2 DEF HandInLedger, Recorded
<1>6. PostedByThisPass'
  BY <1>2 DEF RecordDecision, PostedByThisPass
<1>7. PostedAtMostOnce'
  BY <1>2 DEF PostedAtMostOnce
<1>8. CompleteBeforeAnnounced'
  BY <1>2, <1>3 DEF CompleteBeforeAnnounced
<1> QED BY <1>4, <1>5, <1>6, <1>7, <1>8

\* Inserting an audit row keeps the invariant.
LEMMA RecordAuditRowInv ==
  ASSUME Inv, TypeOK', RecordAuditRow
  PROVE  Inv'
<1> USE DEF Inv
<1>1. Id \in MessageId /\ Id \in processed_messages
  BY HandIsMessage DEF RecordAuditRow, HandInLedger, Recorded
<1>2. Id' = Id /\ AuditLength' = AuditLength
      /\ UNCHANGED <<decision, tags, hook, processed_messages, llm_decisions,
                     webhook_emissions, posted>>
  BY DEF RecordAuditRow, Goto, Id, history, writeback, AuditLength
<1>3. \/ pc' = "webhooks" /\ audit_rows'[Id] = AuditLength
      \/ pc' = "audit"
  BY DEF RecordAuditRow, Goto
<1>4. LedgerFirst'
  BY <1>2 DEF LedgerFirst
<1>5. HandInLedger'
  BY <1>1, <1>2, <1>3 DEF HandInLedger, Recorded
<1>6. PostedByThisPass'
  <2>1. \A w \in Webhook : posted[<<Id, w>>] = 0
    BY DEF RecordAuditRow, PostedByThisPass
  <2> QED BY <1>2, <1>3, <2>1 DEF PostedByThisPass
<1>7. PostedAtMostOnce'
  BY <1>2 DEF PostedAtMostOnce
<1>8. CompleteBeforeAnnounced'
  BY <1>2, <1>3 DEF RecordAuditRow, CompleteBeforeAnnounced
<1> QED BY <1>4, <1>5, <1>6, <1>7, <1>8

\* Stepping to the next tag: its webhook is POSTed only when no earlier tag
\* mentions it, so this pass has not POSTed it, and no other pass can have.
LEMMA NextWebhookInv ==
  ASSUME Inv, TypeOK', NextWebhook
  PROVE  Inv'
<1> USE DEF Inv
<1> DEFINE w == WebhookAt(tags, Actions, hook + 1)
<1>1. Id \in MessageId /\ Id \in processed_messages /\ hook \in Nat
  BY HandIsMessage DEF NextWebhook, HandInLedger, Recorded, TypeOK
<1>2. Id' = Id /\ AuditLength' = AuditLength /\ hook' = hook + 1
      /\ UNCHANGED <<decision, tags, sidecar>>
  BY DEF NextWebhook, Goto, Id, writeback, AuditLength
<1>3. \A x \in Webhook : posted[<<Id, x>>] > 0 =>
        \E j \in 1..hook : WebhookAt(tags, Actions, j) = x
  BY DEF NextWebhook, PostedByThisPass
<1>4. CASE pc' = "webhooks" /\ UNCHANGED posted
  <2>1. LedgerFirst' /\ PostedAtMostOnce'
    BY <1>2, <1>4 DEF LedgerFirst, PostedAtMostOnce, sidecar
  <2>2. HandInLedger'
    BY <1>1, <1>2, <1>4 DEF HandInLedger, Recorded, sidecar
  <2>3. 1..hook \subseteq 1..(hook + 1)
    BY <1>1
  <2>4. PostedByThisPass'
    BY <1>2, <1>3, <1>4, <2>3 DEF PostedByThisPass
  <2>5. CompleteBeforeAnnounced'
    BY <1>2, <1>4 DEF NextWebhook, CompleteBeforeAnnounced, sidecar
  <2> QED BY <2>1, <2>2, <2>4, <2>5
<1>5. CASE /\ FiresAt(tags, Actions, Webhooks, hook + 1)
           /\ pc' = "posting"
           /\ posted' = [posted EXCEPT ![<<Id, w>>] = @ + 1]
  <2>1. w \in Webhook /\ \A j \in 1..hook : WebhookAt(tags, Actions, j) # w
    BY <1>1, <1>5, ConfigAssumption DEF FiresAt, FirstMention
  <2>2. posted \in [MessageId \X Webhook -> Nat]
        /\ webhook_emissions \in [MessageId \X Webhook -> Nat]
    BY DEF TypeOK
  <2>3. posted[<<Id, w>>] = 0 /\ webhook_emissions[<<Id, w>>] = 0
    BY <1>1, <1>3, <2>1, <2>2 DEF PostedAtMostOnce
  <2>4. /\ posted'[<<Id, w>>] = 1
        /\ \A m \in MessageId, x \in Webhook :
             <<m, x>> # <<Id, w>> => posted'[<<m, x>>] = posted[<<m, x>>]
    BY <1>1, <1>5, <2>1, <2>2, <2>3
  <2>5. LedgerFirst'
    BY <1>1, <1>2, <2>4 DEF LedgerFirst, sidecar
  <2>6. HandInLedger'
    BY <1>1, <1>2, <1>5 DEF HandInLedger, Recorded, sidecar
  <2>7. PostedByThisPass'
    <3>1. \A x \in Webhook : posted'[<<Id, x>>] > 0 =>
            \E j \in 1..(hook + 1) : WebhookAt(tags, Actions, j) = x
      <4> SUFFICES ASSUME NEW x \in Webhook, posted'[<<Id, x>>] > 0
                   PROVE  \E j \in 1..(hook + 1) : WebhookAt(tags, Actions, j) = x
        OBVIOUS
      <4>1. CASE x = w
        BY <1>1, <4>1
      <4>2. CASE x # w
        BY <1>1, <1>3, <2>4, <4>2
      <4> QED BY <4>1, <4>2
    <3> QED BY <1>2, <1>5, <2>1, <2>3, <2>4, <3>1 DEF PostedByThisPass, sidecar
  <2>8. PostedAtMostOnce'
    <3> SUFFICES ASSUME NEW m \in MessageId, NEW x \in Webhook
                 PROVE  /\ posted'[<<m, x>>] <= 1
                        /\ webhook_emissions'[<<m, x>>] <= posted'[<<m, x>>]
      BY DEF PostedAtMostOnce
    <3>1. CASE <<m, x>> = <<Id, w>>
      BY <1>2, <2>3, <2>4, <3>1 DEF sidecar
    <3>2. CASE <<m, x>> # <<Id, w>>
      BY <1>2, <2>4, <3>2 DEF PostedAtMostOnce, sidecar
    <3> QED BY <3>1, <3>2
  <2>9. CompleteBeforeAnnounced'
    BY <1>2, <1>5 DEF NextWebhook, CompleteBeforeAnnounced, sidecar
  <2> QED BY <2>5, <2>6, <2>7, <2>8, <2>9
<1> QED BY <1>4, <1>5 DEF NextWebhook, Goto

\* The end of a delivery keeps the invariant.
LEMMA DeliveryEndsInv ==
  ASSUME Inv, TypeOK', DeliveryEnds
  PROVE  Inv'
<1> USE DEF Inv
<1> DEFINE w == WebhookAt(tags, Actions, hook)
<1>1. Id \in MessageId /\ Id \in processed_messages
  BY HandIsMessage DEF DeliveryEnds, HandInLedger, Recorded
<1>2. Id' = Id /\ AuditLength' = AuditLength /\ pc' = "webhooks"
      /\ UNCHANGED <<decision, tags, hook, processed_messages, llm_decisions,
                     audit_rows, posted>>
  BY DEF DeliveryEnds, Goto, Id, history, writeback, AuditLength
<1>3. w \in Webhook /\ posted[<<Id, w>>] = 1 /\ webhook_emissions[<<Id, w>>] = 0
  BY DEF DeliveryEnds, PostedByThisPass
<1>4. \/ webhook_emissions' = [webhook_emissions EXCEPT ![<<Id, w>>] = @ + 1]
      \/ webhook_emissions' = webhook_emissions
  BY DEF DeliveryEnds
<1>5. LedgerFirst'
  BY <1>2 DEF LedgerFirst
<1>6. HandInLedger'
  BY <1>1, <1>2 DEF HandInLedger, Recorded
<1>7. PostedByThisPass'
  BY <1>2 DEF DeliveryEnds, PostedByThisPass
<1>8. PostedAtMostOnce'
  <2> SUFFICES ASSUME NEW m \in MessageId, NEW x \in Webhook
               PROVE  /\ posted[<<m, x>>] <= 1
                      /\ webhook_emissions'[<<m, x>>] <= posted[<<m, x>>]
    BY <1>2 DEF PostedAtMostOnce
  <2>1. webhook_emissions \in [MessageId \X Webhook -> Nat]
    BY DEF TypeOK
  <2>2. CASE <<m, x>> = <<Id, w>>
    BY <1>3, <1>4, <2>1, <2>2
  <2>3. CASE <<m, x>> # <<Id, w>>
    BY <1>4, <2>1, <2>3 DEF PostedAtMostOnce
  <2> QED BY <2>2, <2>3
<1>9. CompleteBeforeAnnounced'
  BY <1>2 DEF DeliveryEnds, CompleteBeforeAnnounced
<1> QED BY <1>5, <1>6, <1>7, <1>8, <1>9

\* Every reachable state is in the inductive invariant (pipeline/mod.rs).
THEOREM InvInductive == Spec => []Inv
<1>1. Init => Inv
  <2> SUFFICES ASSUME Init PROVE Inv
    OBVIOUS
  <2>1. TypeOK
    BY IdAssumption DEF Init, TypeOK, MailboxInit, MailboxTypeOK
  <2>2. pc = "sleep" /\ processed_messages = {}
        /\ llm_decisions = [m \in MessageId |-> None]
        /\ posted = [x \in MessageId \X Webhook |-> 0]
        /\ webhook_emissions = [x \in MessageId \X Webhook |-> 0]
    BY DEF Init
  <2>3. \A m \in MessageId, w \in Webhook :
          posted[<<m, w>>] = 0 /\ webhook_emissions[<<m, w>>] = 0
    BY <2>2
  <2>4. LedgerFirst /\ PostedAtMostOnce
    BY <2>2, <2>3 DEF LedgerFirst, PostedAtMostOnce
  <2> QED
    BY <2>1, <2>2, <2>4 DEF Inv, HandInLedger, PostedByThisPass,
                            CompleteBeforeAnnounced, Recorded
<1>2. Inv /\ [Next]_vars => Inv'
  <2> SUFFICES ASSUME Inv, [Next]_vars PROVE Inv'
    OBVIOUS
  <2>1. TypeOK'
    BY TypeOKStep DEF Inv
  <2>2. ASSUME NEW e \in Envelope, IndexCatchesUp(e) PROVE Inv'
    BY <2>1, <2>2, SameHand DEF IndexCatchesUp, local, history, writeback
  <2>3. CASE UserActs
    BY <2>1, <2>3, SameHand DEF UserActs, local, history, writeback
  <2>4. CASE Poll \/ Connect \/ ConnectFails \/ EndCycle
    BY <2>1, <2>4, HandEmptied
       DEF Poll, Connect, ConnectFails, EndCycle, history
  <2>5. CASE ApplyFails \/ Finish \/ ProcessFails \/ Crash
    BY <2>1, <2>5, HandEmptied
       DEF ApplyFails, Finish, ProcessFails, Crash, history
  <2>6. ASSUME NEW e \in Envelope, TakeNext(e) PROVE Inv'
    <3>1. UNCHANGED <<sidecar, posted>>
      BY <2>6 DEF TakeNext, history
    <3>2. CASE IdOf[e] \in processed_messages
      BY <2>1, <2>6, <3>1, <3>2, HandEmptied DEF TakeNext
    <3>3. CASE IdOf[e] \notin processed_messages
      BY <2>1, <2>6, <3>1, <3>3, BeforeLedger DEF TakeNext, Id
    <3> QED BY <3>2, <3>3
  <2>7. CASE Download \/ Classify
    <3>1. UNCHANGED <<sidecar, posted, current>> /\ pc' \in {"classify", "apply"}
      BY <2>7 DEF Download, Classify, Goto, history
    <3>2. Id \notin processed_messages
      BY <2>7 DEF Download, Classify, Inv, HandInLedger
    <3> QED BY <2>1, <3>1, <3>2, BeforeLedger DEF Id
  <2>8. CASE Apply
    <3>1. UNCHANGED <<sidecar, posted, pc, current, tags, decision, hook>>
      BY <2>8 DEF Apply, local, history
    <3>2. UNCHANGED plan
      BY <2>8 DEF Apply, FolderExists, RunCommand
    <3> QED BY <2>1, <3>1, <3>2, SameHand
  <2>9. CASE UNCHANGED vars
    BY <2>1, <2>9, SameHand DEF vars, local, history, writeback
  <2> QED
    BY <2>1, <2>2, <2>3, <2>4, <2>5, <2>6, <2>7, <2>8, <2>9, RecordInv,
       RecordDecisionInv, RecordAuditRowInv, NextWebhookInv, DeliveryEndsInv
       DEF Next, Daemon, Process, Bichon
<1> QED
  BY <1>1, <1>2, PTL DEF Spec

\* However often the daemon crashes, fails or sees a message again, for any
\* configuration: one delivery of a webhook per Message-ID, at most one row.
THEOREM WebhookOncePerMessage == Spec => []PostedAtMostOnce
BY InvInductive, PTL DEF Inv

\* The classifier never finds its answer in the cache.
THEOREM CacheIsNeverHit == Spec => []CacheNeverHit
<1>1. Inv => CacheNeverHit
  BY HandIsMessage DEF Inv, HandInLedger, LedgerFirst, CacheNeverHit
<1> QED BY <1>1, InvInductive, PTL

\* A webhook is POSTed only on a message recorded in full.
THEOREM AnnouncedOnceRecorded == Spec => PostedOnceRecorded
<1>1. Inv /\ [Next]_vars =>
        [posted' # posted =>
           /\ Id \in processed_messages
           /\ audit_rows[Id] = AuditLength
           /\ decision # None => llm_decisions[Id] = decision]_vars
  <2> SUFFICES ASSUME Inv, Next, posted' # posted
               PROVE  /\ Id \in processed_messages
                      /\ audit_rows[Id] = AuditLength
                      /\ decision # None => llm_decisions[Id] = decision
    OBVIOUS
  <2>1. NextWebhook
    BY DEF Next, Daemon, Process, Bichon, UserActs, IndexCatchesUp, Crash, Poll,
           Connect, ConnectFails, EndCycle, TakeNext, Download, Classify, Apply,
           ApplyFails, Record, RecordDecision, RecordAuditRow, DeliveryEnds,
           Finish, ProcessFails, history
  <2> QED
    BY <2>1 DEF NextWebhook, Inv, HandInLedger, Recorded, CompleteBeforeAnnounced
<1> QED
  BY <1>1, InvInductive, PTL DEF Spec, PostedOnceRecorded

-----------------------------------------------------------------------------
(* Deliveries without an audit row *)

Unaudited == {x \in MessageId \X Webhook : webhook_emissions[x] < posted[x]}

UnauditedBound == faults + crashes + (IF pc = "posting" THEN 1 ELSE 0)

UnauditedInv == IsFiniteSet(Unaudited) /\ Cardinality(Unaudited) <= UnauditedBound

\* A delivery begun adds one, and the bound has room for it.
LEMMA NextWebhookUnaudited ==
  ASSUME Inv, UnauditedInv, NextWebhook
  PROVE  UnauditedInv'
<1> DEFINE x == <<Id, WebhookAt(tags, Actions, hook + 1)>>
<1>1. faults \in Nat /\ crashes \in Nat /\ UNCHANGED <<faults, crashes>>
      /\ posted \in [MessageId \X Webhook -> Nat]
  BY DEF Inv, TypeOK, NextWebhook, bounds
<1>2. CASE UNCHANGED posted
  <2>1. UNCHANGED Unaudited
    BY <1>2 DEF NextWebhook, sidecar, Unaudited
  <2>2. UnauditedBound <= UnauditedBound'
    BY <1>1 DEF NextWebhook, UnauditedBound
  <2>3. Cardinality(Unaudited) \in Nat /\ UnauditedBound \in Nat /\ UnauditedBound' \in Nat
    BY <1>1, FS_CardinalityType DEF UnauditedInv, UnauditedBound
  <2> QED BY <2>1, <2>2, <2>3 DEF UnauditedInv
<1>3. CASE pc' = "posting" /\ posted' = [posted EXCEPT ![x] = @ + 1]
  <2>1. Unaudited' \in SUBSET (Unaudited \cup {x})
    BY <1>1, <1>3 DEF NextWebhook, sidecar, Unaudited
  <2>2. UnauditedBound' = UnauditedBound + 1
    BY <1>1, <1>3 DEF NextWebhook, UnauditedBound
  <2>3. IsFiniteSet(Unaudited \cup {x})
        /\ Cardinality(Unaudited \cup {x}) <= Cardinality(Unaudited) + 1
    <3>1. IsFiniteSet(Unaudited) /\ Cardinality(Unaudited) \in Nat
      BY FS_CardinalityType DEF UnauditedInv
    <3>2. IsFiniteSet(Unaudited \cup {x})
          /\ Cardinality(Unaudited \cup {x}) =
               IF x \in Unaudited THEN Cardinality(Unaudited) ELSE Cardinality(Unaudited) + 1
      BY <3>1, FS_AddElement, Zenon
    <3> HIDE DEF x
    <3> QED BY <3>1, <3>2
  <2>4. IsFiniteSet(Unaudited')
        /\ Cardinality(Unaudited') <= Cardinality(Unaudited \cup {x})
    BY <2>1, <2>3, FS_Subset
  <2>5. Cardinality(Unaudited) \in Nat /\ Cardinality(Unaudited') \in Nat
        /\ Cardinality(Unaudited \cup {x}) \in Nat /\ UnauditedBound \in Nat
    BY <1>1, <2>3, <2>4, FS_CardinalityType DEF UnauditedInv, UnauditedBound
  <2> QED BY <2>2, <2>3, <2>4, <2>5 DEF UnauditedInv
<1> QED BY <1>2, <1>3 DEF NextWebhook, Goto

\* A delivery that ends takes its message from the set, or costs a fault.
LEMMA DeliveryEndsUnauditedInv ==
  ASSUME Inv, UnauditedInv, DeliveryEnds
  PROVE  UnauditedInv'
<1> DEFINE x == <<Id, WebhookAt(tags, Actions, hook)>>
<1>1. /\ faults \in Nat /\ crashes \in Nat
      /\ webhook_emissions \in [MessageId \X Webhook -> Nat]
      /\ UNCHANGED <<posted, crashes>>
      /\ UnauditedBound = faults + crashes + 1
      /\ UnauditedBound' = faults' + crashes
  BY DEF Inv, TypeOK, DeliveryEnds, Goto, history, bounds, Fault, UnauditedBound
<1>2. x \in Unaudited /\ x \in MessageId \X Webhook
      /\ posted[x] = 1 /\ webhook_emissions[x] = 0
  BY HandIsMessage DEF Inv, DeliveryEnds, PostedByThisPass, Unaudited
<1>3. Cardinality(Unaudited) \in Nat
  BY FS_CardinalityType DEF UnauditedInv
<1>4. CASE webhook_emissions' = [webhook_emissions EXCEPT ![x] = @ + 1] /\ UNCHANGED bounds
  <2>1. Unaudited' = Unaudited \ {x}
    BY <1>1, <1>2, <1>4 DEF Unaudited
  <2>2. IsFiniteSet(Unaudited \ {x})
        /\ Cardinality(Unaudited \ {x}) = Cardinality(Unaudited) - 1
    BY <1>2, FS_RemoveElement DEF UnauditedInv
  <2>3. faults' = faults
    BY <1>4 DEF bounds
  <2> QED BY <1>1, <1>3, <2>1, <2>2, <2>3 DEF UnauditedInv
<1>5. CASE Fault /\ UNCHANGED webhook_emissions
  <2>1. UNCHANGED Unaudited
    BY <1>1, <1>5 DEF Unaudited
  <2>2. faults' = faults + 1
    BY <1>5 DEF Fault
  <2> QED BY <1>1, <1>3, <2>1, <2>2 DEF UnauditedInv
<1> QED BY <1>4, <1>5 DEF DeliveryEnds

\* A delivery without its audit row is under way, or an error or a crash cut
\* its pass short, for any configuration: each costs at most one row.
THEOREM MissingRowsArePaidFor == Spec => []UnauditedIsPaidFor
<1>1. Init => UnauditedInv
  <2> SUFFICES ASSUME Init PROVE UnauditedInv
    OBVIOUS
  <2>1. Unaudited = {}
    BY DEF Init, Unaudited
  <2> QED BY <2>1, FS_EmptySet DEF Init, UnauditedInv, UnauditedBound
<1>2. Inv /\ UnauditedInv /\ [Next]_vars => UnauditedInv'
  <2> SUFFICES ASSUME Inv, UnauditedInv, [Next]_vars PROVE UnauditedInv'
    OBVIOUS
  <2>1. CASE NextWebhook
    BY <2>1, NextWebhookUnaudited
  <2>2. CASE DeliveryEnds
    BY <2>2, DeliveryEndsUnauditedInv
  <2>3. CASE Crash
    <3>1. /\ UNCHANGED <<posted, webhook_emissions, faults>>
          /\ crashes' = crashes + 1 /\ pc' = "sleep"
      BY <2>3 DEF Crash, sidecar, history
    <3>2. UNCHANGED Unaudited
      BY <3>1 DEF Unaudited
    <3>3. Cardinality(Unaudited) \in Nat /\ faults \in Nat /\ crashes \in Nat
      BY FS_CardinalityType DEF UnauditedInv, Inv, TypeOK
    <3> QED BY <3>1, <3>2, <3>3 DEF UnauditedInv, UnauditedBound
  <2>4. ASSUME UNCHANGED <<posted, webhook_emissions, crashes>>,
               faults' = faults \/ faults' = faults + 1,
               pc' = "posting" <=> pc = "posting"
        PROVE  UnauditedInv'
    <3>1. UNCHANGED Unaudited
      BY <2>4 DEF Unaudited
    <3>2. Cardinality(Unaudited) \in Nat /\ faults \in Nat /\ crashes \in Nat
      BY FS_CardinalityType DEF UnauditedInv, Inv, TypeOK
    <3> QED BY <2>4, <3>1, <3>2 DEF UnauditedInv, UnauditedBound
  <2>5. CASE UNCHANGED vars
    BY <2>4, <2>5 DEF vars, sidecar, history, bounds
  <2>6. CASE Bichon \/ UserActs
    BY <2>4, <2>6 DEF Bichon, IndexCatchesUp, UserActs, sidecar, history, bounds
  <2>7. CASE \/ Poll \/ Connect \/ ConnectFails \/ EndCycle
             \/ \E e \in Envelope : TakeNext(e)
    BY <2>4, <2>7
       DEF Poll, Connect, ConnectFails, EndCycle, TakeNext, Fault, sidecar,
           history, bounds
  <2>8. CASE \/ Download \/ Classify \/ Apply \/ ApplyFails \/ Record
             \/ RecordDecision \/ RecordAuditRow \/ Finish \/ ProcessFails
    BY <2>4, <2>8
       DEF Download, Classify, Apply, ApplyFails, Record, RecordDecision,
           RecordAuditRow, Finish, ProcessFails, Fault, Goto, sidecar, history,
           bounds
  <2> QED
    BY <2>1, <2>2, <2>3, <2>5, <2>6, <2>7, <2>8 DEF Next, Daemon, Process
<1>3. UnauditedInv => UnauditedIsPaidFor
  BY DEF UnauditedInv, UnauditedIsPaidFor, Unaudited, UnauditedBound
<1> QED
  BY <1>1, <1>2, <1>3, InvInductive, PTL DEF Spec

-----------------------------------------------------------------------------
(* The mailbox *)

\* A message whose Message-ID is in the ledger is left alone on the server.
THEOREM LedgerIsRespected == Spec => LedgerFreezesMailbox
<1>1. Inv /\ [Next]_vars =>
        [\A e \in Envelope : IdOf[e] \in processed_messages =>
           /\ (e \in inbox /\ e \notin inbox') => userActs' > userActs
           /\ \A p \in Path : copies'[p][e] <= copies[p][e]
           /\ flags'[e] = flags[e]]_vars
  <2> SUFFICES ASSUME Inv, Next,
                      NEW e \in Envelope, IdOf[e] \in processed_messages
               PROVE  /\ (e \in inbox /\ e \notin inbox') => userActs' > userActs
                      /\ \A p \in Path : copies'[p][e] <= copies[p][e]
                      /\ flags'[e] = flags[e]
    OBVIOUS
  <2>1. MailboxTypeOK
    BY DEF Inv, TypeOK
  <2>2. \A p \in Path : copies[p][e] \in Nat
    BY <2>1 DEF MailboxTypeOK
  <2>3. CASE UNCHANGED <<mailbox, userActs>>
    BY <2>2, <2>3 DEF mailbox
  <2>4. CASE UserActs
    BY <2>1, <2>4, UserActsEffect
  <2>5. CASE Apply \/ ApplyFails
    <3>1. current \in Envelope /\ Id \notin processed_messages
      BY <2>5, HandIsMessage DEF Apply, ApplyFails, Inv, HandInLedger
    <3>2. e # current
      BY <3>1 DEF Id
    <3>3. /\ inbox \ {current} \subseteq inbox'
          /\ \A q \in Path : copies'[q][e] = copies[q][e]
          /\ flags'[e] = flags[e]
      BY <2>1, <2>5, <3>1, <3>2, ApplyEffect DEF Apply, ApplyFails
    <3> QED BY <2>2, <3>2, <3>3
  <2> QED
    BY <2>3, <2>4, <2>5
       DEF Next, Daemon, Process, Bichon, IndexCatchesUp, Crash, Poll, Connect,
           ConnectFails, EndCycle, TakeNext, Download, Classify, Record,
           RecordDecision, RecordAuditRow, NextWebhook, DeliveryEnds, Finish,
           ProcessFails
<1> QED
  BY <1>1, InvInductive, PTL DEF Spec, LedgerFreezesMailbox

-----------------------------------------------------------------------------
(* The steps of a plan *)

\* While apply_actions runs on a message that is still in INBOX, what it has
\* done shows: no step so far was the move, the flags are set, and the folders
\* copied to hold the message, but for one the user has dropped since, which
\* the step under way has created again.
StepShows(i) ==
  /\ plan[i].kind # "move_to"
  /\ plan[i].kind = "mark_seen" => "Seen" \in flags[current]
  /\ plan[i].kind = "mark_flagged" => "Flagged" \in flags[current]
  /\ plan[i].kind = "copy_to" =>
       LET p == ServerPath[plan[i].folder]
       IN  p \in Path \cap folders =>
             copies[p][current] > 0 \/ (stage = "act" /\ p = Target)

Applying ==
  /\ done \in Nat
  /\ stage # "check" => ~AllDone /\ Step.kind \in {"copy_to", "move_to"}
  /\ current \in inbox => \A i \in 1..done : StepShows(i)

AppliedSoFar == pc = "apply" => Applying

\* A flag is set, and the steps before it still show.
LEMMA AddFlagApplying ==
  ASSUME Inv, Applying, current \in Envelope, AddFlag(current), StepDone,
         UNCHANGED <<plan, current>>
  PROVE  Applying'
<1>1. /\ done' = done + 1 /\ stage' = "check" /\ stage = "check"
      /\ UNCHANGED <<inbox, copies, folders, plan, current>>
  BY DEF AddFlag, UidStore, StepDone, Applying
<1>2. ASSUME current \in inbox, NEW i \in 1..(done + 1)
      PROVE  StepShows(i)'
  <2>1. flags \in [Envelope -> SUBSET {"Seen", "Flagged"}]
    BY DEF Inv, TypeOK, MailboxTypeOK
  <2>2. flags[current] \subseteq flags'[current]
    BY <1>2, <2>1 DEF AddFlag, UidStore
  <2>3. CASE i = done + 1
    <3>1. /\ plan[i] = Step
          /\ \/ Step.kind = "mark_seen" /\ "Seen" \in flags'[current]
             \/ Step.kind = "mark_flagged" /\ "Flagged" \in flags'[current]
      BY <1>2, <2>1, <2>3 DEF AddFlag, UidStore, Step
    <3> QED BY <1>1, <3>1 DEF StepShows
  <2>4. CASE i \in 1..done
    <3>1. StepShows(i)
      BY <1>2, <2>4 DEF Applying
    <3> QED BY <1>1, <2>2, <3>1 DEF StepShows
  <2> QED BY <2>3, <2>4 DEF Applying
<1> QED BY <1>1, <1>2 DEF Applying

\* A copy is filed, or the message moved out of INBOX.
LEMMA FileMessageApplying ==
  ASSUME Inv, Applying, current \in Envelope, FileMessage(current), StepDone,
         UNCHANGED <<plan, current>>
  PROVE  Applying'
<1>1. /\ done' = done + 1 /\ stage' = "check" /\ stage = "act"
      /\ UNCHANGED <<folders, flags, plan, current>>
      /\ inbox' \subseteq inbox
      /\ copies' = Filed(current, Target)
  BY DEF FileMessage, UidCopy, UidMove, StepDone
<1>2. ASSUME current \in inbox', NEW i \in 1..(done + 1)
      PROVE  StepShows(i)'
  <2>1. copies \in [Path -> [Envelope -> Nat]] /\ current \in inbox
    BY <1>1, <1>2 DEF Inv, TypeOK, MailboxTypeOK
  <2>2. Step.kind = "copy_to"
    BY <1>2 DEF FileMessage, UidMove
  <2>3. ASSUME NEW p \in Path
        PROVE  /\ copies[p][current] > 0 => copies'[p][current] > 0
               /\ p = Target => copies'[p][current] > 0
    <3>1. copies[p] \in [Envelope -> Nat] /\ copies[p][current] \in Nat
      BY <2>1
    <3>2. copies' = [copies EXCEPT ![Target] = [copies[Target] EXCEPT ![current] = @ + 1]]
      BY <1>1, <2>1 DEF Filed
    <3>3. CASE p = Target
      <4>1. copies'[p] = [copies[p] EXCEPT ![current] = @ + 1]
        BY <2>1, <3>2, <3>3
      <4> QED BY <3>1, <4>1
    <3>4. CASE p # Target
      BY <2>1, <3>1, <3>2, <3>4
    <3> QED BY <3>3, <3>4
  <2>4. CASE i = done + 1
    <3>1. plan[i] = Step /\ ServerPath[plan[i].folder] = Target
      BY <2>4 DEF Step, Target
    <3> QED BY <1>1, <2>2, <2>3, <3>1 DEF StepShows
  <2>5. CASE i \in 1..done
    <3>1. StepShows(i)
      BY <2>1, <2>5 DEF Applying
    <3> QED BY <1>1, <2>3, <3>1 DEF StepShows
  <2> QED BY <2>4, <2>5 DEF Applying
<1> QED BY <1>1, <1>2 DEF Applying

\* The folder of the step under way is looked for, or created.
LEMMA PrepareApplying ==
  ASSUME Applying, UNCHANGED <<inbox, copies, flags, plan, done, current>>,
         \/ FolderExists
         \/ CreateFolder /\ ~AllDone /\ stage' = "act"
  PROVE  Applying'
<1>1. /\ \/ folders' = folders
         \/ folders' = folders \cup {Target} /\ stage' = "act"
      /\ stage # "act" /\ UNCHANGED <<Target, AllDone, Step>>
  BY DEF FolderExists, CreateFolder, CreateMailbox, mailbox, Target, Step, AllDone
<1>2. ~AllDone /\ Step.kind \in {"copy_to", "move_to"}
  BY DEF FolderExists, CreateFolder, Applying
<1>3. ASSUME NEW i \in 1..done, StepShows(i)
      PROVE  StepShows(i)'
  BY <1>1, <1>3 DEF StepShows
<1> QED BY <1>1, <1>2, <1>3 DEF Applying

\* The user takes the message, or a folder with its copy.
LEMMA UserActsApplying ==
  ASSUME Inv, Applying, UserActs, current \in Envelope
  PROVE  Applying'
<1>1. /\ UNCHANGED <<plan, done, stage, current, flags>> /\ inbox' \subseteq inbox
      /\ folders' \subseteq folders
  BY DEF UserActs, UserTakes, UserDropsFolder, writeback, local
<1>2. \A p \in Path \cap folders' : copies'[p] = copies[p]
  BY DEF UserActs, UserTakes, UserDropsFolder, Inv, TypeOK, MailboxTypeOK
<1>3. UNCHANGED <<Target, AllDone, Step>>
  BY <1>1 DEF Target, AllDone, Step
<1>4. ASSUME NEW i \in 1..done, StepShows(i)
      PROVE  StepShows(i)'
  BY <1>1, <1>2, <1>3, <1>4 DEF StepShows
<1> QED BY <1>1, <1>3, <1>4 DEF Applying

\* Every step keeps the plan applied so far.
LEMMA AppliedSoFarStep ==
  ASSUME Inv, AppliedSoFar, [Next]_vars
  PROVE  AppliedSoFar'
<1>1. CASE Apply
  <2>1. current \in Envelope /\ UNCHANGED <<pc, current>> /\ Applying
    BY <1>1, HandIsMessage DEF Apply, local, Inv, AppliedSoFar
  <2>2. CASE FolderExists
    BY <2>1, <2>2, PrepareApplying DEF FolderExists, mailbox, AppliedSoFar
  <2>3. CASE RunCommand(current)
    <3>1. UNCHANGED plan
      BY <2>3 DEF RunCommand
    <3>2. CASE CreateFolder /\ stage' = "act" /\ UNCHANGED done
      BY <2>1, <2>3, <3>1, <3>2, PrepareApplying
         DEF RunCommand, CreateFolder, CreateMailbox, AppliedSoFar
    <3>3. CASE AddFlag(current) /\ StepDone
      BY <2>1, <3>1, <3>3, AddFlagApplying DEF AppliedSoFar
    <3>4. CASE FileMessage(current) /\ StepDone
      BY <2>1, <3>1, <3>4, FileMessageApplying DEF AppliedSoFar
    <3> QED BY <2>3, <3>2, <3>3, <3>4 DEF RunCommand
  <2> QED BY <1>1, <2>2, <2>3 DEF Apply
<1>2. CASE UserActs
  BY <1>2, UserActsApplying, HandIsMessage DEF UserActs, Inv, AppliedSoFar
<1>3. CASE Classify
  <2>1. done' = 0 /\ stage' = "check"
    BY <1>3 DEF Classify, Begin
  <2> QED BY <2>1 DEF AppliedSoFar, Applying
<1>4. ASSUME pc' # "apply"
      PROVE  AppliedSoFar'
  BY <1>4 DEF AppliedSoFar
<1>5. ASSUME UNCHANGED <<mailbox, writeback, pc, current>>
      PROVE  AppliedSoFar'
  BY <1>5 DEF mailbox, writeback, AppliedSoFar, Applying, StepShows, Target,
              AllDone, Step
<1> QED
  BY <1>1, <1>2, <1>3, <1>4, <1>5
     DEF Next, Daemon, Process, Bichon, IndexCatchesUp, Crash, Poll, Connect,
         ConnectFails, EndCycle, TakeNext, Download, ApplyFails, Record,
         RecordDecision, RecordAuditRow, NextWebhook, DeliveryEnds, Finish,
         ProcessFails, Goto, vars, local

\* A message is recorded only once every step of its plan has been done to it,
\* for any plan, any acts of the user between two commands, any faults and
\* crashes, and folders the server does not tell apart.
THEOREM RecordingFollowsFiling == Spec => RecordedOnceFiled
<1>1. Init => AppliedSoFar
  BY DEF Init, AppliedSoFar
<1>2. Inv /\ AppliedSoFar /\ [Next]_vars =>
        [processed_messages' # processed_messages /\ current \in inbox =>
           \A i \in 1..Len(plan) :
             /\ plan[i].kind # "move_to"
             /\ plan[i].kind = "mark_seen" => "Seen" \in flags[current]
             /\ plan[i].kind = "mark_flagged" => "Flagged" \in flags[current]
             /\ plan[i].kind = "copy_to" =>
                  LET p == ServerPath[plan[i].folder]
                  IN  p \in Path \cap folders => copies[p][current] > 0]_vars
  <2> SUFFICES ASSUME Inv, AppliedSoFar, Next, current \in inbox,
                      processed_messages' # processed_messages,
                      NEW i \in 1..Len(plan)
               PROVE  StepShows(i) /\ stage = "check"
    BY DEF StepShows
  <2>1. Record
    BY DEF Next, Daemon, Process, Bichon, UserActs, IndexCatchesUp, Crash, Poll,
           Connect, ConnectFails, EndCycle, TakeNext, Download, Classify, Apply,
           ApplyFails, RecordDecision, RecordAuditRow, NextWebhook, DeliveryEnds,
           Finish, ProcessFails, sidecar
  <2> QED BY <2>1 DEF Record, AppliedSoFar, Applying, AllDone
<1> QED
  BY <1>1, <1>2, AppliedSoFarStep, InvInductive, PTL DEF Spec, RecordedOnceFiled

-----------------------------------------------------------------------------
(* What the message in hand is tagged with *)

\* The classifier adds its tags behind those of the filters.
LEMMA ClassifyTags ==
  ASSUME Inv, HandTagged, Classify
  PROVE  HandTagged'
<1>1. /\ pc = "classify" /\ pc' = "apply" /\ current' = current
      /\ tags = RunFilters(Filters, current) /\ Id \in MessageId
  BY HandIsMessage DEF Classify, Goto, HandTagged, Inv
<1>2. llm_decisions[Id] = None
  BY <1>1 DEF Inv, HandInLedger, LedgerFirst
<1>3. request' = ResolveActions(tags', Actions) /\ plan' = Consolidate(request')
  BY DEF Classify, Begin
<1>4. CASE UseLlm
  <2>1. answer' \in Answer /\ answer' # None
    BY <1>2, <1>4, IdAssumption DEF Classify
  <2>2. tags' = MergeLlmTags(tags, Outcome(answer'))
    BY <1>4, <2>1 DEF Classify
  <2> QED BY <1>1, <1>3, <1>4, <2>1, <2>2 DEF HandTagged
<1>5. CASE ~UseLlm
  <2>1. answer' = None /\ tags' = tags
    BY <1>5 DEF Classify
  <2> QED BY <1>1, <1>3, <1>5, <2>1 DEF HandTagged
<1> QED BY <1>4, <1>5

\* Every step keeps the tags of the message in hand.
LEMMA HandTaggedStep ==
  ASSUME Inv, HandTagged, [Next]_vars
  PROVE  HandTagged'
<1>1. CASE Download
  BY <1>1 DEF Download, Goto, HandTagged
<1>2. CASE Classify
  BY <1>2, ClassifyTags
<1>3. CASE Apply
  <2>1. UNCHANGED <<pc, current, tags, answer, request, plan>>
    BY <1>3 DEF Apply, FolderExists, RunCommand, local
  <2> QED BY <2>1 DEF HandTagged
<1>4. ASSUME pc' \notin {"classify", "apply"}
      PROVE  HandTagged'
  BY <1>4 DEF HandTagged
<1>5. ASSUME UNCHANGED <<pc, local, writeback>>
      PROVE  HandTagged'
  BY <1>5 DEF local, writeback, HandTagged
<1> QED
  BY <1>1, <1>2, <1>3, <1>4, <1>5
     DEF Next, Daemon, Process, Bichon, UserActs, IndexCatchesUp, Crash, Poll,
         Connect, ConnectFails, EndCycle, TakeNext, ApplyFails, Record,
         RecordDecision, RecordAuditRow, NextWebhook, DeliveryEnds, Finish,
         ProcessFails, Goto, vars

\* The message in hand carries the tags of the filters and of the model's
\* answer, and its plan is what those tags ask for.
LEMMA TagsInHand == Spec => [](Inv /\ HandTagged)
<1>1. Init => HandTagged
  BY DEF Init, HandTagged
<1> QED BY <1>1, HandTaggedStep, InvInductive, PTL DEF Spec

\* The tags of the filters are some sequence of tags.
LEMMA FilterTags ==
  \E T : RunFilters(Filters, current) \in Seq(T)
BY ConfigAssumption, FiltersRun

\* What a dry run announces of a message is what the daemon begins with when it
\* acts on it, and it reports as skipped what the daemon has recorded.
THEOREM DryRunIsHonest == Spec => []DryRunAnnounces
<1>1. Inv /\ HandTagged => DryRunAnnounces
  <2> SUFFICES ASSUME Inv, HandTagged PROVE DryRunAnnounces
    OBVIOUS
  <2>a. PICK filtered : filtered = RunFilters(Filters, current)
    OBVIOUS
  <2>1. pc = "apply" => ~WouldSkip(current)
    BY DEF Inv, HandInLedger, WouldSkip, Id
  <2>2. pc \in Recorded => WouldSkip(current)
    BY DEF Inv, HandInLedger, WouldSkip, Id
  <2>3. ASSUME pc = "apply" PROVE IsPrefix(WouldProcess(current), request)
    <3>1. PICK T : filtered \in Seq(T)
      BY <2>a, FilterTags
    <3>2. \E U : \E b \in Seq(U) : filtered \in Seq(U) /\ tags = filtered \o b
      <4>1. CASE UseLlm
        <5>a. PICK outcome : outcome = Outcome(answer)
          OBVIOUS
        <5>1. tags = MergeLlmTags(filtered, outcome)
          BY <2>3, <2>a, <4>1, <5>a DEF HandTagged
        <5>2. MergesBehind(T, filtered, outcome)
          BY <3>1, MergedTags
        <5>4. PICK U : \E b \in Seq(U) :
                         T \subseteq U /\ MergeLlmTags(filtered, outcome) = filtered \o b
          BY <5>2 DEF MergesBehind
        <5>3. filtered \in Seq(U)
          BY <3>1, <5>4
        <5> QED BY <5>1, <5>3, <5>4
      <4>2. CASE ~UseLlm
        <5>1. tags = filtered
          BY <2>3, <2>a, <4>2 DEF HandTagged
        <5>2. filtered = filtered \o <<>> /\ <<>> \in Seq(T)
          BY <3>1
        <5> QED BY <3>1, <5>1, <5>2
      <4> QED BY <4>1, <4>2
    <3>3. PICK U : \E b \in Seq(U) : filtered \in Seq(U) /\ tags = filtered \o b
      BY <3>2
    <3>4. PICK b \in Seq(U) : filtered \in Seq(U) /\ tags = filtered \o b
      BY <3>3
    <3>5. IsPrefix(ResolveActions(filtered, Actions), ResolveActions(filtered \o b, Actions))
      BY <3>4, ConfigAssumption, ResolvePrefix
    <3>6. request = ResolveActions(tags, Actions)
      BY <2>3 DEF HandTagged
    <3> QED BY <2>a, <3>4, <3>5, <3>6 DEF WouldProcess
  <2> QED BY <2>1, <2>2, <2>3 DEF DryRunAnnounces
<1> QED BY <1>1, TagsInHand, PTL

-----------------------------------------------------------------------------
(* What the model's answer is read as *)

ObjectsOf(text) == {i \in DOMAIN text : text[i].kind = "object"}

SaidBy(text) == {Classified(text[i].fields) : i \in ObjectsOf(text)} \ {None}

\* A classification is read off one of the objects of the reply.
LEMMA ReadOffAnObject ==
  ASSUME NEW T, NEW text \in Seq(T)
  PROVE  ParseClassification(ExtractJson(text)) \in SaidBy(text) \cup {None}
<1>a. PICK json : json = ExtractJson(text)
  OBVIOUS
<1> SUFFICES ASSUME Len(json) = 1, json[1].kind = "object"
             PROVE  \E i \in ObjectsOf(text) : json[1] = text[i]
  <2>1. CASE Len(json) = 1 /\ json[1].kind = "object"
    BY <1>a, <2>1 DEF ParseClassification, SaidBy
  <2>2. CASE ~(Len(json) = 1 /\ json[1].kind = "object")
    BY <1>a, <2>2 DEF ParseClassification
  <2> QED BY <2>1, <2>2
<1>1. DOMAIN text = 1..Len(text) /\ Len(text) \in Nat
  OBVIOUS
<1>2. CASE json = text
  <2>1. 1 \in DOMAIN text
    BY <1>1, <1>2
  <2> QED BY <1>2, <2>1 DEF ObjectsOf
<1>3. CASE json # text
  <2>a. PICK opens : opens = {i \in DOMAIN text : text[i].kind \in Opening}
    OBVIOUS
  <2>b. PICK closes : closes = {i \in DOMAIN text : text[i].kind \in Closing}
    OBVIOUS
  <2>1. opens # {} /\ closes # {} /\ json = SubSeq(text, Min(opens), Max(closes))
    BY <1>a, <1>3, <2>a, <2>b DEF ExtractJson
  <2>c. PICK lo : lo = Min(opens)
    OBVIOUS
  <2>d. PICK hi : hi = Max(closes)
    OBVIOUS
  <2>2. lo \in opens
    <3>1. opens \subseteq Nat
      BY <1>1, <2>a
    <3>2. \E x \in opens : \A y \in opens : x <= y
      BY <2>1, <3>1, Least
    <3> QED BY <3>2, <2>c DEF Min
  <2>3. hi \in closes
    <3>a. PICK flip : flip = {Len(text) - x : x \in closes}
      OBVIOUS
    <3>1. flip \subseteq Nat /\ flip # {}
      BY <1>1, <2>1, <2>b, <3>a
    <3>2. PICK x \in flip : \A y \in flip : x <= y
      BY <3>1, Least
    <3>3. PICK c \in closes : x = Len(text) - c
      BY <3>2, <3>a
    <3>4. ASSUME NEW y \in closes PROVE c >= y
      <4>1. x <= Len(text) - y
        BY <3>2, <3>a
      <4>2. y \in Nat /\ c \in Nat
        BY <1>1, <2>b
      <4> QED BY <1>1, <3>3, <4>1, <4>2
    <3>5. \E z \in closes : \A y \in closes : z >= y
      BY <3>4
    <3> QED BY <3>5, <2>d DEF Max
  <2>4. lo \in 1..Len(text) /\ hi \in 1..Len(text)
    BY <1>1, <2>2, <2>3, <2>a, <2>b
  <2>5. json = SubSeq(text, lo, hi)
    BY <2>1, <2>c, <2>d
  <2>6. json[1] = text[lo]
    BY <1>1, <2>4, <2>5
  <2> QED BY <1>1, <2>4, <2>6 DEF ObjectsOf
<1> QED BY <1>2, <1>3

\* The one object of a reply that is otherwise prose is what is read.
LEMMA OneObjectIsRead ==
  ASSUME NEW T, NEW text \in Seq(T), NEW o, ObjectsOf(text) = {o},
         \A i \in DOMAIN text : text[i].kind \in {"prose", "object"},
         SaidBy(text) # {}
  PROVE  ParseClassification(ExtractJson(text)) \in SaidBy(text)
<1>1. DOMAIN text = 1..Len(text) /\ Len(text) \in Nat /\ o \in 1..Len(text)
      /\ text[o].kind = "object"
  BY DEF ObjectsOf
<1>2. /\ {i \in DOMAIN text : text[i].kind \in Opening} = {o}
      /\ {i \in DOMAIN text : text[i].kind \in Closing} = {o}
  <2>1. "object" \in Opening /\ "object" \in Closing
    BY DEF Opening, Closing
  <2>2. "prose" \notin Opening /\ "prose" \notin Closing
    BY Zenon DEF Opening, Closing
  <2> QED BY <2>1, <2>2 DEF ObjectsOf
<1>3. Min({o}) = o /\ Max({o}) = o
  BY <1>1 DEF Min, Max
<1>4. ExtractJson(text) = SubSeq(text, o, o)
  <2>a. PICK opens : opens = {i \in DOMAIN text : text[i].kind \in Opening}
    OBVIOUS
  <2>b. PICK closes : closes = {i \in DOMAIN text : text[i].kind \in Closing}
    OBVIOUS
  <2>1. ExtractJson(text) =
          IF opens # {} /\ closes # {} /\ Min(opens) <= Max(closes)
          THEN SubSeq(text, Min(opens), Max(closes)) ELSE text
    BY <2>a, <2>b DEF ExtractJson
  <2>2. opens = {o} /\ closes = {o}
    BY <1>2, <2>a, <2>b
  <2>3. Min(opens) = o /\ Max(closes) = o /\ opens # {} /\ closes # {} /\ o <= o
    BY <1>1, <1>3, <2>2
  <2> QED BY <2>1, <2>3
<1>5. Len(SubSeq(text, o, o)) = 1 /\ SubSeq(text, o, o)[1] = text[o]
  BY <1>1
<1>6. ParseClassification(ExtractJson(text)) = Classified(text[o].fields)
  BY <1>1, <1>4, <1>5 DEF ParseClassification
<1>7. SaidBy(text) = {Classified(text[o].fields)} \ {None}
  BY DEF SaidBy
<1> QED BY <1>6, <1>7

\* The tags of the message are those of the filters and of one classification
\* of the reply or of a failure, and a reply with one classification among
\* prose is not a failure.
THEOREM ReplyHeeded == Spec => []ReplyIsHeeded
<1>1. Inv /\ HandTagged => ReplyIsHeeded
  <2> SUFFICES ASSUME HandTagged, pc = "apply", answer # None
               PROVE  ReplyIsHeeded
    BY DEF ReplyIsHeeded
  <2>b. PICK tagged : tagged = ToSet(tags)
    OBVIOUS
  <2>c. PICK filtered : filtered = ToSet(RunFilters(Filters, current))
    OBVIOUS
  <2>d. PICK text : text = Complete(answer)
    OBVIOUS
  <2>e. PICK objects : objects = IF text = None THEN {} ELSE ObjectsOf(text)
    OBVIOUS
  <2>f. PICK said : said = {Classified(text[i].fields) : i \in objects} \ {None}
    OBVIOUS
  <2>a. PICK outcome : outcome = Outcome(answer)
    OBVIOUS
  <2>1. answer \in Answer /\ tags = MergeLlmTags(RunFilters(Filters, current), outcome)
    BY <2>a DEF HandTagged
  <2>2. tagged = filtered \cup ToSet(LlmTags(outcome))
    <3>1. PICK T : RunFilters(Filters, current) \in Seq(T)
      BY FilterTags
    <3>2. MergesBehind(T, RunFilters(Filters, current), outcome)
      BY <3>1, MergedTags
    <3> QED BY <2>1, <2>b, <2>c, <3>2 DEF MergesBehind
  <2>3. /\ outcome \in said \cup {None}
        /\ said # {} /\ Cardinality(objects) = 1
             /\ (\A i \in DOMAIN text : text[i].kind \in {"prose", "object"})
             => outcome \in said
    <3>1. CASE text = None
      <4>1. outcome = None /\ said = {}
        BY <3>1, <2>a, <2>d, <2>e, <2>f DEF Outcome
      <4> QED BY <4>1
    <3>2. CASE text # None
      <4>1. objects = ObjectsOf(text) /\ said = SaidBy(text)
            /\ outcome = ParseClassification(ExtractJson(text))
        BY <3>2, <2>a, <2>d, <2>e, <2>f DEF Outcome, SaidBy
      <4>2. text \in Seq(ToSet(text))
        <5>a. PICK choices : choices = answer.choices
          OBVIOUS
        <5>1. choices # None /\ choices # <<>> /\ text = Head(choices)
          BY <3>2, <2>d, <5>a DEF Complete
        <5>2. /\ choices \in Seq(ToSet(choices))
              /\ \A reply \in ToSet(choices) : reply \in Seq(ToSet(reply))
          BY <2>1, <5>1, <5>a, AnswerAssumption
        <5>3. text \in ToSet(choices)
          BY <5>1, <5>2
        <5> QED BY <5>2, <5>3
      <4>3. outcome \in said \cup {None}
        BY <4>1, <4>2, ReadOffAnObject
      <4>4. ASSUME said # {}, Cardinality(objects) = 1,
                   \A i \in DOMAIN text : text[i].kind \in {"prose", "object"}
            PROVE  outcome \in said
        <5>1. IsFiniteSet(objects)
          <6>1. DOMAIN text = 1..Len(text) /\ Len(text) \in Nat
            BY <4>2
          <6>2. IsFiniteSet(1..Len(text)) /\ objects \subseteq 1..Len(text)
            BY <4>1, <6>1, FS_Interval DEF ObjectsOf
          <6> QED BY <6>2, FS_Subset
        <5>2. PICK o : objects = {o}
          BY <4>4, <5>1, FS_Singleton
        <5> QED BY <4>1, <4>2, <4>4, <5>2, OneObjectIsRead
      <4> QED BY <4>3, <4>4
    <3> QED BY <3>1, <3>2
  <2>4. /\ \E x \in said \cup {None} : tagged = filtered \cup ToSet(LlmTags(x))
        /\ said # {} /\ Cardinality(objects) = 1
             /\ (\A i \in DOMAIN text : text[i].kind \in {"prose", "object"})
             => \E c \in said : tagged = filtered \cup ToSet(LlmTags(c))
    BY <2>2, <2>3
  <2> QED BY <2>4, <2>b, <2>c, <2>d, <2>e, <2>f DEF ReplyIsHeeded, ObjectsOf
<1> QED BY <1>1, TagsInHand, PTL

-----------------------------------------------------------------------------
(* What repeats cost *)

\* What has come in the way of a pass so far.
Interruptions == faults + crashes + userActs

\* Nothing more can be done on the server before the next cycle, or at all to
\* the message in hand.
CutShort ==
  /\ pc \notin {"sleep", "connect"}
  /\ ~session \/ (pc = "apply" /\ stage = "act" /\ Target \notin folders)

\* The steps done so far have filed into mailbox p.
FiledIn(p) == \E i \in 1..done : IsFiling(plan[i]) /\ ServerPath[plan[i].folder] = p

HasFiled(p, e) == pc = "apply" /\ current = e /\ FiledIn(p)

\* The cycle under way can still file e in p.
MayFile(p, e) ==
  \/ e \in batch
  \/ e = current /\ pc \in {"download", "classify"}
  \/ e = current /\ pc = "apply" /\ ~FiledIn(p)

May(p, e) == IF MayFile(p, e) THEN 1 ELSE 0
Has(p, e) == IF HasFiled(p, e) THEN 1 ELSE 0

\* The copies of a message not recorded yet, with the one it may still get in
\* this cycle, are paid for; or they are short of that one and nothing has come
\* in the way.
CopyPaid(p, e) == copies[p][e] + May(p, e) <= Interruptions
CopyDue(p, e)  == copies[p][e] <= Interruptions + Has(p, e)

CopiesCounted ==
  \A p \in Path, e \in Envelope :
    /\ copies[p][e] <= 1 + Interruptions
    /\ IdOf[e] \notin processed_messages => CopyPaid(p, e) \/ (CopyDue(p, e) /\ ~CutShort)

Bearers(m) == {e \in Envelope : IdOf[e] = m}

\* The messages of a Message-ID the cycle under way can still have classified.
MayClassify(m) ==
  {e \in Bearers(m) : e \in batch \/ (e = current /\ pc \in {"download", "classify"})}

Now(m) == IF pc = "apply" /\ Id = m THEN 1 ELSE 0

CallsPaid(m) ==
  classified[m] + Cardinality(MayClassify(m)) <= Interruptions * Cardinality(Bearers(m))
CallsDue(m) ==
  classified[m] <= Interruptions * Cardinality(Bearers(m)) + Now(m)

CallsCounted ==
  \A m \in MessageId :
    /\ classified[m] <= (1 + Interruptions) * Cardinality(Bearers(m))
    /\ m \notin processed_messages => CallsPaid(m) \/ (CallsDue(m) /\ ~CutShort)

Counted == CopiesCounted /\ CallsCounted

\* A message is taken from the batch once; its plan is not overrun.
HandOK ==
  /\ current \notin batch
  /\ pc = "apply" => done \in Nat /\ 1..done \subseteq DOMAIN plan

\* The counts are numbers.
LEMMA Numbers ==
  ASSUME TypeOK
  PROVE  /\ Interruptions \in Nat
         /\ \A p \in Path, e \in Envelope : copies[p][e] \in Nat
         /\ \A m \in MessageId : classified[m] \in Nat
BY DEF TypeOK, MailboxTypeOK, Interruptions

\* There are finitely many messages of a Message-ID.
LEMMA BearersFinite ==
  ASSUME NEW m
  PROVE  /\ IsFiniteSet(Bearers(m)) /\ Cardinality(Bearers(m)) \in Nat
         /\ IsFiniteSet(MayClassify(m)) /\ Cardinality(MayClassify(m)) \in Nat
         /\ Cardinality(MayClassify(m)) <= Cardinality(Bearers(m))
<1>1. IsFiniteSet(Bearers(m))
  BY IdAssumption, FS_Subset DEF Bearers
<1>2. MayClassify(m) \subseteq Bearers(m)
  BY DEF MayClassify
<1> QED BY <1>1, <1>2, FS_Subset, FS_CardinalityType

\* One copy more, or one call more for each message, and no further than that.
LEMMA CopyBound ==
  ASSUME TypeOK, HandOK, CopiesCounted, NEW p \in Path, NEW e \in Envelope,
         IdOf[e] \notin processed_messages
  PROVE  copies[p][e] + May(p, e) <= Interruptions + 1
<1>1. Interruptions \in Nat /\ copies[p][e] \in Nat
  BY Numbers
<1>2. CopyPaid(p, e) \/ CopyDue(p, e)
  BY DEF CopiesCounted
<1>3. May(p, e) \in {0, 1} /\ Has(p, e) \in {0, 1}
  BY DEF May, Has
<1>4. Has(p, e) = 1 => May(p, e) = 0
  BY DEF HandOK, Has, May, HasFiled, MayFile
<1> QED BY <1>1, <1>2, <1>3, <1>4 DEF CopyPaid, CopyDue

\* A message not in the ledger has calls left to its bound.
LEMMA CallBound ==
  ASSUME TypeOK, HandOK, CallsCounted, NEW m \in MessageId, m \notin processed_messages
  PROVE  classified[m] + Cardinality(MayClassify(m)) <=
           Interruptions * Cardinality(Bearers(m)) + Cardinality(Bearers(m))
<1>a. PICK n : n = Cardinality(Bearers(m))
  OBVIOUS
<1>b. PICK w : w = Cardinality(MayClassify(m))
  OBVIOUS
<1>c. PICK t : t = Interruptions * n
  OBVIOUS
<1>1. Interruptions \in Nat /\ classified[m] \in Nat /\ n \in Nat /\ w \in Nat /\ w <= n
  BY Numbers, BearersFinite, <1>a, <1>b
<1>2. t \in Nat
  BY <1>1, <1>c
<1>3. classified[m] + w <= t \/ classified[m] <= t + Now(m)
  BY <1>a, <1>b, <1>c DEF CallsCounted, CallsPaid, CallsDue
<1>4. Now(m) \in {0, 1}
  BY DEF Now
<1>5. ASSUME Now(m) = 1 PROVE w + 1 <= n
  <2>1. pc = "apply" /\ Id = m
    BY <1>5 DEF Now
  <2>2. current \in Bearers(m)
    BY <2>1, HandIsMessage DEF Bearers, Id
  <2>3. MayClassify(m) \subseteq Bearers(m) \ {current}
    BY <2>1 DEF HandOK, MayClassify
  <2>4. IsFiniteSet(Bearers(m)) /\ IsFiniteSet(Bearers(m) \ {current})
        /\ Cardinality(Bearers(m) \ {current}) = n - 1
    BY <2>2, <1>a, BearersFinite, FS_RemoveElement
  <2>5. w <= n - 1
    BY <2>3, <2>4, <1>b, FS_Subset
  <2> QED BY <1>1, <2>5
<1>6. classified[m] + w <= t + n
  BY <1>1, <1>2, <1>3, <1>4, <1>5
<1> QED BY <1>6, <1>a, <1>b, <1>c

\* Interruptions times the messages.
LEMMA Times ==
  ASSUME NEW i \in Nat, NEW j \in Nat, NEW n \in Nat
  PROVE  /\ i * n \in Nat /\ (1 + i) * n = i * n + n
         /\ j >= i + 1 => j * n >= i * n + n
<1>1. i * n \in Nat /\ (1 + i) * n = i * n + n
  OBVIOUS
<1>2. ASSUME j >= i + 1 PROVE j * n >= i * n + n
  <2>1. PICK k \in Nat : j = i + 1 + k
    <3>1. j - (i + 1) \in Nat /\ j = i + 1 + (j - (i + 1))
      BY <1>2
    <3> QED BY <3>1
  <2>2. j * n = i * n + n + k * n /\ k * n \in Nat
    BY <2>1
  <2> QED BY <1>1, <2>2
<1> QED BY <1>1, <1>2

-----------------------------------------------------------------------------
\* A step that nothing interrupts, and one that an interruption pays for.

CopiesSteady ==
  \A p \in Path, e \in Envelope :
    /\ IdOf[e] \in processed_messages' => copies'[p][e] <= copies[p][e]
    /\ IdOf[e] \notin processed_messages' =>
         /\ copies'[p][e] + May(p, e)' <= copies[p][e] + May(p, e)
         /\ ~CutShort => copies'[p][e] + Has(p, e) <= copies[p][e] + Has(p, e)'

CallsSteady ==
  \A m \in MessageId :
    /\ m \in processed_messages' => classified'[m] <= classified[m]
    /\ m \notin processed_messages' =>
         /\ classified'[m] + Cardinality(MayClassify(m)') <=
              classified[m] + Cardinality(MayClassify(m))
         /\ ~CutShort => classified'[m] + Now(m) <= classified[m] + Now(m)'

Steady ==
  /\ Interruptions' = Interruptions
  /\ processed_messages \subseteq processed_messages'
  /\ CutShort' => CutShort
  /\ CopiesSteady /\ CallsSteady

\* A step that neither triages nor interrupts keeps the counts.
LEMMA SteadyKeeps ==
  ASSUME TypeOK, TypeOK', Counted, Steady
  PROVE  Counted'
<1>a. PICK i : i = Interruptions
  OBVIOUS
<1>1. /\ i \in Nat /\ Interruptions' = i
      /\ processed_messages \subseteq processed_messages' /\ (CutShort' => CutShort)
  BY Numbers, <1>a DEF Steady
<1>2. ASSUME NEW p \in Path, NEW e \in Envelope
      PROVE  /\ copies'[p][e] <= 1 + i
             /\ IdOf[e] \notin processed_messages' =>
                  CopyPaid(p, e)' \/ (CopyDue(p, e)' /\ ~CutShort')
  <2>1. copies[p][e] \in Nat
    BY Numbers
  <2>2. copies'[p][e] \in Nat
    BY DEF TypeOK, MailboxTypeOK
  <2>3. May(p, e) \in {0, 1} /\ May(p, e)' \in {0, 1}
        /\ Has(p, e) \in {0, 1} /\ Has(p, e)' \in {0, 1}
    BY DEF May, Has
  <2>4. CASE IdOf[e] \in processed_messages'
    <3>1. copies'[p][e] <= copies[p][e]
      BY <2>4 DEF Steady, CopiesSteady
    <3>2. copies[p][e] <= 1 + i
      BY <1>a DEF Counted, CopiesCounted
    <3> QED BY <1>1, <2>1, <2>2, <2>4, <3>1, <3>2
  <2>5. CASE IdOf[e] \notin processed_messages'
    <3>1. /\ copies'[p][e] + May(p, e)' <= copies[p][e] + May(p, e)
          /\ ~CutShort => copies'[p][e] + Has(p, e) <= copies[p][e] + Has(p, e)'
      BY <2>5 DEF Steady, CopiesSteady
    <3>2. \/ copies[p][e] + May(p, e) <= i
          \/ copies[p][e] <= i + Has(p, e) /\ ~CutShort
      BY <1>1, <1>a, <2>5 DEF Counted, CopiesCounted, CopyPaid, CopyDue
    <3>3. \/ copies'[p][e] + May(p, e)' <= i
          \/ copies'[p][e] <= i + Has(p, e)' /\ ~CutShort'
      BY <1>1, <2>1, <2>2, <2>3, <3>1, <3>2
    <3>4. copies'[p][e] <= 1 + i
      BY <1>1, <2>2, <2>3, <3>3
    <3> QED BY <1>1, <3>3, <3>4 DEF CopyPaid, CopyDue
  <2> QED BY <2>4, <2>5
<1>3. ASSUME NEW m \in MessageId
      PROVE  /\ classified'[m] <= (1 + i) * Cardinality(Bearers(m))
             /\ m \notin processed_messages' =>
                  CallsPaid(m)' \/ (CallsDue(m)' /\ ~CutShort')
  <2>a. PICK n : n = Cardinality(Bearers(m))
    OBVIOUS
  <2>b. PICK w : w = Cardinality(MayClassify(m))
    OBVIOUS
  <2>c. PICK x : x = Cardinality(MayClassify(m)')
    OBVIOUS
  <2>d. PICK t : t = i * n
    OBVIOUS
  <2>1. classified[m] \in Nat /\ n \in Nat /\ w \in Nat
    BY Numbers, BearersFinite, <2>a, <2>b
  <2>2. classified'[m] \in Nat
    BY DEF TypeOK
  <2>3. x \in Nat
    <3>1. MayClassify(m)' \subseteq Bearers(m)
      BY DEF MayClassify, Bearers
    <3> QED BY <3>1, <2>c, BearersFinite, FS_Subset, FS_CardinalityType
  <2>4. Now(m) \in {0, 1} /\ Now(m)' \in {0, 1}
    BY DEF Now
  <2>5. t \in Nat /\ (1 + i) * n = t + n
    BY <1>1, <2>1, <2>d, Times
  <2>6. CASE m \in processed_messages'
    <3>1. classified'[m] <= classified[m]
      BY <2>6 DEF Steady, CallsSteady
    <3>2. classified[m] <= (1 + i) * n
      BY <1>a, <2>a DEF Counted, CallsCounted
    <3> QED BY <2>1, <2>2, <2>5, <2>6, <2>a, <3>1, <3>2
  <2>7. CASE m \notin processed_messages'
    <3>1. /\ classified'[m] + x <= classified[m] + w
          /\ ~CutShort => classified'[m] + Now(m) <= classified[m] + Now(m)'
      BY <2>7, <2>b, <2>c DEF Steady, CallsSteady
    <3>2. \/ classified[m] + w <= t
          \/ classified[m] <= t + Now(m) /\ ~CutShort
      BY <1>1, <1>a, <2>7, <2>a, <2>b, <2>d DEF Counted, CallsCounted, CallsPaid, CallsDue
    <3>3. \/ classified'[m] + x <= t
          \/ classified'[m] <= t + Now(m)' /\ ~CutShort'
      BY <1>1, <2>1, <2>2, <2>3, <2>4, <2>5, <3>1, <3>2
    <3>4. Now(m)' = 1 => n >= 1
      <4>1. ASSUME Now(m)' = 1 PROVE current' \in Bearers(m)
        BY <4>1, IdAssumption DEF Now, Bearers, Id, TypeOK
      <4>2. ASSUME Bearers(m) # {} PROVE n # 0
        BY <4>2, <2>a, BearersFinite, FS_EmptySet
      <4> QED BY <4>1, <4>2, <2>1
    <3>5. classified'[m] <= t + n
      BY <2>1, <2>2, <2>3, <2>4, <2>5, <3>3, <3>4
    <3>6. Bearers(m)' = Bearers(m)
      BY DEF Bearers
    <3>7. CallsPaid(m)' \/ (CallsDue(m)' /\ ~CutShort')
      BY <1>1, <2>a, <2>c, <2>d, <3>3, <3>6 DEF CallsPaid, CallsDue
    <3> QED BY <2>5, <2>7, <2>a, <3>5, <3>7
  <2> QED BY <2>6, <2>7
<1>4. CopiesCounted'
  BY <1>1, <1>2 DEF CopiesCounted
<1>5. CallsCounted'
  <2>1. \A m : Bearers(m)' = Bearers(m)
    BY DEF Bearers
  <2> QED BY <1>1, <1>3, <2>1 DEF CallsCounted
<1> QED BY <1>4, <1>5 DEF Counted

\* A step that moves the message in hand on, and touches neither the copies, nor
\* the ledger, nor the model.
Quiet ==
  /\ Interruptions' = Interruptions
  /\ UNCHANGED <<copies, processed_messages, classified>>
  /\ CutShort' => CutShort
  /\ \A p \in Path, e \in Envelope :
       /\ MayFile(p, e)' => MayFile(p, e)
       /\ ~CutShort /\ HasFiled(p, e) => HasFiled(p, e)'
  /\ \A m \in MessageId :
       /\ MayClassify(m)' \subseteq MayClassify(m)
       /\ ~CutShort => Now(m) <= Now(m)'

\* The steps without effect on the counts.
LEMMA QuietIsSteady ==
  ASSUME TypeOK, Quiet
  PROVE  Steady
<1>1. ASSUME NEW p \in Path, NEW e \in Envelope
      PROVE  /\ copies'[p][e] <= copies[p][e]
             /\ copies'[p][e] + May(p, e)' <= copies[p][e] + May(p, e)
             /\ ~CutShort => copies'[p][e] + Has(p, e) <= copies[p][e] + Has(p, e)'
  <2>1. copies[p][e] \in Nat /\ copies'[p][e] = copies[p][e]
    BY Numbers DEF Quiet
  <2>2. May(p, e) \in {0, 1} /\ May(p, e)' \in {0, 1}
        /\ Has(p, e) \in {0, 1} /\ Has(p, e)' \in {0, 1}
    BY DEF May, Has
  <2>3. May(p, e)' = 1 => May(p, e) = 1
    BY DEF Quiet, May
  <2>4. ~CutShort => (Has(p, e) = 1 => Has(p, e)' = 1)
    BY DEF Quiet, Has
  <2> QED BY <2>1, <2>2, <2>3, <2>4
<1>2. CopiesSteady
  BY <1>1 DEF CopiesSteady
<1>3. ASSUME NEW m \in MessageId
      PROVE  /\ classified'[m] <= classified[m]
             /\ classified'[m] + Cardinality(MayClassify(m)') <=
                  classified[m] + Cardinality(MayClassify(m))
             /\ ~CutShort => classified'[m] + Now(m) <= classified[m] + Now(m)'
  <2>a. PICK w : w = Cardinality(MayClassify(m))
    OBVIOUS
  <2>b. PICK x : x = Cardinality(MayClassify(m)')
    OBVIOUS
  <2>1. classified[m] \in Nat /\ classified'[m] = classified[m]
    BY Numbers DEF Quiet
  <2>2. IsFiniteSet(MayClassify(m)) /\ MayClassify(m)' \subseteq MayClassify(m)
    BY BearersFinite DEF Quiet
  <2>3. w \in Nat /\ x \in Nat /\ x <= w
    BY <2>2, <2>a, <2>b, FS_Subset, FS_CardinalityType
  <2>4. Now(m) \in {0, 1} /\ Now(m)' \in {0, 1} /\ (~CutShort => Now(m) <= Now(m)')
    BY DEF Now, Quiet
  <2> QED BY <2>1, <2>3, <2>4, <2>a, <2>b
<1>4. CallsSteady
  BY <1>3 DEF CallsSteady
<1> QED BY <1>2, <1>4 DEF Quiet, Steady

\* What an error, a crash or the user leaves of the counts.
Interrupted ==
  /\ Interruptions' >= Interruptions + 1
  /\ UNCHANGED <<processed_messages, classified>>
  /\ \A p \in Path, e \in Envelope :
       /\ IdOf[e] \in processed_messages => copies'[p][e] <= copies[p][e]
       /\ IdOf[e] \notin processed_messages =>
            copies'[p][e] + May(p, e)' <= copies[p][e] + May(p, e)
  /\ \A m \in MessageId : MayClassify(m)' \subseteq MayClassify(m)

\* An interruption allows a repetition.
LEMMA InterruptedKeeps ==
  ASSUME TypeOK, TypeOK', HandOK, Counted, Interrupted
  PROVE  Counted'
<1>a. PICK i : i = Interruptions
  OBVIOUS
<1>b. PICK j : j = Interruptions'
  OBVIOUS
<1>1. /\ i \in Nat /\ j \in Nat /\ j >= i + 1
      /\ UNCHANGED <<processed_messages, classified>>
  <2>1. faults' \in Nat /\ crashes' \in Nat /\ userActs' \in Nat
    BY DEF TypeOK, MailboxTypeOK
  <2>2. PICK f \in Nat, c \in Nat, u \in Nat : f = faults' /\ c = crashes' /\ u = userActs'
    BY <2>1
  <2>3. f + c + u \in Nat
    OBVIOUS
  <2>4. Interruptions' \in Nat
    BY <2>2, <2>3 DEF Interruptions
  <2> QED BY <2>4, Numbers, <1>a, <1>b DEF Interrupted
<1>2. ASSUME NEW p \in Path, NEW e \in Envelope
      PROVE  /\ copies'[p][e] <= 1 + j
             /\ IdOf[e] \notin processed_messages => CopyPaid(p, e)'
  <2>1. copies[p][e] \in Nat /\ copies'[p][e] \in Nat
    BY Numbers DEF TypeOK, MailboxTypeOK
  <2>2. May(p, e) \in {0, 1} /\ May(p, e)' \in {0, 1}
    BY DEF May
  <2>3. CASE IdOf[e] \in processed_messages
    <3>1. copies'[p][e] <= copies[p][e]
      BY <2>3 DEF Interrupted
    <3>2. copies[p][e] <= 1 + i
      BY <1>a DEF Counted, CopiesCounted
    <3> QED BY <1>1, <2>1, <2>3, <3>1, <3>2
  <2>4. CASE IdOf[e] \notin processed_messages
    <3>1. copies'[p][e] + May(p, e)' <= copies[p][e] + May(p, e)
      BY <2>4 DEF Interrupted
    <3>2. copies[p][e] + May(p, e) <= i + 1
      BY <2>4, <1>a, CopyBound DEF Counted
    <3>3. copies'[p][e] + May(p, e)' <= j
      BY <1>1, <2>1, <2>2, <3>1, <3>2
    <3>4. copies'[p][e] <= 1 + j
      BY <1>1, <2>1, <2>2, <3>3
    <3> QED BY <1>b, <3>3, <3>4 DEF CopyPaid
  <2> QED BY <2>3, <2>4
<1>3. \A m : Bearers(m)' = Bearers(m)
  BY DEF Bearers
<1>4. ASSUME NEW m \in MessageId
      PROVE  /\ classified'[m] <= (1 + j) * Cardinality(Bearers(m))
             /\ m \notin processed_messages => CallsPaid(m)'
  <2>a. PICK n : n = Cardinality(Bearers(m))
    OBVIOUS
  <2>b. PICK w : w = Cardinality(MayClassify(m))
    OBVIOUS
  <2>c. PICK x : x = Cardinality(MayClassify(m)')
    OBVIOUS
  <2>d. PICK t : t = i * n
    OBVIOUS
  <2>e. PICK u : u = j * n
    OBVIOUS
  <2>1. classified[m] \in Nat /\ n \in Nat /\ w \in Nat
    BY Numbers, BearersFinite, <2>a, <2>b
  <2>2. classified'[m] = classified[m]
    BY <1>1
  <2>3. x \in Nat /\ x <= w
    <3>1. MayClassify(m)' \subseteq MayClassify(m) /\ IsFiniteSet(MayClassify(m))
      BY BearersFinite DEF Interrupted
    <3> QED BY <3>1, <2>b, <2>c, FS_Subset, FS_CardinalityType
  <2>4. t \in Nat /\ (1 + i) * n = t + n
    BY <1>1, <2>1, <2>d, Times
  <2>5. u \in Nat /\ (1 + j) * n = u + n /\ u >= t + n
    BY <1>1, <2>1, <2>d, <2>e, Times
  <2>6. classified[m] <= t + n
    BY <1>a, <2>a, <2>4 DEF Counted, CallsCounted
  <2>7. classified'[m] <= (1 + j) * n
    BY <2>1, <2>2, <2>4, <2>5, <2>6
  <2>8. ASSUME m \notin processed_messages PROVE CallsPaid(m)'
    <3>1. classified[m] + w <= t + n
      BY <2>8, <1>a, <2>a, <2>b, <2>d, CallBound DEF Counted
    <3>2. classified'[m] + x <= u
      BY <2>1, <2>2, <2>3, <2>4, <2>5, <3>1
    <3> QED BY <3>2, <1>3, <1>b, <2>a, <2>c, <2>e DEF CallsPaid
  <2> QED BY <2>7, <2>8, <2>a
<1>5. CopiesCounted'
  BY <1>1, <1>2, <1>b DEF CopiesCounted
<1>6. CallsCounted'
  BY <1>1, <1>3, <1>4, <1>b DEF CallsCounted
<1> QED BY <1>5, <1>6 DEF Counted

\* A poll begins a cycle: every message it returns may be filed and classified
\* once more, on account of the cycle itself.
LEMMA PollKeeps ==
  ASSUME TypeOK, TypeOK', Counted, Poll
  PROVE  Counted'
<1>1. /\ pc = "sleep" /\ pc' = "connect" /\ Interruptions' = Interruptions
      /\ UNCHANGED <<copies, processed_messages, classified>>
  BY DEF Poll, Interruptions, mailbox, sidecar, history, bounds
<1>a. PICK i : i = Interruptions
  OBVIOUS
<1>2. i \in Nat /\ Interruptions' = i
  BY <1>1, <1>a, Numbers
<1>3. ~CutShort'
  BY <1>1 DEF CutShort
<1>4. ASSUME NEW p \in Path, NEW e \in Envelope, IdOf[e] \notin processed_messages
      PROVE  CopyDue(p, e)'
  <2>1. copies[p][e] \in Nat
    BY Numbers
  <2>2. Has(p, e) = 0 /\ Has(p, e)' = 0 /\ May(p, e) \in {0, 1}
    BY <1>1 DEF Has, HasFiled, May
  <2>3. copies[p][e] + May(p, e) <= i \/ copies[p][e] <= i + Has(p, e)
    BY <1>4, <1>a DEF Counted, CopiesCounted, CopyPaid, CopyDue
  <2>4. copies[p][e] <= i + Has(p, e)'
    BY <1>2, <2>1, <2>2, <2>3
  <2> QED BY <1>1, <1>2, <2>4 DEF CopyDue
<1>5. \A m : Bearers(m)' = Bearers(m)
  BY DEF Bearers
<1>6. ASSUME NEW m \in MessageId, m \notin processed_messages
      PROVE  CallsDue(m)'
  <2>a. PICK t : t = i * Cardinality(Bearers(m))
    OBVIOUS
  <2>1. classified[m] \in Nat /\ Cardinality(MayClassify(m)) \in Nat
        /\ Cardinality(Bearers(m)) \in Nat
    BY Numbers, BearersFinite
  <2>2. Now(m) = 0 /\ Now(m)' = 0
    BY <1>1 DEF Now
  <2>3. classified[m] + Cardinality(MayClassify(m)) <= t \/ classified[m] <= t + Now(m)
    BY <1>6, <1>a, <2>a DEF Counted, CallsCounted, CallsPaid, CallsDue
  <2>4. t \in Nat
    BY <1>2, <2>1, <2>a
  <2>5. classified[m] <= t + Now(m)'
    BY <2>1, <2>2, <2>3, <2>4
  <2> QED BY <1>1, <1>2, <1>5, <2>5, <2>a DEF CallsDue
<1>7. CopiesCounted'
  BY <1>1, <1>3, <1>4 DEF Counted, CopiesCounted
<1>8. CallsCounted'
  BY <1>1, <1>3, <1>5, <1>6 DEF Counted, CallsCounted
<1> QED BY <1>7, <1>8 DEF Counted

-----------------------------------------------------------------------------
\* The steps of the daemon, Bichon and the user

\* Taking the next message of the batch takes its copies and calls from what the
\* cycle may still do.
LEMMA TakeNextQuiet ==
  ASSUME TypeOK, NEW e \in Envelope, TakeNext(e)
  PROVE  Quiet
<1>1. /\ pc = "next" /\ e \in batch /\ batch' = batch \ {e}
      /\ (pc' = "next" /\ current' = current) \/ (pc' = "download" /\ current' = e)
      /\ UNCHANGED <<copies, session, processed_messages, classified, faults,
                     crashes, userActs>>
  BY DEF TakeNext, mailbox, sidecar, history, bounds
<1>2. CutShort' => CutShort
  BY <1>1 DEF CutShort
<1>3. ASSUME NEW p \in Path, NEW x \in Envelope
      PROVE  /\ MayFile(p, x)' => MayFile(p, x)
             /\ ~HasFiled(p, x)
  BY <1>1 DEF MayFile, HasFiled
<1>4. ASSUME NEW m \in MessageId
      PROVE  MayClassify(m)' \subseteq MayClassify(m) /\ Now(m) = 0 /\ Now(m)' \in {0, 1}
  BY <1>1 DEF MayClassify, Bearers, Now
<1> QED BY <1>1, <1>2, <1>3, <1>4 DEF Quiet, Interruptions

\* The steps that leave both the batch and the hand to what they were.
LEMMA HandKeptQuiet ==
  ASSUME TypeOK,
         Connect \/ EndCycle \/ Download \/ RecordDecision \/ RecordAuditRow
           \/ NextWebhook \/ (DeliveryEnds /\ UNCHANGED bounds) \/ Finish
           \/ (\E e \in Envelope : IndexCatchesUp(e)) \/ UNCHANGED vars
  PROVE  Quiet
<1>0. ASSUME NEW e, IndexCatchesUp(e)
      PROVE  UNCHANGED <<mailbox, userActs, writeback, session, sidecar, pc, batch,
                         local, history, bounds>>
  BY <1>0 DEF IndexCatchesUp
<1>1. UNCHANGED <<copies, processed_messages, classified, faults, crashes, userActs, batch>>
  BY <1>0 DEF Connect, EndCycle, Download, RecordDecision, RecordAuditRow, NextWebhook,
         DeliveryEnds, Finish, Goto, vars, mailbox, sidecar, history, bounds
<1>2. \/ UNCHANGED <<pc, current, folders, session, plan, done, stage>>
      \/ /\ pc \notin {"sleep", "apply"} /\ pc' # "apply"
         /\ (pc' \in {"download", "classify"} => pc \in {"download", "classify"} /\ current' = current)
         /\ (pc = "connect" \/ pc' = "sleep" \/ session' = session)
         /\ (pc = "connect" => session' = TRUE)
  BY <1>0 DEF Connect, EndCycle, Download, RecordDecision, RecordAuditRow, NextWebhook,
         DeliveryEnds, Finish, Goto, vars, mailbox, writeback, local
<1>3. CutShort' => CutShort
  BY <1>2 DEF CutShort, Target, Step
<1>4. ASSUME NEW p \in Path, NEW x \in Envelope
      PROVE  (MayFile(p, x)' => MayFile(p, x)) /\ (HasFiled(p, x) => HasFiled(p, x)')
  BY <1>1, <1>2 DEF MayFile, HasFiled, FiledIn
<1>5. ASSUME NEW m \in MessageId
      PROVE  MayClassify(m)' \subseteq MayClassify(m) /\ Now(m) <= Now(m)'
  BY <1>1, <1>2 DEF MayClassify, Bearers, Now, Id
<1> QED BY <1>1, <1>3, <1>4, <1>5 DEF Quiet, Interruptions

\* The ledger insert: the message in hand is no longer one of those counted.
LEMMA RecordSteady ==
  ASSUME TypeOK, TypeOK', Record
  PROVE  Steady
<1>1. /\ pc = "apply" /\ pc' = "decision" /\ current' = current
      /\ processed_messages' = processed_messages \cup {Id}
      /\ UNCHANGED <<copies, session, classified, faults, crashes, userActs, batch>>
  BY DEF Record, Goto, mailbox, history, bounds
<1>2. CutShort' => CutShort
  BY <1>1 DEF CutShort
<1>3. ASSUME NEW p \in Path, NEW e \in Envelope
      PROVE  /\ IdOf[e] \in processed_messages' => copies'[p][e] <= copies[p][e]
             /\ IdOf[e] \notin processed_messages' =>
                  /\ copies'[p][e] + May(p, e)' <= copies[p][e] + May(p, e)
                  /\ ~CutShort => copies'[p][e] + Has(p, e) <= copies[p][e] + Has(p, e)'
  <2>1. copies[p][e] \in Nat /\ copies'[p][e] = copies[p][e]
    BY <1>1, Numbers
  <2>2. ASSUME IdOf[e] \notin processed_messages'
        PROVE  May(p, e)' = May(p, e) /\ Has(p, e) = 0 /\ Has(p, e)' = 0 /\ May(p, e) \in {0, 1}
    <3>1. e # current
      BY <1>1, <2>2 DEF Id
    <3> QED BY <1>1, <3>1 DEF May, MayFile, Has, HasFiled
  <2> QED BY <2>1, <2>2
<1>4. ASSUME NEW m \in MessageId
      PROVE  /\ m \in processed_messages' => classified'[m] <= classified[m]
             /\ m \notin processed_messages' =>
                  /\ classified'[m] + Cardinality(MayClassify(m)') <=
                       classified[m] + Cardinality(MayClassify(m))
                  /\ ~CutShort => classified'[m] + Now(m) <= classified[m] + Now(m)'
  <2>1. classified[m] \in Nat /\ classified'[m] = classified[m]
    BY <1>1, Numbers
  <2>2. MayClassify(m)' = MayClassify(m)
    BY <1>1 DEF MayClassify, Bearers
  <2>3. m \notin processed_messages' => Now(m) = 0 /\ Now(m)' = 0
    BY <1>1 DEF Now
  <2> QED BY <2>1, <2>2, <2>3, BearersFinite
<1>5. CopiesSteady
  BY <1>3 DEF CopiesSteady
<1>6. CallsSteady
  BY <1>4 DEF CallsSteady
<1> QED BY <1>1, <1>2, <1>5, <1>6 DEF Steady, Interruptions

\* A classification pays with the call the cycle had left for the message.
LEMMA ClassifySteady ==
  ASSUME Inv, TypeOK', HandOK, Classify
  PROVE  Steady
<1>0. TypeOK /\ Id \notin processed_messages
  BY DEF Inv, HandInLedger, Classify
<1>1. /\ pc = "classify" /\ pc' = "apply" /\ current' = current
      /\ done' = 0 /\ stage' = "check"
      /\ UNCHANGED <<copies, session, processed_messages, faults, crashes, userActs, batch>>
      /\ (classified' = [classified EXCEPT ![Id] = @ + 1] \/ classified' = classified)
  BY DEF Classify, Goto, Begin, mailbox, sidecar, bounds
<1>2. CutShort' => CutShort
  BY <1>1 DEF CutShort
<1>3. ASSUME NEW p \in Path, NEW e \in Envelope
      PROVE  /\ copies'[p][e] <= copies[p][e]
             /\ copies'[p][e] + May(p, e)' <= copies[p][e] + May(p, e)
             /\ ~CutShort => copies'[p][e] + Has(p, e) <= copies[p][e] + Has(p, e)'
  <2>1. copies[p][e] \in Nat /\ copies'[p][e] = copies[p][e]
    BY <1>0, <1>1, Numbers
  <2>2. ~FiledIn(p)'
    BY <1>1 DEF FiledIn
  <2>3. May(p, e)' = May(p, e) /\ May(p, e) \in {0, 1} /\ Has(p, e) = 0 /\ Has(p, e)' = 0
    BY <1>1, <2>2 DEF May, MayFile, Has, HasFiled
  <2> QED BY <2>1, <2>3
<1>4. current \in Envelope /\ Id \in MessageId /\ Id' = Id
  BY <1>0, <1>1, HandIsMessage DEF Id
<1>5. ASSUME NEW m \in MessageId, NEW w, w = Cardinality(MayClassify(m)),
             NEW x, x = Cardinality(MayClassify(m)')
      PROVE  /\ classified'[m] + x <= classified[m] + w
             /\ classified'[m] + Now(m) <= classified[m] + Now(m)'
             /\ m # Id => classified'[m] <= classified[m]
  <2>1. classified[m] \in Nat
    BY <1>0, Numbers
  <2>2. IsFiniteSet(MayClassify(m)) /\ w \in Nat
    BY <1>5, BearersFinite
  <2>3. Now(m) = 0
    BY <1>1 DEF Now
  <2>4. CASE m = Id
    <3>1. Now(m)' = 1
      BY <1>1, <1>4, <2>4 DEF Now
    <3>2. current \in MayClassify(m) /\ MayClassify(m)' = MayClassify(m) \ {current}
      BY <1>1, <1>4, <2>4 DEF MayClassify, Bearers, Id, HandOK
    <3>3. x = w - 1
      BY <1>5, <2>2, <3>2, FS_RemoveElement
    <3>4. classified'[m] = classified[m] + 1 \/ classified'[m] = classified[m]
      BY <1>0, <1>1, <1>4, <2>4 DEF TypeOK
    <3> QED BY <2>1, <2>2, <2>3, <2>4, <3>1, <3>3, <3>4
  <2>5. CASE m # Id
    <3>1. MayClassify(m)' = MayClassify(m)
      BY <1>1, <2>5 DEF MayClassify, Bearers, Id
    <3>2. classified'[m] = classified[m]
      BY <1>0, <1>1, <1>4, <2>5 DEF TypeOK
    <3>3. Now(m)' = 0
      BY <1>1, <1>4, <2>5 DEF Now
    <3> QED BY <1>5, <2>1, <2>2, <2>3, <3>1, <3>2, <3>3
  <2> QED BY <2>4, <2>5
<1>6. CopiesSteady
  BY <1>3 DEF CopiesSteady
<1>7. CallsSteady
  BY <1>0, <1>1, <1>5 DEF CallsSteady
<1> QED BY <1>1, <1>2, <1>6, <1>7 DEF Steady, Interruptions

-----------------------------------------------------------------------------
\* apply_actions: a folder is filed into once in a pass.

\* No two of the configured folders are one mailbox on the server.
OneMailboxEach == \A f, g \in Folder : ServerPath[f] = ServerPath[g] => f = g

\* The plan is one TagPlan_proofs speaks of.
LEMMA HandPlan ==
  ASSUME HandTagged, pc = "apply"
  PROVE  plan \in Seq(PlanSteps(Folder)) /\ FilesOnce(plan)
<1>1. \E T : tags \in Seq(T)
  <2>1. PICK T : RunFilters(Filters, current) \in Seq(T)
    BY FilterTags
  <2>2. CASE UseLlm
    <3>1. tags = MergeLlmTags(RunFilters(Filters, current), Outcome(answer))
      BY <2>2 DEF HandTagged
    <3>2. MergesBehind(T, RunFilters(Filters, current), Outcome(answer))
      BY <2>1, MergedTags
    <3>3. PICK U : \E b \in Seq(U) :
                     T \subseteq U /\ tags = RunFilters(Filters, current) \o b
      BY <3>1, <3>2 DEF MergesBehind
    <3>4. RunFilters(Filters, current) \in Seq(U)
      BY <2>1, <3>3
    <3>5. tags \in Seq(U)
      BY <3>3, <3>4
    <3> QED BY <3>5
  <2>3. CASE ~UseLlm
    BY <2>1, <2>3 DEF HandTagged
  <2> QED BY <2>2, <2>3
<1>2. PICK T : tags \in Seq(T)
  BY <1>1
<1>3. plan = Consolidate(ResolveActions(tags, Actions))
  BY DEF HandTagged
<1>4. None \notin Folder /\ IsSection(Actions, Folder)
  BY ConfigAssumption
<1>5. IsPlan(tags, Actions, Folder, plan)
  BY <1>2, <1>3, <1>4, PlanIsAsked
<1>6. FilesOnce(plan)
  BY <1>4, <1>5, PlanFilesOnce
<1> QED BY <1>5, <1>6 DEF IsPlan

\* The mailbox a step is about to file into has not been filed into.
LEMMA TargetNotFiled ==
  ASSUME OneMailboxEach, HandTagged, HandOK, pc = "apply", ~AllDone, IsFiling(Step)
  PROVE  ~FiledIn(Target)
<1> SUFFICES ASSUME NEW i \in 1..done, IsFiling(plan[i]), ServerPath[plan[i].folder] = Target
             PROVE  FALSE
  BY DEF FiledIn
<1>1. plan \in Seq(PlanSteps(Folder)) /\ FilesOnce(plan)
  BY HandPlan
<1>2. done \in Nat /\ done + 1 \in 1..Len(plan) /\ i \in 1..Len(plan) /\ i # done + 1
  <2>1. PICK n \in Nat : n = Len(plan) /\ DOMAIN plan = 1..n
    BY <1>1
  <2>2. done \in Nat /\ 1..done \subseteq 1..n /\ done # n
    BY <2>1 DEF HandOK, AllDone
  <2>3. done <= n
    BY <2>2
  <2>4. done + 1 \in 1..n /\ i \in 1..n /\ i # done + 1
    BY <2>2, <2>3
  <2> QED BY <2>1, <2>2, <2>4
<1>3. plan[i] \in PlanSteps(Folder) /\ plan[done + 1] \in PlanSteps(Folder)
  BY <1>1, <1>2
<1>4. plan[i].folder \in Folder /\ plan[done + 1].folder \in Folder
  BY <1>3, StepKinds DEF IsFiling, Step
<1>5. plan[i].folder = plan[done + 1].folder
  BY <1>4 DEF OneMailboxEach, Target, Step
<1> QED BY <1>1, <1>2, <1>5 DEF FilesOnce, Step

\* What filing does to the count of copies, of this message and of the others.
LEMMA FilingCopies ==
  ASSUME TypeOK, NEW c \in Envelope, FileMessage(c), NEW p \in Path, NEW e \in Envelope
  PROVE  /\ copies[p][e] \in Nat
         /\ copies'[p][e] = copies[p][e] \/ copies'[p][e] = copies[p][e] + 1
         /\ ~(e = c /\ p = Target) => copies'[p][e] = copies[p][e]
<1>1. copies' = Filed(c, Target)
  BY DEF FileMessage, UidCopy, UidMove
<1>2. copies \in [Path -> [Envelope -> Nat]] /\ copies[p] \in [Envelope -> Nat]
  BY DEF TypeOK, MailboxTypeOK
<1>3. CASE c \in inbox /\ Target \in Path
  <2>1. copies' = [copies EXCEPT ![Target] = [copies[Target] EXCEPT ![c] = @ + 1]]
    BY <1>1, <1>3 DEF Filed
  <2>2. copies'[p] = IF p = Target THEN [copies[Target] EXCEPT ![c] = @ + 1] ELSE copies[p]
    BY <1>2, <2>1
  <2>3. CASE p = Target
    BY <1>2, <2>2, <2>3
  <2>4. CASE p # Target
    BY <1>2, <2>2, <2>4
  <2> QED BY <2>3, <2>4
<1>4. CASE ~(c \in inbox /\ Target \in Path)
  <2>1. copies' = copies
    BY <1>1, <1>2, <1>4 DEF Filed
  <2> QED BY <1>2, <2>1
<1> QED BY <1>3, <1>4

\* The steps of apply_actions: a copy is paid for with the filing the cycle had
\* left, and shows in the plan.
LEMMA ApplySteady ==
  ASSUME Inv, TypeOK', OneMailboxEach, HandTagged, HandOK, Apply
  PROVE  Steady
<1>0. TypeOK /\ pc = "apply" /\ current \in Envelope /\ done \in Nat
  BY HandIsMessage DEF Inv, Apply, HandOK
<1>1. /\ pc' = pc /\ current' = current /\ plan' = plan /\ session /\ session' = session
      /\ UNCHANGED <<processed_messages, classified, faults, crashes, userActs, batch>>
      /\ ~AllDone
  BY DEF Apply, FolderExists, RunCommand, sidecar, local, history, bounds
<1>a. PICK filed : filed = {p \in Path : FileMessage(current) /\ p = Target}
  OBVIOUS
<1>2. ASSUME NEW p \in Path
      PROVE  /\ FiledIn(p)' <=> (FiledIn(p) \/ p \in filed)
             /\ p \in filed => ~FiledIn(p)
             /\ \A e \in Envelope :
                  /\ copies'[p][e] = copies[p][e] \/ copies'[p][e] = copies[p][e] + 1
                  /\ ~(e = current /\ p \in filed) => copies'[p][e] = copies[p][e]
  <2>a. ~FileMessage(current) => p \notin filed
    BY <1>a
  <2>1. CASE done' = done /\ copies' = copies /\ ~FileMessage(current)
    <3>1. FiledIn(p)' <=> FiledIn(p)
      BY <1>1, <2>1 DEF FiledIn
    <3>2. p \notin filed
      BY <2>1, <2>a
    <3> QED BY <2>1, <3>1, <3>2
  <2>2. CASE AddFlag(current) /\ StepDone /\ ~FileMessage(current)
    <3>1. copies' = copies /\ done' = done + 1 /\ Step.kind \in {"mark_seen", "mark_flagged"}
      BY <2>2 DEF AddFlag, UidStore, StepDone
    <3>2. ~IsFiling(plan[done + 1])
      BY <3>1 DEF IsFiling, Step
    <3>3. FiledIn(p)' <=> FiledIn(p)
      <4>1. 1..done' = 1..done \cup {done + 1} /\ plan' = plan
        BY <1>0, <1>1, <3>1
      <4> QED BY <3>2, <4>1 DEF FiledIn
    <3>4. p \notin filed
      BY <2>2, <2>a
    <3> QED BY <3>1, <3>3, <3>4
  <2>3. CASE FileMessage(current) /\ StepDone
    <3>1. done' = done + 1 /\ IsFiling(Step)
      BY <2>3 DEF FileMessage, StepDone, IsFiling
    <3>2. ~FiledIn(Target)
      BY <1>0, <1>1, <3>1, TargetNotFiled
    <3>3. FiledIn(p)' <=> (FiledIn(p) \/ p = Target)
      <4>1. 1..done' = 1..done \cup {done + 1} /\ plan' = plan
        BY <1>0, <1>1, <3>1
      <4> QED BY <3>1, <4>1 DEF FiledIn, Target, Step
    <3>4. p \in filed <=> p = Target
      BY <2>3, <1>a
    <3>5. \A e \in Envelope :
            /\ copies'[p][e] = copies[p][e] \/ copies'[p][e] = copies[p][e] + 1
            /\ ~(e = current /\ p = Target) => copies'[p][e] = copies[p][e]
      BY <1>0, <2>3, FilingCopies
    <3> QED BY <3>2, <3>3, <3>4, <3>5
  <2>4. CASE FolderExists
    <3>1. done' = done /\ copies' = copies /\ stage = "check"
      BY <2>4 DEF FolderExists, mailbox
    <3> QED BY <2>1, <3>1 DEF FileMessage
  <2>5. CASE CreateFolder /\ UNCHANGED done
    <3>1. done' = done /\ copies' = copies /\ stage = "create"
      BY <2>5 DEF CreateFolder, CreateMailbox
    <3> QED BY <2>1, <3>1 DEF FileMessage
  <2>6. AddFlag(current) => ~FileMessage(current)
    BY DEF AddFlag, FileMessage
  <2> QED BY <2>2, <2>3, <2>4, <2>5, <2>6 DEF Apply, RunCommand
<1>3. ~CutShort'
  <2>1. CASE FolderExists
    <3>1. UNCHANGED <<folders, plan, done>> /\ (stage' = "act" => Target \in folders)
      BY <2>1 DEF FolderExists, mailbox
    <3> QED BY <1>1, <2>1, <3>1 DEF CutShort, Target, Step
  <2>2. CASE StepDone
    BY <1>1, <2>2 DEF StepDone, CutShort
  <2>3. CASE CreateFolder /\ stage' = "act" /\ UNCHANGED done
    BY <1>1, <2>3 DEF CreateFolder, CreateMailbox, CutShort, Target, Step
  <2> QED BY <2>1, <2>2, <2>3 DEF Apply, RunCommand
<1>4. ASSUME NEW p \in Path, NEW e \in Envelope
      PROVE  /\ IdOf[e] \in processed_messages => copies'[p][e] <= copies[p][e]
             /\ copies'[p][e] + May(p, e)' <= copies[p][e] + May(p, e)
             /\ copies'[p][e] + Has(p, e) <= copies[p][e] + Has(p, e)'
  <2>1. copies[p][e] \in Nat
    BY <1>0, Numbers
  <2>2. IdOf[e] \in processed_messages => e # current
    BY <1>0 DEF Inv, HandInLedger, Id
  <2>3. CASE e # current
    <3>1. copies'[p][e] = copies[p][e]
      BY <1>2, <2>3
    <3>2. May(p, e)' = May(p, e) /\ Has(p, e) = 0 /\ Has(p, e)' = 0 /\ May(p, e) \in {0, 1}
      BY <1>0, <1>1, <2>3 DEF May, MayFile, Has, HasFiled
    <3> QED BY <2>1, <3>1, <3>2
  <2>4. CASE e = current /\ p \in filed
    <3>1. copies'[p][e] = copies[p][e] \/ copies'[p][e] = copies[p][e] + 1
      BY <1>2
    <3>2. e \notin batch /\ ~FiledIn(p) /\ FiledIn(p)'
      BY <1>2, <2>4 DEF HandOK
    <3>3. May(p, e) = 1 /\ May(p, e)' = 0 /\ Has(p, e) = 0 /\ Has(p, e)' = 1
      BY <1>0, <1>1, <2>4, <3>2 DEF May, MayFile, Has, HasFiled
    <3> QED BY <2>1, <2>2, <2>4, <3>1, <3>3
  <2>5. CASE e = current /\ p \notin filed
    <3>1. copies'[p][e] = copies[p][e]
      BY <1>2, <2>5
    <3>2. FiledIn(p)' <=> FiledIn(p)
      BY <1>2, <2>5
    <3>3. May(p, e)' = May(p, e) /\ Has(p, e)' = Has(p, e) /\ May(p, e) \in {0, 1}
          /\ Has(p, e) \in {0, 1}
      BY <1>0, <1>1, <2>5, <3>2 DEF May, MayFile, Has, HasFiled
    <3> QED BY <2>1, <3>1, <3>3
  <2> QED BY <2>3, <2>4, <2>5
<1>5. ASSUME NEW m \in MessageId
      PROVE  /\ classified'[m] <= classified[m]
             /\ classified'[m] + Cardinality(MayClassify(m)') <=
                  classified[m] + Cardinality(MayClassify(m))
             /\ classified'[m] + Now(m) <= classified[m] + Now(m)'
  <2>1. classified[m] \in Nat /\ classified'[m] = classified[m]
    BY <1>0, <1>1, Numbers
  <2>2. MayClassify(m)' = MayClassify(m) /\ Now(m)' = Now(m) /\ Now(m) \in {0, 1}
    BY <1>1 DEF MayClassify, Bearers, Now, Id
  <2> QED BY <2>1, <2>2, BearersFinite
<1>6. CopiesSteady
  BY <1>1, <1>4 DEF CopiesSteady
<1>7. CallsSteady
  BY <1>5 DEF CallsSteady
<1> QED BY <1>1, <1>3, <1>6, <1>7 DEF Steady, Interruptions

\* A pass that is abandoned: what the failed command may still have filed was
\* this cycle's, and an error that the server did not have to return pays for
\* the next.
LEMMA ApplyFailsKeeps ==
  ASSUME Inv, TypeOK', OneMailboxEach, HandTagged, HandOK, Counted, ApplyFails
  PROVE  Counted'
<1>0. TypeOK /\ pc = "apply" /\ current \in Envelope /\ ~AllDone
  BY HandIsMessage DEF Inv, ApplyFails, CommandFails
<1>1. /\ pc' = "next" /\ current' = None /\ current' \notin Envelope
      /\ UNCHANGED <<processed_messages, classified, userActs, batch>>
  BY IdAssumption DEF ApplyFails, Release, sidecar, history
<1>2. copies' = copies \/ FileMessage(current)
  BY DEF ApplyFails, CommandFails, AddFlag, UidStore, CreateFolder, CreateMailbox, mailbox
<1>3. ASSUME NEW p \in Path, NEW e \in Envelope
      PROVE  MayFile(p, e)' => e \in batch
  BY <1>1, <1>3 DEF MayFile
<1>4. \A m \in MessageId : MayClassify(m)' \subseteq MayClassify(m)
  BY <1>1 DEF MayClassify, Bearers
<1>5. CASE MustFail /\ UNCHANGED bounds
  <2>1. CutShort
    BY <1>0, <1>5 DEF MustFail, CutShort
  <2>2. copies' = copies
    BY <1>0, <1>2, <1>5
       DEF MustFail, ApplyFails, CommandFails, FileMessage, AddFlag, UidStore,
           CreateFolder, CreateMailbox, mailbox
  <2>3. Quiet
    BY <1>1, <1>3, <1>4, <1>5, <2>1, <2>2 DEF Quiet, Interruptions, bounds, MayFile
  <2> QED BY <1>0, <2>3, QuietIsSteady, SteadyKeeps
<1>6. CASE Fault
  <2>1. ASSUME NEW p \in Path, NEW e \in Envelope
        PROVE  /\ IdOf[e] \in processed_messages => copies'[p][e] <= copies[p][e]
               /\ copies'[p][e] + May(p, e)' <= copies[p][e] + May(p, e)
    <3>1. copies[p][e] \in Nat /\ May(p, e) \in {0, 1} /\ May(p, e)' \in {0, 1}
      BY <1>0, Numbers DEF May
    <3>2. IdOf[e] \in processed_messages => e # current
      BY <1>0 DEF Inv, HandInLedger, Id
    <3>3. May(p, e)' = 1 => May(p, e) = 1
      BY <1>3 DEF May, MayFile
    <3>4. CASE copies'[p][e] = copies[p][e]
      BY <3>1, <3>3, <3>4
    <3>5. CASE copies'[p][e] # copies[p][e]
      <4>1. FileMessage(current)
        BY <1>2, <3>5
      <4>2. copies'[p][e] = copies[p][e] + 1 /\ e = current /\ p = Target
        BY <1>0, <3>5, <4>1, FilingCopies
      <4>3. IsFiling(Step)
        BY <4>1 DEF FileMessage, IsFiling
      <4>4. ~FiledIn(p) /\ e \notin batch
        BY <1>0, <4>2, <4>3, TargetNotFiled DEF HandOK
      <4>5. May(p, e) = 1 /\ May(p, e)' = 0
        BY <1>0, <1>3, <4>2, <4>4 DEF May, MayFile
      <4> QED BY <3>1, <3>2, <4>2, <4>5
    <3> QED BY <3>4, <3>5
  <2>2. Interruptions' = Interruptions + 1
    <3>1. faults \in Nat /\ crashes \in Nat /\ userActs \in Nat
      BY <1>0 DEF TypeOK, MailboxTypeOK
    <3> QED BY <1>1, <1>6, <3>1 DEF Interruptions, Fault
  <2>3. Interrupted
    BY <1>0, <1>1, <1>4, <2>1, <2>2, Numbers DEF Interrupted
  <2> QED BY <1>0, <2>3, InterruptedKeeps
<1> QED BY <1>5, <1>6 DEF ApplyFails

\* The other errors, a crash, and what the user does.
LEMMA InterruptionKeeps ==
  ASSUME TypeOK, TypeOK', HandOK, Counted,
         ConnectFails \/ (DeliveryEnds /\ Fault) \/ ProcessFails \/ Crash \/ UserActs
  PROVE  Counted'
<1>1. /\ UNCHANGED <<processed_messages, classified>> /\ batch' \subseteq batch
      /\ \/ UNCHANGED <<pc, current, plan, done>>
         \/ pc' \notin {"download", "classify", "apply"}
  BY DEF ConnectFails, DeliveryEnds, ProcessFails, Crash, UserActs, Goto, Release,
         sidecar, history, local, writeback
<1>2. ASSUME NEW p \in Path, NEW e \in Envelope
      PROVE  copies'[p][e] <= copies[p][e] /\ copies[p][e] \in Nat /\ copies'[p][e] \in Nat
  <2>1. copies[p][e] \in Nat /\ copies'[p][e] \in Nat
    BY Numbers DEF TypeOK, MailboxTypeOK
  <2>2. CASE UserActs
    BY <2>1, <2>2, UserActsEffect DEF TypeOK
  <2>3. CASE ~UserActs
    <3>1. copies' = copies
      BY <2>3 DEF ConnectFails, DeliveryEnds, ProcessFails, Crash, mailbox
    <3> QED BY <2>1, <3>1
  <2> QED BY <2>2, <2>3
<1>3. ASSUME NEW p \in Path, NEW e \in Envelope
      PROVE  copies'[p][e] + May(p, e)' <= copies[p][e] + May(p, e)
  <2>1. MayFile(p, e)' => MayFile(p, e)
    BY <1>1 DEF MayFile, FiledIn
  <2>2. May(p, e) \in {0, 1} /\ May(p, e)' \in {0, 1} /\ (May(p, e)' = 1 => May(p, e) = 1)
    BY <2>1 DEF May
  <2> QED BY <1>2, <2>2
<1>4. \A m \in MessageId : MayClassify(m)' \subseteq MayClassify(m)
  BY <1>1 DEF MayClassify, Bearers
<1>5. Interruptions' >= Interruptions + 1
  <2>1. PICK f \in Nat, c \in Nat, u \in Nat : f = faults /\ c = crashes /\ u = userActs
    BY DEF TypeOK, MailboxTypeOK
  <2>2. \/ faults' = f + 1 /\ crashes' = c /\ userActs' = u
        \/ faults' = f /\ crashes' = c + 1 /\ userActs' = u
        \/ faults' = f /\ crashes' = c /\ userActs' = u + 1
    BY <2>1 DEF ConnectFails, DeliveryEnds, ProcessFails, Crash, Fault, UserActs, UserTakes,
                UserDropsFolder, bounds
  <2>3. Interruptions' = f + c + u + 1
    BY <2>1, <2>2 DEF Interruptions
  <2> QED BY <2>1, <2>3 DEF Interruptions
<1>6. Interrupted
  BY <1>1, <1>2, <1>3, <1>4, <1>5 DEF Interrupted
<1> QED BY <1>6, InterruptedKeeps

\* Every step keeps the counts within what interruptions allow.
LEMMA CountedStep ==
  ASSUME Inv, TypeOK', OneMailboxEach, HandTagged, HandOK, Counted, [Next]_vars
  PROVE  Counted'
<1>0. TypeOK
  BY DEF Inv
<1>1. ASSUME Steady PROVE Counted'
  BY <1>0, <1>1, SteadyKeeps
<1>2. ASSUME Quiet PROVE Counted'
  BY <1>0, <1>1, <1>2, QuietIsSteady
<1>3. ASSUME NEW e \in Envelope, TakeNext(e) PROVE Counted'
  BY <1>0, <1>2, <1>3, TakeNextQuiet
<1>4. CASE \/ Connect \/ EndCycle \/ Download \/ RecordDecision \/ RecordAuditRow
           \/ NextWebhook \/ (DeliveryEnds /\ UNCHANGED bounds) \/ Finish
           \/ (\E e \in Envelope : IndexCatchesUp(e)) \/ UNCHANGED vars
  BY <1>0, <1>2, <1>4, HandKeptQuiet
<1>5. CASE ConnectFails \/ (DeliveryEnds /\ Fault) \/ ProcessFails \/ Crash \/ UserActs
  BY <1>0, <1>5, InterruptionKeeps
<1>6. CASE Poll
  BY <1>0, <1>6, PollKeeps
<1>7. CASE Record
  BY <1>0, <1>1, <1>7, RecordSteady
<1>8. CASE Classify
  BY <1>1, <1>8, ClassifySteady
<1>9. CASE Apply
  BY <1>1, <1>9, ApplySteady
<1>10. CASE ApplyFails
  BY <1>10, ApplyFailsKeeps
<1>11. DeliveryEnds => UNCHANGED bounds \/ Fault
  BY DEF DeliveryEnds
<1> QED
  BY <1>3, <1>4, <1>5, <1>6, <1>7, <1>8, <1>9, <1>10, <1>11
     DEF Next, Daemon, Process, Bichon

\* Every step keeps what is known of the message in hand.
LEMMA HandOKStep ==
  ASSUME TypeOK, TypeOK', HandTagged, HandOK, [Next]_vars
  PROVE  HandOK'
<1>1. ASSUME NEW e \in Envelope, TakeNext(e) PROVE HandOK'
  BY <1>1 DEF TakeNext, HandOK
<1>2. CASE Classify
  <2>1. pc' = "apply" /\ done' = 0 /\ UNCHANGED <<batch, current>>
    BY <1>2 DEF Classify, Goto, Begin
  <2>2. 1..done' = {}
    BY <2>1
  <2> QED BY <2>1, <2>2 DEF HandOK
<1>3. CASE Apply
  <2>1. UNCHANGED <<batch, current, pc, plan>> /\ (done' = done \/ (~AllDone /\ done' = done + 1))
    BY <1>3 DEF Apply, FolderExists, RunCommand, StepDone, local
  <2>2. pc = "apply" /\ done \in Nat /\ 1..done \subseteq DOMAIN plan
    BY <1>3 DEF Apply, HandOK
  <2>3. plan \in Seq(PlanSteps(Folder))
    BY <2>2, HandPlan
  <2>4. PICK n \in Nat : n = Len(plan) /\ DOMAIN plan = 1..n
    BY <2>3
  <2>5. done' \in Nat /\ 1..done' \subseteq DOMAIN plan
    <3>1. CASE done' = done
      BY <2>2, <3>1
    <3>2. CASE ~AllDone /\ done' = done + 1
      <4>1. done <= n /\ done # n
        BY <2>2, <2>4, <3>2 DEF AllDone
      <4>2. done + 1 \in 1..n
        BY <2>2, <4>1
      <4>3. 1..done' = 1..done \cup {done + 1}
        BY <2>2, <3>2
      <4> QED BY <2>2, <2>4, <3>2, <4>2, <4>3
    <3> QED BY <2>1, <3>1, <3>2
  <2> QED BY <2>1, <2>5 DEF HandOK
<1>4. CASE UserActs
  BY <1>4 DEF UserActs, HandOK, local, writeback
<1>5. ASSUME batch' \subseteq batch, current' = current \/ current' = None,
             pc' # "apply"
      PROVE  HandOK'
  <2>1. None \notin batch'
    BY IdAssumption DEF TypeOK
  <2> QED BY <1>5, <2>1 DEF HandOK
<1>6. CASE Poll
  <2>1. current' = None /\ pc' # "apply"
    BY <1>6 DEF Poll, TypeOK, local
  <2>2. None \notin batch'
    BY IdAssumption DEF TypeOK
  <2> QED BY <2>1, <2>2 DEF HandOK
<1>7. ASSUME UNCHANGED <<batch, current, pc, plan, done>> PROVE HandOK'
  BY <1>7 DEF HandOK
<1> QED
  BY <1>1, <1>2, <1>3, <1>4, <1>5, <1>6, <1>7
     DEF Next, Daemon, Process, Bichon, IndexCatchesUp, Crash, Connect, ConnectFails,
         EndCycle, Download, ApplyFails, Record, RecordDecision, RecordAuditRow,
         NextWebhook, DeliveryEnds, Finish, ProcessFails, Goto, Release, vars, local, writeback

\* Nothing has been filed or classified before the first cycle.
LEMMA InitCounted ==
  ASSUME Init
  PROVE  HandOK /\ Counted
<1>1. /\ pc = "sleep" /\ batch = {} /\ current = None /\ Interruptions = 0
      /\ \A p \in Path, e \in Envelope : copies[p][e] = 0
      /\ \A m \in MessageId : classified[m] = 0
  BY DEF Init, MailboxInit, Interruptions
<1>2. \A p \in Path, e \in Envelope : May(p, e) = 0
  BY <1>1, IdAssumption DEF May, MayFile
<1>3. CopiesCounted
  BY <1>1, <1>2 DEF CopiesCounted, CopyPaid
<1>4. ASSUME NEW m \in MessageId
      PROVE  classified[m] <= (1 + Interruptions) * Cardinality(Bearers(m)) /\ CallsPaid(m)
  <2>1. PICK n \in Nat : n = Cardinality(Bearers(m))
    BY BearersFinite
  <2>2. MayClassify(m) = {}
    BY <1>1, IdAssumption DEF MayClassify, Bearers
  <2>3. Cardinality(MayClassify(m)) = 0
    BY <2>2, FS_EmptySet
  <2>4. 0 <= (1 + 0) * n /\ 0 + 0 <= 0 * n
    OBVIOUS
  <2> QED BY <1>1, <2>1, <2>3, <2>4 DEF CallsPaid
<1>5. CallsCounted
  BY <1>4 DEF CallsCounted
<1> QED BY <1>1, <1>3, <1>5 DEF HandOK, Counted

\* Every further copy and every further model call is paid for by an error, a
\* crash or the user, whatever the mailbox and the configuration, if no two of
\* the configured folders are one mailbox on the server: a message whose tags
\* name both is filed there twice by one pass.
THEOREM RepeatsPaid ==
  ASSUME OneMailboxEach
  PROVE  Spec => []RepeatsArePaidFor
<1>1. Init => HandOK /\ Counted
  BY InitCounted
<1>2. TypeOK /\ TypeOK' /\ HandTagged /\ HandOK /\ [Next]_vars => HandOK'
  BY HandOKStep
<1>3. Inv /\ TypeOK' /\ HandTagged /\ HandOK /\ Counted /\ [Next]_vars => Counted'
  BY CountedStep
<1>4. TypeOK /\ Counted => RepeatsArePaidFor
  <2> SUFFICES ASSUME TypeOK, Counted PROVE RepeatsArePaidFor
    OBVIOUS
  <2>1. PICK f \in Nat, c \in Nat, u \in Nat : f = faults /\ c = crashes /\ u = userActs
    BY DEF TypeOK, MailboxTypeOK
  <2>2. 1 + Interruptions = 1 + faults + crashes + userActs
    BY <2>1 DEF Interruptions
  <2>3. /\ \A p \in Path, e \in Envelope : copies[p][e] <= 1 + Interruptions
        /\ \A m \in MessageId : classified[m] <= (1 + Interruptions) * Cardinality(Bearers(m))
    BY DEF Counted, CopiesCounted, CallsCounted
  <2> QED BY <2>2, <2>3 DEF RepeatsArePaidFor, Bearers
<1> QED BY <1>1, <1>2, <1>3, <1>4, TagsInHand, TypeCorrect, PTL DEF Spec

-----------------------------------------------------------------------------
(* Refinement *)

\* Every step of the daemon is a step of the contract, or invisible to it.
THEOREM ImplementsTriageContract == Spec => ImplementsContract
<1> DEFINE hand  == IF current = None THEN None ELSE IdOf[current]
           fired == {x \in MessageId \X Webhook : posted[x] > 0}
           seen  == <<processed_messages, hand, Phase, fired>>
<1>1. Init => Contract!Init
  <2> SUFFICES ASSUME Init PROVE Contract!Init
    OBVIOUS
  <2>1. fired = {}
    BY DEF Init
  <2> QED BY <2>1 DEF Init, Contract!Init, Phase
<1>2. Inv /\ Inv' /\ [Next]_vars => [Contract!Next]_(Contract!contractVars)
  <2> SUFFICES ASSUME Inv, Inv', [Next]_vars
               PROVE  Contract!Next \/ UNCHANGED seen
    BY DEF Contract!contractVars
  <2>1. TypeOK /\ TypeOK'
    BY DEF Inv
  <2>2. ASSUME UNCHANGED <<processed_messages, posted, current, pc>>
        PROVE  UNCHANGED seen
    BY <2>2 DEF Phase
  <2>3. ASSUME pc \in {"sleep", "connect", "next"}, pc' \in {"sleep", "connect", "next"},
               UNCHANGED <<processed_messages, posted>>
        PROVE  UNCHANGED seen
    BY <2>1, <2>3 DEF TypeOK, Phase
  <2>4. ASSUME pc \notin {"sleep", "connect", "next"},
               pc' \in {"sleep", "connect", "next"},
               UNCHANGED <<processed_messages, posted>>
        PROVE  Contract!Next
    <3>1. hand' = None /\ Phase' = "idle" /\ Phase # "idle"
      BY <2>1, <2>4 DEF TypeOK, Phase
    <3>2. UNCHANGED fired
      BY <2>4
    <3> QED BY <2>4, <3>1, <3>2 DEF Contract!Next, Contract!Close
  <2>5. ASSUME UNCHANGED <<processed_messages, posted, current>>, Phase' = Phase
        PROVE  UNCHANGED seen
    BY <2>5
  <2>6. ASSUME NEW e \in Envelope, TakeNext(e)
        PROVE  Contract!Next \/ UNCHANGED seen
    <3>1. CASE IdOf[e] \in processed_messages
      BY <2>3, <2>6, <3>1 DEF TakeNext, sidecar, history
    <3>2. CASE IdOf[e] \notin processed_messages
      <4>1. IdOf[e] \in MessageId /\ hand' = IdOf[e]
        BY <2>6, <3>2, IdAssumption DEF TakeNext
      <4>2. Phase = "idle" /\ Phase' = "acting"
        BY <2>6, <3>2 DEF TakeNext, Phase
      <4>3. Contract!Take(IdOf[e])
        BY <2>6, <3>2, <4>1, <4>2 DEF TakeNext, sidecar, history, Contract!Take
      <4> QED BY <4>1, <4>3 DEF Contract!Next
    <3> QED BY <3>1, <3>2
  <2>7. CASE Record
    <3>1. hand = Id /\ UNCHANGED <<hand, fired>>
      BY <2>1, <2>7, IdAssumption DEF Record, Goto, history, TypeOK, Id
    <3>2. Phase = "acting" /\ Phase' = "recording"
      BY <2>7 DEF Record, Goto, Phase
    <3>3. Contract!Record
      BY <2>7, <3>1, <3>2 DEF Record, Contract!Record
    <3> QED BY <3>3 DEF Contract!Next
  <2>8. CASE RecordAuditRow
    <3>1. UNCHANGED <<processed_messages, posted, current>>
      BY <2>8 DEF RecordAuditRow, Goto, history
    <3>2. CASE pc' = "audit"
      BY <2>2, <2>8, <3>1, <3>2 DEF RecordAuditRow
    <3>3. CASE pc' = "webhooks"
      <4>1. Phase = "recording" /\ Phase' = "announcing"
        BY <2>8, <3>3 DEF RecordAuditRow, Phase
      <4>2. Contract!Complete
        BY <3>1, <4>1 DEF Contract!Complete
      <4> QED BY <4>2 DEF Contract!Next
    <3> QED BY <2>8, <3>2, <3>3 DEF RecordAuditRow, Goto
  <2>9. CASE NextWebhook
    <3> DEFINE w == WebhookAt(tags, Actions, hook + 1)
    <3>1. UNCHANGED <<processed_messages, current>>
          /\ Phase = "announcing" /\ Phase' = "announcing"
      BY <2>9 DEF NextWebhook, Goto, sidecar, Phase
    <3>2. CASE UNCHANGED posted
      BY <2>5, <3>1, <3>2
    <3>3. CASE /\ FiresAt(tags, Actions, Webhooks, hook + 1)
               /\ pc' = "posting"
               /\ posted' = [posted EXCEPT ![<<Id, w>>] = @ + 1]
      <4>1. w \in Webhook
        BY <3>3, ConfigAssumption DEF FiresAt
      <4>2. hand = Id /\ Id \in MessageId
        BY <2>1, <2>9, HandIsMessage, IdAssumption DEF NextWebhook, TypeOK, Id
      <4>3. posted \in [MessageId \X Webhook -> Nat] /\ <<Id, w>> \in MessageId \X Webhook
        BY <2>1, <4>1, <4>2 DEF TypeOK
      <4>4. posted[<<Id, w>>] = 0
        <5>1. posted'[<<Id, w>>] = posted[<<Id, w>>] + 1
          BY <3>3, <4>3
        <5>2. posted'[<<Id, w>>] <= 1
          BY <4>1, <4>2 DEF Inv, PostedAtMostOnce
        <5> QED BY <4>3, <5>1, <5>2
      <4>5. <<Id, w>> \notin fired /\ fired' = fired \cup {<<Id, w>>}
        BY <3>3, <4>3, <4>4
      <4>6. PICK x \in Webhook : x = w
        BY <4>1
      <4>7. Contract!Fire(x)
        BY <3>1, <4>2, <4>5, <4>6 DEF Contract!Fire
      <4> QED BY <4>7 DEF Contract!Next
    <3> QED BY <2>9, <3>2, <3>3 DEF NextWebhook, Goto
  <2>10. CASE Download \/ Classify \/ RecordDecision \/ DeliveryEnds
    BY <2>5, <2>10
       DEF Download, Classify, RecordDecision, DeliveryEnds, Goto, Phase,
           sidecar, history
  <2>11. CASE Finish \/ ApplyFails \/ ProcessFails
    BY <2>4, <2>11 DEF Finish, ApplyFails, ProcessFails, sidecar, history
  <2>12. CASE Crash
    BY <2>3, <2>4, <2>12 DEF Crash, sidecar, history
  <2>13. CASE Poll \/ Connect \/ ConnectFails \/ EndCycle
    BY <2>3, <2>13 DEF Poll, Connect, ConnectFails, EndCycle, sidecar, history
  <2>14. CASE UserActs \/ Apply \/ UNCHANGED vars
    BY <2>2, <2>14 DEF UserActs, Apply, vars, local, sidecar, history
  <2>15. ASSUME NEW e \in Envelope, IndexCatchesUp(e)
         PROVE  UNCHANGED seen
    BY <2>2, <2>15 DEF IndexCatchesUp, local, sidecar, history
  <2> QED
    BY <2>6, <2>7, <2>8, <2>9, <2>10, <2>11, <2>12, <2>13, <2>14, <2>15
       DEF Next, Daemon, Process, Bichon
<1> QED
  BY <1>1, <1>2, InvInductive, PTL DEF Spec, ImplementsContract, Contract!Spec
=============================================================================
