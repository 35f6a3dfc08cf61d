------------------------------- MODULE Mailbox -------------------------------
(***************************************************************************)
(* The IMAP account as Berger's commands see it, with the mailbox's other  *)
(* client: the user.  External to the repository: modelled from the        *)
(* commands src/actions/imap_target.rs issues.  UID COPY, MOVE and STORE   *)
(* naming a message that has left INBOX complete OK and do nothing.        *)
(***************************************************************************)
EXTENDS Naturals

CONSTANTS Envelope,   \* the messages delivered to INBOX (one UID each)
          Folder,     \* logical `/`-separated folders below Berger/
          ServerPath, \* the server mailbox each logical folder is mapped to
          MaxUserActs \* bound: what the user does to the account

Path == {ServerPath[f] : f \in Folder}

VARIABLES inbox,    \* the messages in INBOX
          copies,   \* copies[p][e]: instances of e filed in mailbox p
          folders,  \* the mailboxes that exist
          flags,    \* flags[e]: \Seen, \Flagged
          userActs  \* number of user actions so far

mailbox == <<inbox, copies, folders, flags>>

MailboxInit ==
  /\ inbox = Envelope
  /\ copies = [p \in Path |-> [e \in Envelope |-> 0]]
  /\ folders = {}
  /\ flags = [e \in Envelope |-> {}]
  /\ userActs = 0

MailboxTypeOK ==
  /\ inbox \subseteq Envelope
  /\ copies \in [Path -> [Envelope -> Nat]]
  /\ flags \in [Envelope -> SUBSET {"Seen", "Flagged"}]
  /\ userActs \in Nat

-----------------------------------------------------------------------------
(* Commands *)

UidStore(e, flag) ==
  /\ flags' = IF e \in inbox THEN [flags EXCEPT ![e] = @ \cup {flag}] ELSE flags
  /\ UNCHANGED <<inbox, copies, folders>>

CreateMailbox(p) ==
  /\ folders' = folders \cup {p}
  /\ UNCHANGED <<inbox, copies, flags>>

Filed(e, p) == IF e \in inbox THEN [copies EXCEPT ![p][e] = @ + 1] ELSE copies

UidCopy(e, p) ==
  /\ copies' = Filed(e, p)
  /\ UNCHANGED <<inbox, folders, flags>>

UidMove(e, p) ==
  /\ copies' = Filed(e, p)
  /\ inbox' = inbox \ {e}
  /\ UNCHANGED <<folders, flags>>

-----------------------------------------------------------------------------
(* The user *)

\* The user deletes a message from INBOX or files it elsewhere by hand.
UserTakes(e) ==
  /\ userActs < MaxUserActs
  /\ e \in inbox
  /\ inbox' = inbox \ {e}
  /\ userActs' = userActs + 1
  /\ UNCHANGED <<copies, folders, flags>>

\* The user deletes a folder under Berger/ with what it holds.
UserDropsFolder(p) ==
  /\ userActs < MaxUserActs
  /\ p \in folders
  /\ folders' = folders \ {p}
  /\ copies' = [copies EXCEPT ![p] = [e \in Envelope |-> 0]]
  /\ userActs' = userActs + 1
  /\ UNCHANGED <<inbox, flags>>
=============================================================================
