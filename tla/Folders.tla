------------------------------ MODULE Folders ------------------------------
(* IMAP folder names as sequences of segments: split at the separator of    *)
(* the server, "/" or ".".  No name here has an empty segment.              *)
EXTENDS Naturals, Sequences

IsInbox(segments) == Len(segments) = 1 /\ segments[1] \in {"INBOX", "Inbox"}

\* "Berger" at the top, or right below INBOX.
IsBergerFolder(segments) ==
  \/ Len(segments) >= 1 /\ segments[1] = "Berger"
  \/ /\ Len(segments) >= 2
     /\ segments[1] \in {"INBOX", "Inbox"}
     /\ segments[2] = "Berger"

\* The leaf names of folders of sent mail, two of the eight.
SentNames == {"Sent", "sent items"}

IsSentFolder(segments) ==
  segments # <<>> /\ segments[Len(segments)] \in SentNames

\* Mutant: Berger's own folders are not told apart first.
ClassifyFolderByLeaf(segments) ==
  IF IsInbox(segments) THEN "inbox"
  ELSE IF IsSentFolder(segments) THEN "sent" ELSE "other"

\* The part of the mailbox a folder is, for the scan.
ClassifyFolder(segments) ==
  IF IsBergerFolder(segments) THEN "other"
  ELSE IF IsInbox(segments) THEN "inbox"
  ELSE IF IsSentFolder(segments) THEN "sent" ELSE "other"
=============================================================================
