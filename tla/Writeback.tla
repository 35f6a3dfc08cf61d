------------------------------ MODULE Writeback ------------------------------
(***************************************************************************)
(* apply_actions: the consolidated IMAP steps of one message, run one      *)
(* command at a time against a mailbox its owner is using too.  Each       *)
(* filing step is three commands (does the folder exist, create it, copy   *)
(* or move), so the user can come in between them; any command can be      *)
(* refused, or lose its connection before or after taking effect.          *)
(***************************************************************************)
EXTENDS Mailbox, TagPlan

VARIABLES request, \* the resolved, unconsolidated actions
          plan,    \* the steps they consolidate to
          done,    \* how many of them have completed
          stage,   \* within a filing step: "check", "create" or "act"
          session  \* the IMAP connection is up

writeback == <<request, plan, done, stage>>

Begin(actions) ==
  /\ request' = actions
  /\ plan' = Consolidate(request')
  /\ done' = 0
  /\ stage' = "check"

\* No apply_actions call is in progress.
NoRequest ==
  /\ request = <<>>
  /\ plan = <<>>
  /\ done = 0
  /\ stage = "check"

-----------------------------------------------------------------------------
AllDone == done = Len(plan)

Step   == plan[done + 1]
Target == ServerPath[Step.folder]

StepDone == done' = done + 1 /\ stage' = "check"

AddFlag(e) ==
  \/ Step.kind = "mark_seen" /\ UidStore(e, "Seen")
  \/ Step.kind = "mark_flagged" /\ UidStore(e, "Flagged")

FileMessage(e) ==
  /\ stage = "act"
  /\ Target \in folders
  /\ \/ Step.kind = "copy_to" /\ UidCopy(e, Target)
     \/ Step.kind = "move_to" /\ UidMove(e, Target)

CreateFolder ==
  /\ stage = "create"
  /\ CreateMailbox(Target)

\* folder_exists decides whether create_folder runs before the step itself.
FolderExists ==
  /\ ~AllDone /\ session
  /\ Step.kind \in {"copy_to", "move_to"}
  /\ stage = "check"
  /\ stage' = IF Target \in folders THEN "act" ELSE "create"
  /\ UNCHANGED <<mailbox, request, plan, done, session>>

\* A command takes effect and its reply arrives.
RunCommand(e) ==
  /\ ~AllDone /\ session
  /\ \/ (AddFlag(e) \/ FileMessage(e)) /\ StepDone
     \/ CreateFolder /\ stage' = "act" /\ UNCHANGED done
  /\ UNCHANGED <<request, plan, session>>

\* The server has to refuse: the folder went away after folder_exists, or
\* there is no connection to run the command on.
MustFail == ~session \/ (stage = "act" /\ Target \notin folders)

\* A command returns Err: refused, or the connection drops before or after
\* the command took effect.  create_folder is CREATE and SUBSCRIBE: the
\* second can be refused with the folder there.
CommandFails(e) ==
  /\ ~AllDone
  /\ \/ UNCHANGED <<mailbox, session>>
     \/ session /\ session' = FALSE /\ UNCHANGED mailbox
     \/ session /\ session' = FALSE /\ (AddFlag(e) \/ FileMessage(e) \/ CreateFolder)
     \/ session /\ CreateFolder /\ UNCHANGED session
=============================================================================
