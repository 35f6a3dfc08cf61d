---------------------------- MODULE ApplyActions ----------------------------
(***************************************************************************)
(* One call of apply_actions on its own: a message with the tags TagOrder, *)
(* under every `actions:` section in Configs, its resolved actions run     *)
(* to the end or to the first error.                                       *)
(***************************************************************************)
EXTENDS Writeback, ThunderbirdExport, FiniteSets

CONSTANTS Message,  \* the message acted upon
          TagOrder, \* its tags, in order
          Configs,  \* `actions:` sections: functions from tags to TagActions
          Accounts, \* `accounts:`, each with its name and imap
          AccountName, \* --account of the export
          MaxFaults \* bound: commands that fail with no one to blame

ASSUME ApplyAssumption ==
  /\ Message \in Envelope
  /\ ServerPath \in [Folder -> Path]
  /\ None \notin Folder
  /\ TagOrder \in Seq(ToSet(Alphabet))
  /\ Within \in [ToSet(Alphabet) -> SUBSET ToSet(Alphabet)]
  /\ \A t \in ToSet(Alphabet) : t \in Within[t]
  /\ MaxFaults \in Nat

\* The tags and the accounts are listed; an absent rule is no rule.
ASSUME ExportAssumption ==
  /\ Alphabet \in Seq(ToSet(Alphabet)) /\ Accounts \in Seq(ToSet(Accounts))
  /\ \A t \in ToSet(Alphabet), f \in Folder, a \in ToSet(Accounts) :
       RenderRule(t, f, a.imap) # None

ASSUME ConfigsAssumption ==
  \A c \in Configs : DOMAIN c \subseteq ToSet(Alphabet) /\ IsSection(c, Folder)

VARIABLES config, result, faults

vars == <<mailbox, userActs, writeback, session, config, result, faults>>

Init ==
  /\ MailboxInit
  /\ session = TRUE
  /\ config \in Configs
  /\ request = ResolveActions(TagOrder, config)
  /\ plan = Consolidate(request)
  /\ done = 0 /\ stage = "check"
  /\ result = "running" /\ faults = 0

Execute ==
  /\ result = "running"
  /\ FolderExists \/ RunCommand(Message)
  /\ UNCHANGED <<userActs, config, result, faults>>

Return ==
  /\ result = "running" /\ AllDone
  /\ result' = "ok"
  /\ UNCHANGED <<mailbox, userActs, writeback, session, config, faults>>

Fail ==
  /\ result = "running"
  /\ CommandFails(Message)
  /\ result' = "err"
  /\ \/ MustFail /\ UNCHANGED faults
     \/ faults < MaxFaults /\ faults' = faults + 1
  /\ UNCHANGED <<userActs, writeback, config>>

User ==
  /\ result = "running"
  /\ UserTakes(Message) \/ \E p \in Path : UserDropsFolder(p)
  /\ UNCHANGED <<writeback, session, config, result, faults>>

Next == Execute \/ Return \/ Fail \/ User

Spec == Init /\ [][Next]_vars

-----------------------------------------------------------------------------
(* What the configuration asks for, read off it without consolidation *)

Tagged == {TagOrder[i] : i \in DOMAIN TagOrder} \cap DOMAIN config

CopyFolders == {config[t].copy_to : t \in Tagged} \ {None}
MoveFolders == {config[t].move_to : t \in Tagged} \ {None}

\* The move_to of the first tag that has one.
IsFirstMove(f) ==
  \E i \in DOMAIN TagOrder :
    /\ TagOrder[i] \in Tagged /\ config[TagOrder[i]].move_to = f
    /\ \A j \in 1..(i - 1) :
         TagOrder[j] \in Tagged => config[TagOrder[j]].move_to = None

Wanted(f) == \/ f \in CopyFolders \ MoveFolders
             \/ f \in MoveFolders /\ IsFirstMove(f)

\* Two folders may be one mailbox of the server: it is asked for twice.
TimesWanted(p) == Cardinality({f \in Folder : ServerPath[f] = p /\ Wanted(f)})

WantedFlags ==
  (IF \E t \in Tagged : config[t].mark_seen THEN {"Seen"} ELSE {})
    \cup (IF \E t \in Tagged : config[t].mark_flagged THEN {"Flagged"} ELSE {})

-----------------------------------------------------------------------------
(* Properties *)

\* A call that returns Ok, on a mailbox nobody else touched, has filed the
\* message exactly once for each folder the configuration lets win, nowhere
\* else, set exactly the flags asked for, and taken it out of INBOX exactly
\* when a tag moves it; where the server has one mailbox for two folders it
\* holds the message once for each.
AppliesExactly ==
  result = "ok" /\ userActs = 0 =>
    /\ \A p \in Path : copies[p][Message] = TimesWanted(p)
    /\ flags[Message] = WantedFlags
    /\ Message \in inbox <=> MoveFolders = {}

\* The move runs last: once Berger has taken the message out of INBOX it
\* sends no further command that changes the mailbox.
NothingAfterMove ==
  [][Message \notin inbox /\ userActs' = 0 => UNCHANGED mailbox]_vars

\* A call that fails leaves the message where it was, or where a completed
\* call would have put it: it can be missing from INBOX only once every
\* folder the configuration copies it to, and that wins, has it.
FailureLosesNothing ==
  result = "err" /\ userActs = 0 /\ Message \notin inbox =>
    \A p \in Path : copies[p][Message] = TimesWanted(p)

\* "so the same foldering can run client-side" (README.md): unless a rule of
\* a tag the message does not have matches, or the tags move to different
\* folders, Thunderbird files the message where Berger has filed it too, and
\* moves it where Berger moves it if no tag only copies.
ExportAgrees ==
  LET rules == Export(config, Accounts, AccountName)
      foreign == {t \in DOMAIN config \ ToSet(TagOrder) :
                    Within[t] \intersect ToSet(TagOrder) # {}}
  IN result = "ok" /\ userActs = 0 /\ rules # None /\ foreign = {}
       /\ Cardinality(MoveFolders) <= 1 =>
       LET rule == MovedBy(rules, TagOrder) IN
         /\ rule = None <=> CopyFolders \cup MoveFolders = {}
         /\ rule # None =>
              /\ copies[ServerPath[rule.folder]][Message] >= 1
              /\ (\A t \in Tagged : config[t].copy_to # None => config[t].move_to # None)
                   => Message \notin inbox /\ IsFirstMove(rule.folder)

-----------------------------------------------------------------------------
(* Why they hold: what is true between any two steps (ApplyActions_proofs) *)

\* The folders of one mailbox that the first d steps file into.
FiledBy(steps, d, p) ==
  {f \in Folder : /\ ServerPath[f] = p
                  /\ \E i \in 1..d : /\ steps[i].kind \in {"copy_to", "move_to"}
                                     /\ steps[i].folder = f}

FlaggedBy(steps, d) ==
  (IF \E i \in 1..d : steps[i].kind = "mark_seen" THEN {"Seen"} ELSE {})
    \cup (IF \E i \in 1..d : steps[i].kind = "mark_flagged" THEN {"Flagged"} ELSE {})

ControlOK ==
  /\ config \in Configs
  /\ plan = Consolidate(ResolveActions(TagOrder, config))
  /\ done \in 0..Len(plan)
  /\ result \in {"running", "ok", "err"}
  /\ result = "ok" => done = Len(plan)
  /\ faults \in 0..MaxFaults

\* On a mailbox nobody else touches the steps done so far, and no others, show.
DoneShows ==
  result # "err" /\ userActs = 0 =>
    /\ \A p \in Path : copies[p][Message] = Cardinality(FiledBy(plan, done, p))
    /\ flags[Message] = FlaggedBy(plan, done)
    /\ Message \in inbox <=> \A i \in 1..done : plan[i].kind # "move_to"

\* A failed call that took the message out of INBOX failed at the last step.
FailedMoveShows ==
  result = "err" /\ userActs = 0 /\ Message \notin inbox =>
    \A p \in Path : copies[p][Message] = Cardinality(FiledBy(plan, Len(plan), p))

IInv == MailboxTypeOK /\ ControlOK /\ DoneShows /\ FailedMoveShows

-----------------------------------------------------------------------------
(* What the source says *)

\* "move_to wins over copy_to for the same folder" (src/actions/mod.rs): a
\* copy dropped in favour of a move is made good by that move.
DroppedCopyIsMoved ==
  result = "ok" /\ userActs = 0 =>
    \A f \in CopyFolders : copies[ServerPath[f]][Message] >= 1
=============================================================================
