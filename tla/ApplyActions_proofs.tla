------------------------- MODULE ApplyActions_proofs -------------------------
(***************************************************************************)
(* Proofs about one call of apply_actions: what a call that returns Ok has *)
(* done, what one that fails has not lost, and that nothing follows the    *)
(* move, for every message, every tag list and every `actions:` section.   *)
(***************************************************************************)
EXTENDS ApplyActions, TagPlan_proofs, FiniteSetTheorems

\* The plan under the call's own configuration, read off its tags.
LEMMA PlanOfCall ==
  ASSUME config \in Configs
  PROVE  IsPlan(TagOrder, config, Folder, Consolidate(ResolveActions(TagOrder, config)))
<1>1. IsSection(config, Folder)
  BY ConfigsAssumption
<1>2. TagOrder \in Seq(ToSet(Alphabet)) /\ None \notin Folder
  BY ApplyAssumption
<1> QED BY <1>1, <1>2, PlanIsAsked

-----------------------------------------------------------------------------
(* What the first steps of a plan file and flag *)

\* Finitely many steps file into finitely many folders.
LEMMA FiledFinite ==
  ASSUME NEW steps, NEW d \in Nat, NEW p
  PROVE  IsFiniteSet(FiledBy(steps, d, p))
<1> DEFINE T == {steps[i].folder : i \in 1..d}
           f == [i \in 1..d |-> steps[i].folder]
<1>1. IsFiniteSet(1..d)
  BY FS_Interval
<1>2. f \in Surjection(1..d, T)
  BY DEF Surjection
<1>3. IsFiniteSet(T)
  BY <1>1, <1>2, FS_Surjection
<1>4. FiledBy(steps, d, p) \subseteq T
  BY DEF FiledBy
<1> QED BY <1>3, <1>4, FS_Subset

\* One more step files into one more folder of its mailbox, if it files.
LEMMA FiledStep ==
  ASSUME NEW steps \in Seq(PlanSteps(Folder)), FilesOnce(steps),
         NEW d \in Nat, d < Len(steps), NEW p
  PROVE  /\ IsFiniteSet(FiledBy(steps, d, p))
         /\ IsFiling(steps[d + 1]) /\ ServerPath[steps[d + 1].folder] = p =>
              Cardinality(FiledBy(steps, d + 1, p)) = Cardinality(FiledBy(steps, d, p)) + 1
         /\ ~(IsFiling(steps[d + 1]) /\ ServerPath[steps[d + 1].folder] = p) =>
              FiledBy(steps, d + 1, p) = FiledBy(steps, d, p)
         /\ Cardinality(FiledBy(steps, d, p)) \in Nat
<1>a. PICK x : x = steps[d + 1]
  OBVIOUS
<1>1. d + 1 \in 1..Len(steps) /\ x \in PlanSteps(Folder)
      /\ \A i : i \in 1..(d + 1) <=> i \in 1..d \/ i = d + 1
  BY <1>a
<1>2. IsFiniteSet(FiledBy(steps, d, p))
  BY FiledFinite
<1>3. ASSUME IsFiling(x), ServerPath[x.folder] = p
      PROVE  Cardinality(FiledBy(steps, d + 1, p)) = Cardinality(FiledBy(steps, d, p)) + 1
  <2>1. x.folder \in Folder
    BY <1>1, <1>3, StepKinds DEF IsFiling
  <2>2. FiledBy(steps, d + 1, p) = FiledBy(steps, d, p) \cup {x.folder}
    <3>1. \A f \in Folder :
            f \in FiledBy(steps, d + 1, p) <=> f \in FiledBy(steps, d, p) \/ f = x.folder
      BY <1>1, <1>3, <1>a DEF FiledBy, IsFiling
    <3> QED BY <3>1, <2>1 DEF FiledBy
  <2>3. x.folder \notin FiledBy(steps, d, p)
    <3>1. ASSUME NEW i \in 1..d, IsFiling(steps[i]), steps[i].folder = x.folder
          PROVE  FALSE
      <4>1. i \in 1..Len(steps) /\ i # d + 1
        OBVIOUS
      <4> QED BY <4>1, <3>1, <1>1, <1>3, <1>a DEF FilesOnce
    <3> QED BY <3>1 DEF FiledBy, IsFiling
  <2> QED BY <1>2, <2>2, <2>3, FS_AddElement
<1>4. ASSUME ~(IsFiling(x) /\ ServerPath[x.folder] = p)
      PROVE  FiledBy(steps, d + 1, p) = FiledBy(steps, d, p)
  BY <1>1, <1>4, <1>a DEF FiledBy, IsFiling
<1>5. Cardinality(FiledBy(steps, d, p)) \in Nat
  BY <1>2, FS_CardinalityType
<1> QED BY <1>2, <1>3, <1>4, <1>5, <1>a

\* Before the first step of the plan nothing has been done.
LEMMA NothingFiled ==
  ASSUME NEW steps, NEW p
  PROVE  Cardinality(FiledBy(steps, 0, p)) = 0 /\ FlaggedBy(steps, 0) = {}
<1>1. FiledBy(steps, 0, p) = {}
  BY DEF FiledBy
<1> QED BY <1>1, FS_EmptySet DEF FlaggedBy

\* The flags one more step of the plan adds.
LEMMA FlaggedStep ==
  ASSUME NEW steps, NEW d \in Nat
  PROVE  FlaggedBy(steps, d + 1) =
           FlaggedBy(steps, d)
             \cup (IF steps[d + 1].kind = "mark_seen" THEN {"Seen"} ELSE {})
             \cup (IF steps[d + 1].kind = "mark_flagged" THEN {"Flagged"} ELSE {})
<1>1. \A i : i \in 1..(d + 1) <=> i \in 1..d \/ i = d + 1
  OBVIOUS
<1> QED BY <1>1 DEF FlaggedBy

-----------------------------------------------------------------------------
(* What the whole plan files and flags: what the configuration asks for *)

\* Where a tag moves, the first tag that does names the folder.
LEMMA FirstMoveExists ==
  ASSUME config \in Configs, MoveFolders # {}
  PROVE  \E g \in Folder \cap MoveFolders : IsFirstMove(g)
<1>1. DOMAIN TagOrder = 1..Len(TagOrder) /\ None \notin Folder
  BY ApplyAssumption
<1>2. \A t : t \in Tagged <=> \E i \in 1..Len(TagOrder) : t = TagOrder[i] /\ t \in DOMAIN config
  BY <1>1 DEF Tagged
<1>a. PICK K : K = {i \in 1..Len(TagOrder) :
                      TagOrder[i] \in Tagged /\ config[TagOrder[i]].move_to # None}
  OBVIOUS
<1>3. K \subseteq Nat /\ K # {}
  BY <1>2, <1>a DEF MoveFolders
<1>4. PICK i \in K : \A j \in K : i <= j
  BY <1>3, Least
<1>5. i \in 1..Len(TagOrder) /\ TagOrder[i] \in Tagged /\ config[TagOrder[i]].move_to # None
  BY <1>4, <1>a
<1>6. \A j \in 1..(i - 1) : TagOrder[j] \in Tagged => config[TagOrder[j]].move_to = None
  <2> SUFFICES ASSUME NEW j \in 1..(i - 1), TagOrder[j] \in Tagged,
                      config[TagOrder[j]].move_to # None
               PROVE  FALSE
    OBVIOUS
  <2>1. Len(TagOrder) \in Nat
    BY ApplyAssumption
  <2>2. j \in 1..Len(TagOrder) /\ j < i
    BY <1>5, <2>1
  <2>3. j \in K
    BY <2>2, <1>a
  <2> QED BY <2>2, <2>3, <1>4, <1>5
<1>7. config[TagOrder[i]].move_to \in Folder
  BY <1>5, <1>2, ConfigsAssumption DEF IsSection, IsEntry
<1> QED BY <1>5, <1>6, <1>7, <1>1 DEF IsFirstMove, MoveFolders

\* What the steps of the plan file and flag is what the tags ask for.
LEMMA PlanIsWanted ==
  ASSUME config \in Configs, plan = Consolidate(ResolveActions(TagOrder, config))
  PROVE  /\ \A p : FiledBy(plan, Len(plan), p) = {f \in Folder : ServerPath[f] = p /\ Wanted(f)}
         /\ FlaggedBy(plan, Len(plan)) = WantedFlags
         /\ (\A i \in 1..Len(plan) : plan[i].kind # "move_to") <=> MoveFolders = {}
<1>1. IsPlan(TagOrder, config, Folder, plan)
  BY PlanOfCall
<1>2. plan \in Seq(PlanSteps(Folder)) /\ \A i \in 1..Len(plan) : plan[i] \in PlanSteps(Folder)
  BY <1>1 DEF IsPlan
<1>3. DOMAIN TagOrder = 1..Len(TagOrder) /\ None \notin Folder
  BY ApplyAssumption
<1>4. \A i \in 1..Len(TagOrder) : TagOrder[i] \in Tagged <=> TagOrder[i] \in DOMAIN config
  BY <1>3 DEF Tagged
<1>5. IsSection(config, Folder)
  BY ConfigsAssumption
<1>6. \A t : t \in Tagged <=> \E i \in 1..Len(TagOrder) : t = TagOrder[i] /\ t \in DOMAIN config
  BY <1>3 DEF Tagged
<1>7. \A f \in Folder : Asked(TagOrder, config, CopyTo(f)) <=> f \in CopyFolders
  <2> TAKE f \in Folder
  <2>1. \A a : AsksFor(a, CopyTo(f)) <=> a.copy_to = f
    BY <1>3 DEF AsksFor, CopyTo, MoveTo, MarkSeen, MarkFlagged
  <2> QED BY <2>1, <1>3, <1>6 DEF Asked, CopyFolders
<1>8. \A f \in Folder : Asked(TagOrder, config, MoveTo(f)) <=> f \in MoveFolders
  <2> TAKE f \in Folder
  <2>1. \A a : AsksFor(a, MoveTo(f)) <=> a.move_to = f
    BY <1>3 DEF AsksFor, CopyTo, MoveTo, MarkSeen, MarkFlagged
  <2> QED BY <2>1, <1>3, <1>6 DEF Asked, MoveFolders
<1>9. \A f \in Folder : FirstMovesTo(TagOrder, config, f) <=> IsFirstMove(f)
  <2> TAKE f \in Folder
  <2>1. \A i \in 1..Len(TagOrder) : \A j \in 1..(i - 1) : j \in 1..Len(TagOrder)
    BY ApplyAssumption
  <2> QED BY <2>1, <1>3, <1>4 DEF FirstMovesTo, IsFirstMove
<1>10. \A f \in Folder : IsFirstMove(f) => f \in MoveFolders
  BY <1>3 DEF IsFirstMove, MoveFolders
<1>11. \A f \in Folder : Wanted(f) <=> HasStep(plan, CopyTo(f)) \/ HasStep(plan, MoveTo(f))
  BY <1>1, <1>7, <1>8, <1>9, <1>10 DEF Wanted, IsPlan
<1>12. \A f \in Folder :
         (\E i \in 1..Len(plan) : IsFiling(plan[i]) /\ plan[i].folder = f) <=>
           HasStep(plan, CopyTo(f)) \/ HasStep(plan, MoveTo(f))
  <2> TAKE f \in Folder
  <2>1. CopyTo(f).folder = f /\ MoveTo(f).folder = f /\ IsFiling(CopyTo(f)) /\ IsFiling(MoveTo(f))
    BY DEF CopyTo, MoveTo, IsFiling
  <2>2. ASSUME NEW i \in 1..Len(plan), IsFiling(plan[i]), plan[i].folder = f
        PROVE  HasStep(plan, CopyTo(f)) \/ HasStep(plan, MoveTo(f))
    <3>1. plan[i] = CopyTo(f) \/ plan[i] = MoveTo(f)
      BY <2>2, <1>2, StepKinds DEF IsFiling
    <3> QED BY <3>1 DEF HasStep
  <2> QED BY <2>1, <2>2 DEF HasStep
<1>13. \A p : FiledBy(plan, Len(plan), p) = {f \in Folder : ServerPath[f] = p /\ Wanted(f)}
  BY <1>11, <1>12 DEF FiledBy, IsFiling
<1>14. (\E t \in Tagged : config[t].mark_seen) <=>
         \E i \in 1..Len(plan) : plan[i].kind = "mark_seen"
  <2>1. \A a : AsksFor(a, MarkSeen) <=> a.mark_seen
    BY DEF AsksFor, CopyTo, MoveTo, MarkSeen, MarkFlagged
  <2>2. Asked(TagOrder, config, MarkSeen) <=> \E t \in Tagged : config[t].mark_seen
    BY <2>1, <1>6 DEF Asked
  <2>3. HasStep(plan, MarkSeen) <=> \E i \in 1..Len(plan) : plan[i].kind = "mark_seen"
    <3>1. MarkSeen.kind = "mark_seen"
      BY DEF MarkSeen
    <3> QED BY <3>1, <1>2, StepKinds DEF HasStep
  <2> QED BY <2>2, <2>3, <1>1 DEF IsPlan
<1>15. (\E t \in Tagged : config[t].mark_flagged) <=>
         \E i \in 1..Len(plan) : plan[i].kind = "mark_flagged"
  <2>1. \A a : AsksFor(a, MarkFlagged) <=> a.mark_flagged
    BY DEF AsksFor, CopyTo, MoveTo, MarkSeen, MarkFlagged
  <2>2. Asked(TagOrder, config, MarkFlagged) <=> \E t \in Tagged : config[t].mark_flagged
    BY <2>1, <1>6 DEF Asked
  <2>3. HasStep(plan, MarkFlagged) <=> \E i \in 1..Len(plan) : plan[i].kind = "mark_flagged"
    <3>1. MarkFlagged.kind = "mark_flagged"
      BY DEF MarkFlagged
    <3> QED BY <3>1, <1>2, StepKinds DEF HasStep
  <2> QED BY <2>2, <2>3, <1>1 DEF IsPlan
<1>16. FlaggedBy(plan, Len(plan)) = WantedFlags
  BY <1>14, <1>15 DEF FlaggedBy, WantedFlags
<1>17. ASSUME NEW f \in MoveFolders PROVE \E g \in Folder : IsFirstMove(g)
  BY <1>17, FirstMoveExists
<1>18. ASSUME NEW f \in Folder, IsFirstMove(f)
       PROVE  \E i \in 1..Len(plan) : plan[i].kind = "move_to"
  <2>1. HasStep(plan, MoveTo(f))
    BY <1>18, <1>1, <1>9 DEF IsPlan
  <2> QED BY <2>1 DEF HasStep, MoveTo
<1>19. ASSUME NEW i \in 1..Len(plan), plan[i].kind = "move_to" PROVE MoveFolders # {}
  <2>1. plan[i] = MoveTo(plan[i].folder) /\ plan[i].folder \in Folder
    BY <1>19, <1>2, StepKinds
  <2>2. HasStep(plan, MoveTo(plan[i].folder))
    BY <2>1 DEF HasStep
  <2> QED BY <2>1, <2>2, <1>1, <1>9, <1>10 DEF IsPlan
<1>20. (\A i \in 1..Len(plan) : plan[i].kind # "move_to") <=> MoveFolders = {}
  BY <1>17, <1>18, <1>19
<1> QED BY <1>13, <1>16, <1>20

-----------------------------------------------------------------------------
(* The invariant *)

\* A triage starts in the inductive invariant (actions/mod.rs, apply_actions).
THEOREM InitInv == Init => IInv
<1> SUFFICES ASSUME Init PROVE IInv
  OBVIOUS
<1>1. MailboxTypeOK
  BY DEF Init, MailboxInit, MailboxTypeOK
<1>2. config \in Configs /\ plan = Consolidate(ResolveActions(TagOrder, config)) /\ done = 0
  BY DEF Init
<1>3. plan \in Seq(PlanSteps(Folder))
  BY <1>2, PlanOfCall DEF IsPlan
<1>4. ControlOK
  BY <1>2, <1>3, ApplyAssumption DEF ControlOK, Init
<1>5. DoneShows
  <2>1. inbox = Envelope /\ copies = [p \in Path |-> [e \in Envelope |-> 0]]
        /\ flags = [e \in Envelope |-> {}]
    BY DEF Init, MailboxInit
  <2>2. \A p \in Path : copies[p][Message] = Cardinality(FiledBy(plan, done, p))
    BY <1>2, <2>1, NothingFiled, ApplyAssumption
  <2>3. flags[Message] = FlaggedBy(plan, done)
    BY <1>2, <2>1, NothingFiled, ApplyAssumption
  <2>4. Message \in inbox <=> \A i \in 1..done : plan[i].kind # "move_to"
    BY <1>2, <2>1, ApplyAssumption
  <2> QED BY <2>2, <2>3, <2>4 DEF DoneShows
<1>6. FailedMoveShows
  BY DEF Init, FailedMoveShows
<1> QED BY <1>1, <1>4, <1>5, <1>6 DEF IInv

\* What holds of the plan while the call runs, and of the step it is at.
LEMMA AtStep ==
  ASSUME IInv, ~AllDone
  PROVE  /\ plan \in Seq(PlanSteps(Folder)) /\ FilesOnce(plan)
         /\ done \in Nat /\ done < Len(plan) /\ done + 1 \in 1..Len(plan)
         /\ Step \in PlanSteps(Folder)
         /\ IsFiling(Step) => Target \in Path /\ Step.folder \in Folder
         /\ Step.kind = "move_to" => done + 1 = Len(plan)
         /\ \A i \in 1..done : plan[i].kind # "move_to"
<1>1. config \in Configs /\ plan = Consolidate(ResolveActions(TagOrder, config))
      /\ done \in 0..Len(plan)
  BY DEF IInv, ControlOK
<1>2. IsPlan(TagOrder, config, Folder, plan)
  BY <1>1, PlanOfCall
<1>3. plan \in Seq(PlanSteps(Folder))
      /\ \A k \in 1..Len(plan) : plan[k].kind = "move_to" => k = Len(plan)
  BY <1>2 DEF IsPlan
<1>4. FilesOnce(plan)
  BY <1>2, PlanFilesOnce, ApplyAssumption
<1>5. Len(plan) \in Nat /\ done < Len(plan) /\ done \in Nat
  BY <1>1, <1>3 DEF AllDone
<1>6. done + 1 \in 1..Len(plan) /\ Step \in PlanSteps(Folder)
  BY <1>3, <1>5 DEF Step
<1>7. IsFiling(Step) => Step.folder \in Folder
  BY <1>6, StepKinds DEF IsFiling
<1>8. IsFiling(Step) => Target \in Path
  BY <1>7, ApplyAssumption DEF Target
<1>9. \A i \in 1..done : i \in 1..Len(plan) /\ i # Len(plan)
  BY <1>5
<1> QED BY <1>3, <1>4, <1>5, <1>6, <1>7, <1>8, <1>9 DEF Step

\* A command that takes effect keeps the mailbox well-formed, and nobody but
\* the user counts as the user.
LEMMA CommandType ==
  ASSUME MailboxTypeOK, UNCHANGED userActs,
         \/ AddFlag(Message) \/ CreateFolder
         \/ FileMessage(Message) /\ Target \in Path
  PROVE  MailboxTypeOK'
<1>0. Message \in Envelope
  BY ApplyAssumption
<1>1. CASE AddFlag(Message)
  BY <1>0, <1>1 DEF AddFlag, UidStore, MailboxTypeOK
<1>2. CASE CreateFolder
  BY <1>2 DEF CreateFolder, CreateMailbox, MailboxTypeOK
<1>3. CASE FileMessage(Message) /\ Target \in Path
  <2>1. copies' = Filed(Message, Target) /\ inbox' \subseteq inbox /\ UNCHANGED flags
    BY <1>3 DEF FileMessage, UidCopy, UidMove
  <2>2. copies' \in [Path -> [Envelope -> Nat]]
    <3>1. copies[Target] \in [Envelope -> Nat] /\ copies[Target][Message] + 1 \in Nat
      BY <1>0, <1>3 DEF MailboxTypeOK
    <3> QED BY <1>0, <1>3, <2>1, <3>1 DEF MailboxTypeOK, Filed
  <2> QED BY <2>1, <2>2 DEF MailboxTypeOK
<1> QED BY <1>1, <1>2, <1>3

\* The step at hand, when it is done to a message in INBOX, shows as one more
\* step done.
LEMMA StepShows ==
  ASSUME IInv, ~AllDone, result = "running", userActs = 0, UNCHANGED <<userActs, plan>>,
         AddFlag(Message) \/ FileMessage(Message)
  PROVE  /\ \A p \in Path :
              copies'[p][Message] = Cardinality(FiledBy(plan, done + 1, p))
         /\ flags'[Message] = FlaggedBy(plan, done + 1)
         /\ Message \in inbox' <=> \A i \in 1..(done + 1) : plan[i].kind # "move_to"
<1>1. /\ plan \in Seq(PlanSteps(Folder)) /\ FilesOnce(plan)
      /\ done \in Nat /\ done < Len(plan) /\ Step \in PlanSteps(Folder)
      /\ IsFiling(Step) => Target \in Path
      /\ \A i \in 1..done : plan[i].kind # "move_to"
  BY AtStep
<1>2. /\ \A p \in Path : copies[p][Message] = Cardinality(FiledBy(plan, done, p))
      /\ flags[Message] = FlaggedBy(plan, done)
      /\ Message \in inbox /\ Message \in Envelope
  BY <1>1, ApplyAssumption DEF IInv, DoneShows
<1>3. \A i : i \in 1..(done + 1) <=> i \in 1..done \/ i = done + 1
  BY <1>1
<1>4. Step = plan[done + 1]
  BY DEF Step
<1>5. CASE AddFlag(Message)
  <2>1. ~IsFiling(Step) /\ UNCHANGED <<inbox, copies>>
    BY <1>5 DEF AddFlag, UidStore, IsFiling
  <2>2. \A p \in Path : FiledBy(plan, done + 1, p) = FiledBy(plan, done, p)
    BY <1>1, <1>4, <2>1, FiledStep
  <2>3. flags'[Message] = FlaggedBy(plan, done + 1)
    <3>1. flags \in [Envelope -> SUBSET {"Seen", "Flagged"}]
      BY DEF IInv, MailboxTypeOK
    <3>2. \/ Step.kind = "mark_seen" /\ flags'[Message] = flags[Message] \cup {"Seen"}
          \/ Step.kind = "mark_flagged" /\ flags'[Message] = flags[Message] \cup {"Flagged"}
      BY <1>2, <1>5, <3>1 DEF AddFlag, UidStore
    <3>3. FlaggedBy(plan, done + 1) =
            FlaggedBy(plan, done)
              \cup (IF plan[done + 1].kind = "mark_seen" THEN {"Seen"} ELSE {})
              \cup (IF plan[done + 1].kind = "mark_flagged" THEN {"Flagged"} ELSE {})
      BY <1>1, FlaggedStep
    <3>4. Step.kind = "mark_seen" => Step.kind # "mark_flagged"
      OBVIOUS
    <3> QED BY <1>2, <1>4, <3>2, <3>3, <3>4
  <2>4. Message \in inbox' <=> \A i \in 1..(done + 1) : plan[i].kind # "move_to"
    BY <1>1, <1>2, <1>3, <1>4, <2>1 DEF IsFiling
  <2> QED BY <1>2, <2>1, <2>2, <2>3, <2>4
<1>6. CASE FileMessage(Message)
  <2>1. /\ IsFiling(Step) /\ Target \in Path /\ UNCHANGED flags
        /\ copies' = [copies EXCEPT ![Target][Message] = @ + 1]
        /\ Step.kind = "move_to" => inbox' = inbox \ {Message}
        /\ Step.kind # "move_to" => inbox' = inbox
    BY <1>1, <1>2, <1>6 DEF FileMessage, UidCopy, UidMove, Filed, IsFiling
  <2>2. ASSUME NEW p \in Path
        PROVE  copies'[p][Message] = Cardinality(FiledBy(plan, done + 1, p))
    <3>0. copies \in [Path -> [Envelope -> Nat]]
      BY DEF IInv, MailboxTypeOK
    <3>1. CASE p = Target
      <4>1. copies'[p][Message] = copies[p][Message] + 1
        BY <1>2, <2>1, <3>0, <3>1
      <4>2. ServerPath[plan[done + 1].folder] = p /\ IsFiling(plan[done + 1])
        BY <1>4, <2>1, <3>1 DEF Target
      <4>3. Cardinality(FiledBy(plan, done + 1, p)) = Cardinality(FiledBy(plan, done, p)) + 1
        BY <1>1, <4>2, FiledStep
      <4> QED BY <1>2, <4>1, <4>3
    <3>2. CASE p # Target
      <4>1. copies'[p][Message] = copies[p][Message]
        BY <1>2, <2>1, <3>0, <3>2
      <4>2. ServerPath[plan[done + 1].folder] # p
        BY <1>4, <3>2 DEF Target
      <4>3. FiledBy(plan, done + 1, p) = FiledBy(plan, done, p)
        BY <1>1, <4>2, FiledStep
      <4> QED BY <1>2, <4>1, <4>3
    <3> QED BY <3>1, <3>2
  <2>3. flags'[Message] = FlaggedBy(plan, done + 1)
    <3>1. FlaggedBy(plan, done + 1) =
            FlaggedBy(plan, done)
              \cup (IF plan[done + 1].kind = "mark_seen" THEN {"Seen"} ELSE {})
              \cup (IF plan[done + 1].kind = "mark_flagged" THEN {"Flagged"} ELSE {})
      BY <1>1, FlaggedStep
    <3>2. Step.kind # "mark_seen" /\ Step.kind # "mark_flagged"
      BY <2>1 DEF IsFiling
    <3> QED BY <1>2, <1>4, <2>1, <3>1, <3>2
  <2>4. Message \in inbox' <=> \A i \in 1..(done + 1) : plan[i].kind # "move_to"
    BY <1>1, <1>2, <1>3, <1>4, <2>1
  <2> QED BY <2>2, <2>3, <2>4
<1> QED BY <1>5, <1>6

\* What the commands and the user leave of the configuration and the plan.
LEMMA ControlKept ==
  ASSUME ControlOK, UNCHANGED <<config, plan>>,
         done' \in 0..Len(plan), result' \in {"running", "ok", "err"},
         result' = "ok" => done' = Len(plan), faults' \in 0..MaxFaults
  PROVE  ControlOK'
BY DEF ControlOK

\* Executing a step of the plan keeps the invariant, whatever the server does.
LEMMA ExecuteKeeps ==
  ASSUME IInv, Execute
  PROVE  IInv'
<1>1. /\ result = "running" /\ UNCHANGED <<userActs, config, plan, result, faults>> /\ ~AllDone
      /\ FolderExists \/ RunCommand(Message)
  BY DEF Execute, FolderExists, RunCommand
<1>2. done \in Nat /\ done < Len(plan) /\ done + 1 \in 1..Len(plan)
      /\ (IsFiling(Step) => Target \in Path)
  BY <1>1, AtStep
<1>3. ControlOK /\ MailboxTypeOK /\ DoneShows /\ faults \in 0..MaxFaults /\ done \in 0..Len(plan)
  BY DEF IInv, ControlOK
<1>4. FailedMoveShows'
  BY <1>1 DEF FailedMoveShows
<1>5. CASE UNCHANGED <<inbox, copies, flags, done>>
  <2>1. ControlOK'
    BY <1>1, <1>3, <1>5, ControlKept
  <2>2. MailboxTypeOK'
    BY <1>1, <1>3, <1>5 DEF MailboxTypeOK
  <2>3. DoneShows'
    <3>1. \A p \in Path : FiledBy(plan, done, p)' = FiledBy(plan, done, p)
      BY <1>1, <1>5 DEF FiledBy
    <3>2. FlaggedBy(plan, done)' = FlaggedBy(plan, done)
      BY <1>1, <1>5 DEF FlaggedBy
    <3> QED BY <1>1, <1>3, <1>5, <3>1, <3>2 DEF DoneShows
  <2> QED BY <2>1, <2>2, <2>3, <1>4 DEF IInv
<1>6. CASE (AddFlag(Message) \/ FileMessage(Message)) /\ StepDone
  <2>1. done' = done + 1
    BY <1>6 DEF StepDone
  <2>2. ControlOK'
    BY <1>1, <1>2, <1>3, <2>1, ControlKept
  <2>3. MailboxTypeOK'
    <3>1. FileMessage(Message) => Target \in Path
      BY <1>2 DEF FileMessage, IsFiling
    <3> QED BY <1>1, <1>3, <1>6, <3>1, CommandType
  <2>4. DoneShows'
    <3>1. CASE userActs = 0
      <4>1. /\ \A p \in Path : copies'[p][Message] = Cardinality(FiledBy(plan, done + 1, p))
            /\ flags'[Message] = FlaggedBy(plan, done + 1)
            /\ Message \in inbox' <=> \A i \in 1..(done + 1) : plan[i].kind # "move_to"
        BY <1>1, <1>6, <3>1, StepShows
      <4>2. \A p \in Path : FiledBy(plan', done', p) = FiledBy(plan, done + 1, p)
        BY <1>1, <2>1
      <4>3. FlaggedBy(plan', done') = FlaggedBy(plan, done + 1)
        BY <1>1, <2>1
      <4> QED BY <1>1, <2>1, <4>1, <4>2, <4>3 DEF DoneShows
    <3>2. CASE userActs # 0
      BY <1>1, <3>2 DEF DoneShows
    <3> QED BY <3>1, <3>2
  <2> QED BY <2>2, <2>3, <2>4, <1>4 DEF IInv
<1>7. CASE FolderExists
  BY <1>5, <1>7 DEF FolderExists, mailbox
<1>8. CASE RunCommand(Message)
  BY <1>5, <1>6, <1>8 DEF RunCommand, CreateFolder, CreateMailbox
<1> QED BY <1>1, <1>7, <1>8

\* Returning keeps the invariant.
LEMMA ReturnKeeps ==
  ASSUME IInv, Return
  PROVE  IInv'
<1>1. /\ result = "running" /\ result' = "ok" /\ done = Len(plan)
      /\ UNCHANGED <<inbox, copies, flags, userActs, config, plan, done, faults>>
  BY DEF Return, AllDone, mailbox, writeback
<1>2. ControlOK /\ MailboxTypeOK /\ DoneShows
  BY DEF IInv
<1>3. ControlOK'
  <2>1. done' \in 0..Len(plan) /\ faults' \in 0..MaxFaults
    BY <1>1, <1>2 DEF ControlOK
  <2> QED BY <1>1, <1>2, <2>1, ControlKept
<1>4. MailboxTypeOK'
  BY <1>1, <1>2 DEF MailboxTypeOK
<1>5. DoneShows'
  <2>1. \A p \in Path : FiledBy(plan', done', p) = FiledBy(plan, done, p)
    BY <1>1
  <2>2. FlaggedBy(plan', done') = FlaggedBy(plan, done)
    BY <1>1
  <2> QED BY <1>1, <1>2, <2>1, <2>2 DEF DoneShows
<1>6. FailedMoveShows'
  BY <1>1 DEF FailedMoveShows
<1> QED BY <1>3, <1>4, <1>5, <1>6 DEF IInv

\* A command that fails after it took the message out of INBOX was the move,
\* and the move is the last step.
LEMMA FailKeeps ==
  ASSUME IInv, Fail
  PROVE  IInv'
<1>1. /\ result = "running" /\ result' = "err" /\ ~AllDone
      /\ UNCHANGED <<userActs, config, plan, done>>
      /\ \/ UNCHANGED <<inbox, copies, flags>>
         \/ AddFlag(Message) \/ FileMessage(Message) \/ CreateFolder
  BY DEF Fail, CommandFails, mailbox, writeback
<1>2. /\ done \in Nat /\ done < Len(plan) /\ (IsFiling(Step) => Target \in Path)
      /\ Step.kind = "move_to" => done + 1 = Len(plan)
      /\ \A i \in 1..done : plan[i].kind # "move_to"
  BY <1>1, AtStep
<1>3. ControlOK /\ MailboxTypeOK /\ DoneShows
  BY DEF IInv
<1>4. ControlOK'
  <2>1. done' \in 0..Len(plan)
    BY <1>1, <1>3 DEF ControlOK
  <2>2. faults' \in 0..MaxFaults
    BY <1>3, ApplyAssumption DEF ControlOK, Fail
  <2> QED BY <1>1, <1>3, <2>1, <2>2, ControlKept
<1>5. MailboxTypeOK'
  <2>1. CASE UNCHANGED <<inbox, copies, flags>>
    BY <1>1, <1>3, <2>1 DEF MailboxTypeOK
  <2>2. CASE AddFlag(Message) \/ FileMessage(Message) \/ CreateFolder
    <3>1. FileMessage(Message) => Target \in Path
      BY <1>2 DEF FileMessage, IsFiling
    <3> QED BY <1>1, <1>3, <2>2, <3>1, CommandType
  <2> QED BY <1>1, <2>1, <2>2
<1>6. DoneShows'
  BY <1>1 DEF DoneShows
<1>7. FailedMoveShows'
  <2> SUFFICES ASSUME userActs = 0, Message \notin inbox'
               PROVE  \A p \in Path :
                        copies'[p][Message] = Cardinality(FiledBy(plan', Len(plan'), p))
    BY <1>1 DEF FailedMoveShows
  <2>1. Message \in inbox
    BY <1>1, <1>2, <1>3 DEF DoneShows
  <2>2. AddFlag(Message) \/ FileMessage(Message)
    BY <1>1, <2>1 DEF CreateFolder, CreateMailbox
  <2>3. /\ \A p \in Path : copies'[p][Message] = Cardinality(FiledBy(plan, done + 1, p))
        /\ Message \in inbox' <=> \A i \in 1..(done + 1) : plan[i].kind # "move_to"
    BY <1>1, <2>2, StepShows
  <2>4. PICK i \in 1..(done + 1) : plan[i].kind = "move_to"
    BY <2>3
  <2>5. i = done + 1
    BY <1>2, <2>4
  <2>6. done + 1 = Len(plan)
    BY <1>2, <2>4, <2>5 DEF Step
  <2>7. plan' = plan
    BY <1>1
  <2> QED BY <2>3, <2>6, <2>7
<1> QED BY <1>4, <1>5, <1>6, <1>7 DEF IInv

\* What the user does in a mail client keeps the invariant.
LEMMA UserKeeps ==
  ASSUME IInv, User
  PROVE  IInv'
<1>1. /\ result = "running"
      /\ UNCHANGED <<config, plan, done, result, faults>>
      /\ userActs' = userActs + 1
      /\ UserTakes(Message) \/ \E p \in Path : UserDropsFolder(p)
  BY DEF User, UserTakes, UserDropsFolder, writeback
<1>2. ControlOK /\ MailboxTypeOK /\ userActs \in Nat
  BY DEF IInv, MailboxTypeOK
<1>3. userActs' # 0
  BY <1>1, <1>2
<1>4. ControlOK'
  <2>1. done' \in 0..Len(plan) /\ faults' \in 0..MaxFaults
    BY <1>1, <1>2 DEF ControlOK
  <2> QED BY <1>1, <1>2, <2>1, ControlKept
<1>5. MailboxTypeOK'
  <2>1. CASE UserTakes(Message)
    BY <1>2, <2>1 DEF UserTakes, MailboxTypeOK
  <2>2. CASE \E p \in Path : UserDropsFolder(p)
    BY <1>2, <2>2 DEF UserDropsFolder, MailboxTypeOK
  <2> QED BY <1>1, <2>1, <2>2
<1>6. DoneShows' /\ FailedMoveShows'
  BY <1>3 DEF DoneShows, FailedMoveShows
<1> QED BY <1>4, <1>5, <1>6 DEF IInv

\* So does a step of another process.
LEMMA StutterKeeps ==
  ASSUME IInv, UNCHANGED vars
  PROVE  IInv'
<1>1. UNCHANGED <<inbox, copies, folders, flags, userActs, request, plan, done, stage,
                  session, config, result, faults>>
  BY DEF vars, mailbox, writeback
<1>2. MailboxTypeOK' /\ ControlOK'
  BY <1>1 DEF IInv, MailboxTypeOK, ControlOK
<1>3. DoneShows'
  BY <1>1 DEF IInv, DoneShows, FiledBy, FlaggedBy
<1>4. FailedMoveShows'
  BY <1>1 DEF IInv, FailedMoveShows, FiledBy
<1> QED BY <1>2, <1>3, <1>4 DEF IInv

\* The inductive step: actions/mod.rs and imap/session.rs, and the user.
THEOREM NextInv == IInv /\ [Next]_vars => IInv'
<1> SUFFICES ASSUME IInv, [Next]_vars PROVE IInv'
  OBVIOUS
<1>1. CASE Execute
  BY <1>1, ExecuteKeeps
<1>2. CASE Return
  BY <1>2, ReturnKeeps
<1>3. CASE Fail
  BY <1>3, FailKeeps
<1>4. CASE User
  BY <1>4, UserKeeps
<1>5. CASE UNCHANGED vars
  BY <1>5, StutterKeeps
<1> QED BY <1>1, <1>2, <1>3, <1>4, <1>5 DEF Next

\* Between any two steps the commands that ran, and no others, show in the
\* mailbox, and a failed call that moved the message failed at its last step.
THEOREM Invariance == Spec => []IInv
<1>1. Init => IInv
  BY InitInv
<1>2. IInv /\ [Next]_vars => IInv'
  BY NextInv
<1> QED BY <1>1, <1>2, PTL DEF Spec

-----------------------------------------------------------------------------
(* What follows from it *)

OkShows ==
  /\ \A p \in Path : copies[p][Message] = TimesWanted(p)
  /\ flags[Message] = WantedFlags
  /\ Message \in inbox <=> MoveFolders = {}

\* The steps of the plan are all done, and they are what the tags ask for.
LEMMA OkApplies ==
  ASSUME IInv, result = "ok", userActs = 0
  PROVE  OkShows
<1>1. /\ config \in Configs /\ plan = Consolidate(ResolveActions(TagOrder, config))
      /\ done = Len(plan)
  BY DEF IInv, ControlOK
<1>2. /\ \A p : FiledBy(plan, Len(plan), p) = {f \in Folder : ServerPath[f] = p /\ Wanted(f)}
      /\ FlaggedBy(plan, Len(plan)) = WantedFlags
      /\ (\A i \in 1..Len(plan) : plan[i].kind # "move_to") <=> MoveFolders = {}
  BY <1>1, PlanIsWanted
<1>3. /\ \A p \in Path : copies[p][Message] = Cardinality(FiledBy(plan, Len(plan), p))
      /\ flags[Message] = FlaggedBy(plan, Len(plan))
      /\ Message \in inbox <=> \A i \in 1..Len(plan) : plan[i].kind # "move_to"
  BY <1>1 DEF IInv, DoneShows
<1> QED BY <1>2, <1>3 DEF TimesWanted, OkShows

\* A call that returns Ok on a mailbox nobody else touched has filed the
\* message once for each folder the configuration lets win, nowhere else, set
\* the flags asked for, and taken it out of INBOX exactly when a tag moves it.
THEOREM OkAppliesExactly == Spec => []AppliesExactly
<1>1. IInv => AppliesExactly
  <2> SUFFICES ASSUME IInv, result = "ok", userActs = 0
               PROVE  OkShows
    BY DEF AppliesExactly, OkShows
  <2> QED BY OkApplies
<1> QED BY <1>1, Invariance, PTL

\* A call that fails with the message gone from INBOX has filed it once for
\* each folder the configuration lets win.
THEOREM ErrLosesNothing == Spec => []FailureLosesNothing
<1>1. IInv => FailureLosesNothing
  <2> SUFFICES ASSUME IInv, result = "err", userActs = 0, Message \notin inbox
               PROVE  \A p \in Path : copies[p][Message] = TimesWanted(p)
    BY DEF FailureLosesNothing
  <2>1. config \in Configs /\ plan = Consolidate(ResolveActions(TagOrder, config))
    BY DEF IInv, ControlOK
  <2>2. \A p : FiledBy(plan, Len(plan), p) = {f \in Folder : ServerPath[f] = p /\ Wanted(f)}
    BY <2>1, PlanIsWanted
  <2>3. \A p \in Path : copies[p][Message] = Cardinality(FiledBy(plan, Len(plan), p))
    BY DEF IInv, FailedMoveShows
  <2> QED BY <2>2, <2>3 DEF TimesWanted
<1> QED BY <1>1, Invariance, PTL

\* Once the message has left INBOX, on a mailbox only Berger touches, no step
\* changes the mailbox: the move is the last command of its plan.
THEOREM MoveIsLast == Spec => NothingAfterMove
<1>1. IInv /\ [Next]_vars => [Message \notin inbox /\ userActs' = 0 => UNCHANGED mailbox]_vars
  <2> SUFFICES ASSUME IInv, Next, Message \notin inbox, userActs' = 0
               PROVE  UNCHANGED mailbox
    BY DEF vars
  <2>1. userActs = 0 /\ ~User
    <3>1. userActs \in Nat
      BY DEF IInv, MailboxTypeOK
    <3>2. userActs' = userActs \/ userActs' = userActs + 1
      BY DEF Next, Execute, Return, Fail, User, UserTakes, UserDropsFolder
    <3>3. User => userActs' = userActs + 1
      BY DEF User, UserTakes, UserDropsFolder
    <3> QED BY <3>1, <3>2, <3>3
  <2>2. CASE Return
    BY <2>2 DEF Return
  <2>3. CASE Execute \/ Fail
    <3>1. result = "running" /\ ~AllDone
      BY <2>3 DEF Execute, Fail, FolderExists, RunCommand, CommandFails
    <3>2. \A i \in 1..done : plan[i].kind # "move_to"
      BY <3>1, AtStep
    <3>3. Message \in inbox
      BY <2>1, <3>1, <3>2 DEF IInv, DoneShows
    <3> QED BY <3>3
  <2> QED BY <2>1, <2>2, <2>3 DEF Next
<1> QED BY <1>1, Invariance, PTL DEF Spec, NothingAfterMove

-----------------------------------------------------------------------------
(* The export *)

\* The folders a plan files into are finitely many.
LEMMA TaggedFinite == IsFiniteSet(Tagged)
<1> DEFINE n == Len(TagOrder)
           T == {TagOrder[i] : i \in 1..n}
           f == [i \in 1..n |-> TagOrder[i]]
<1>1. n \in Nat /\ DOMAIN TagOrder = 1..n
  BY ApplyAssumption
<1>2. IsFiniteSet(1..n)
  BY <1>1, FS_Interval
<1>3. f \in Surjection(1..n, T)
  BY DEF Surjection
<1>4. IsFiniteSet(T)
  BY <1>2, <1>3, FS_Surjection
<1>5. Tagged \subseteq T
  BY <1>1 DEF Tagged
<1> QED BY <1>4, <1>5, FS_Subset

\* Where the tags move to at most one folder, it is that of the first move.
LEMMA OnlyMove ==
  ASSUME config \in Configs, Cardinality(MoveFolders) <= 1, NEW f \in MoveFolders
  PROVE  IsFirstMove(f)
<1> DEFINE T == {config[t].move_to : t \in Tagged}
           m == [t \in Tagged |-> config[t].move_to]
<1>1. m \in Surjection(Tagged, T)
  BY DEF Surjection
<1>2. IsFiniteSet(T)
  BY <1>1, TaggedFinite, FS_Surjection
<1>3. MoveFolders \subseteq T
  BY DEF MoveFolders
<1>4. IsFiniteSet(MoveFolders)
  BY <1>2, <1>3, FS_Subset
<1>5. Cardinality(MoveFolders) = 1
  <2>1. Cardinality(MoveFolders) \in Nat /\ Cardinality(MoveFolders) # 0
    BY <1>4, FS_CardinalityType, FS_EmptySet
  <2> QED BY <2>1
<1>6. PICK x : MoveFolders = {x}
  BY <1>4, <1>5, FS_Singleton
<1>7. PICK g \in MoveFolders : IsFirstMove(g)
  BY FirstMoveExists
<1> QED BY <1>6, <1>7

\* The rules are those of the tags that route, each to where its tag routes.
IsRuleOf(r, t) ==
  /\ t \in DOMAIN config /\ t \in ToSet(Alphabet)
  /\ DestinationFolder(config[t]) # None
  /\ \E a \in ToSet(Accounts) : r = RenderRule(t, DestinationFolder(config[t]), a.imap)

RulesRoute(rules) ==
  /\ \A k \in 1..Len(rules) : \E t : IsRuleOf(rules[k], t)
  /\ \A t \in DOMAIN config :
       DestinationFolder(config[t]) # None =>
         \E k \in 1..Len(rules) : IsRuleOf(rules[k], t)

\* Every exported rule files into a folder its tag is configured with.
LEMMA ExportRoutes ==
  ASSUME config \in Configs, NEW rules, rules = Export(config, Accounts, AccountName),
         rules # None
  PROVE  RulesRoute(rules) /\ rules \in Seq({rules[k] : k \in 1..Len(rules)})
<1>a. PICK target : target = SelectAccount(Accounts, AccountName)
  OBVIOUS
<1>b. PICK places : places = {i \in DOMAIN Alphabet :
                                /\ Alphabet[i] \in DOMAIN config
                                /\ DestinationFolder(config[Alphabet[i]]) # None}
  OBVIOUS
<1>c. PICK routed : routed = Pick(Alphabet, places)
  OBVIOUS
<1>1. target # None /\ rules = RenderFilterRules(config, target.imap)
  BY <1>a DEF Export
<1>2. target \in ToSet(Accounts)
  <2>a. PICK named : named = {i \in DOMAIN Accounts : AccountName \in {None, Accounts[i].name}}
    OBVIOUS
  <2>b. PICK matching : matching = Pick(Accounts, named)
    OBVIOUS
  <2>1. target = IF matching = <<>> THEN None ELSE Head(matching)
    BY <1>a, <2>a, <2>b DEF SelectAccount
  <2>2. matching \in Seq(ToSet(Accounts))
    BY <2>b, ExportAssumption, PickPlaces
  <2> QED BY <1>1, <2>1, <2>2
<1>3. rules = [i \in DOMAIN routed |->
                 RenderRule(routed[i], DestinationFolder(config[routed[i]]), target.imap)]
  BY <1>1, <1>b, <1>c DEF RenderFilterRules
<1>4. routed \in Seq(ToSet(Alphabet)) /\ HoldsPlaces(routed, Alphabet, places)
  BY <1>b, <1>c, ExportAssumption, PickElements
<1>5. DOMAIN routed = 1..Len(routed) /\ Len(routed) \in Nat
  BY <1>4
<1>6. Len(rules) = Len(routed) /\ rules \in Seq({rules[k] : k \in 1..Len(rules)})
  <2>1. DOMAIN rules = 1..Len(routed)
    BY <1>3, <1>5
  <2>2. rules \in [1..Len(routed) -> {rules[k] : k \in 1..Len(routed)}]
    BY <1>3, <1>5
  <2>3. rules \in Seq({rules[k] : k \in 1..Len(routed)})
    BY <2>2, <1>5
  <2>4. Len(rules) = Len(routed)
    BY <2>1, <2>3, <1>5
  <2> QED BY <2>3, <2>4
<1>7. \A k \in 1..Len(rules) :
        rules[k] = RenderRule(routed[k], DestinationFolder(config[routed[k]]), target.imap)
  BY <1>3, <1>5, <1>6
<1>8. ASSUME NEW k \in 1..Len(rules)
      PROVE  IsRuleOf(rules[k], routed[k])
  <2>1. PICK i \in places : routed[k] = Alphabet[i]
    BY <1>4, <1>6 DEF HoldsPlaces
  <2>2. routed[k] \in ToSet(Alphabet) /\ routed[k] \in DOMAIN config
        /\ DestinationFolder(config[routed[k]]) # None
    BY <2>1, <1>b DEF ToSet
  <2> QED BY <2>2, <1>2, <1>7 DEF IsRuleOf
<1>9. ASSUME NEW t \in DOMAIN config, DestinationFolder(config[t]) # None
      PROVE  \E k \in 1..Len(rules) : IsRuleOf(rules[k], t)
  <2>1. t \in ToSet(Alphabet)
    BY ConfigsAssumption
  <2>2. PICK i \in DOMAIN Alphabet : t = Alphabet[i]
    BY <2>1 DEF ToSet
  <2>3. i \in places
    BY <2>2, <1>9, <1>b
  <2>4. PICK k \in 1..Len(routed) : routed[k] = t
    BY <2>2, <2>3, <1>4 DEF HoldsPlaces
  <2> QED BY <2>4, <1>6, <1>8
<1> QED BY <1>6, <1>8, <1>9 DEF RulesRoute

\* Where no rule of a tag the message lacks matches, the rule that moves the
\* message is that of one of its tags, and there is one if any of them routes.
LEMMA RuleOfATag ==
  ASSUME config \in Configs, NEW rules, rules = Export(config, Accounts, AccountName),
         rules # None,
         {t \in DOMAIN config \ ToSet(TagOrder) : Within[t] \intersect ToSet(TagOrder) # {}} = {},
         NEW rule, rule = MovedBy(rules, TagOrder)
  PROVE  /\ rule # None => \E t \in Tagged : IsRuleOf(rule, t)
         /\ rule = None => \A t \in Tagged : DestinationFolder(config[t]) = None
<1>a. PICK places : places = {i \in DOMAIN rules :
                                \E t \in Within[rules[i].contains] : Contains(TagOrder, t)}
  OBVIOUS
<1>b. PICK hits : hits = Pick(rules, places)
  OBVIOUS
<1>c. PICK S : S = {rules[k] : k \in 1..Len(rules)}
  OBVIOUS
<1>1. RulesRoute(rules) /\ rules \in Seq(S)
  BY <1>c, ExportRoutes
<1>2. DOMAIN rules = 1..Len(rules) /\ DOMAIN TagOrder = 1..Len(TagOrder)
  BY <1>1, ApplyAssumption
<1>3. rule = IF hits = <<>> THEN None ELSE Head(hits)
  BY <1>a, <1>b DEF MovedBy
<1>4. HoldsPlaces(hits, rules, places)
  BY <1>1, <1>a, <1>b, PickElements
<1>5. hits = <<>> <=> places \cap DOMAIN rules = {}
  BY <1>1, <1>b, PickEmpty
<1>6. \A t : Contains(TagOrder, t) <=> t \in ToSet(TagOrder)
  BY <1>2 DEF Contains, ToSet
<1>7. ASSUME NEW i \in places
      PROVE  /\ \E t \in Tagged : IsRuleOf(rules[i], t)
             /\ rules[i] # None
  <2>1. i \in 1..Len(rules)
    BY <1>a, <1>2
  <2>2. PICK t : IsRuleOf(rules[i], t)
    BY <1>1, <2>1 DEF RulesRoute
  <2>3. rules[i].contains = t
    BY <2>2 DEF IsRuleOf, RenderRule
  <2>4. Within[t] \intersect ToSet(TagOrder) # {}
    BY <1>a, <1>6, <2>3
  <2>5. t \in ToSet(TagOrder) /\ t \in DOMAIN config
    BY <2>2, <2>4 DEF IsRuleOf
  <2>6. t \in Tagged
    BY <2>5 DEF Tagged, ToSet
  <2>7. DestinationFolder(config[t]) \in Folder
    BY <2>2, ConfigsAssumption DEF IsSection, IsEntry, IsRuleOf, DestinationFolder
  <2>8. rules[i] # None
    BY <2>2, <2>7, ExportAssumption DEF IsRuleOf
  <2> QED BY <2>2, <2>6, <2>8
<1>8. ASSUME rule # None PROVE \E t \in Tagged : IsRuleOf(rule, t)
  <2>1. PICK i \in places : rule = rules[i]
    BY <1>3, <1>4, <1>8 DEF HoldsPlaces
  <2> QED BY <1>7, <2>1
<1>9. ASSUME rule = None, NEW t \in Tagged, DestinationFolder(config[t]) # None PROVE FALSE
  <2>1. t \in DOMAIN config /\ t \in ToSet(TagOrder)
    BY DEF Tagged, ToSet
  <2>2. PICK k \in 1..Len(rules) : IsRuleOf(rules[k], t)
    BY <1>1, <1>9, <2>1 DEF RulesRoute
  <2>3. rules[k].contains = t
    BY <2>2 DEF IsRuleOf, RenderRule
  <2>4. t \in Within[t]
    BY <2>2, ApplyAssumption DEF IsRuleOf
  <2>5. k \in places
    BY <1>2, <1>a, <1>6, <2>1, <2>3, <2>4
  <2>6. hits # <<>>
    BY <1>2, <1>5, <2>5
  <2>7. PICK i \in places : rule = rules[i]
    BY <1>3, <1>4, <2>6 DEF HoldsPlaces
  <2> QED BY <1>7, <1>9, <2>7
<1> QED BY <1>8, <1>9

\* The rules written for Thunderbird file the message where Berger has filed
\* it too, under the provisos of ExportAgrees.
THEOREM ExportAgreesAlways == Spec => []ExportAgrees
<1>1. IInv => ExportAgrees
  <2> SUFFICES ASSUME IInv, NEW rules, rules = Export(config, Accounts, AccountName),
                      NEW rule, rule = MovedBy(rules, TagOrder),
                      result = "ok", userActs = 0, rules # None,
                      {t \in DOMAIN config \ ToSet(TagOrder) :
                         Within[t] \intersect ToSet(TagOrder) # {}} = {},
                      Cardinality(MoveFolders) <= 1
               PROVE  /\ rule = None <=> CopyFolders \cup MoveFolders = {}
                      /\ rule # None =>
                           /\ copies[ServerPath[rule.folder]][Message] >= 1
                           /\ (\A t \in Tagged : config[t].copy_to # None => config[t].move_to # None)
                                => Message \notin inbox /\ IsFirstMove(rule.folder)
    BY DEF ExportAgrees
  <2>1. /\ config \in Configs /\ plan = Consolidate(ResolveActions(TagOrder, config))
        /\ done = Len(plan) /\ None \notin Folder
    BY ApplyAssumption DEF IInv, ControlOK
  <2>2. /\ rule # None => \E t \in Tagged : IsRuleOf(rule, t)
        /\ rule = None => \A t \in Tagged : DestinationFolder(config[t]) = None
    BY <2>1, RuleOfATag
  <2>3. OkShows
    BY OkApplies
  <2>4. \A t \in Tagged : DestinationFolder(config[t]) # None =>
          DestinationFolder(config[t]) \in CopyFolders \cup MoveFolders
    BY DEF DestinationFolder, CopyFolders, MoveFolders
  <2>5. rule = None <=> CopyFolders \cup MoveFolders = {}
    <3>1. CASE rule = None
      BY <2>2, <3>1 DEF DestinationFolder, CopyFolders, MoveFolders
    <3>2. CASE rule # None
      BY <2>2, <2>4, <3>2 DEF IsRuleOf
    <3> QED BY <3>1, <3>2
  <2>6. ASSUME rule # None
        PROVE  /\ copies[ServerPath[rule.folder]][Message] >= 1
               /\ (\A t \in Tagged : config[t].copy_to # None => config[t].move_to # None)
                    => Message \notin inbox /\ IsFirstMove(rule.folder)
    <3>1. PICK t \in Tagged : IsRuleOf(rule, t)
      BY <2>2, <2>6
    <3>2. rule.folder = DestinationFolder(config[t]) /\ rule.folder # None
      BY <3>1 DEF IsRuleOf, RenderRule
    <3>3. rule.folder \in Folder
      BY <2>1, <3>1, <3>2, ConfigsAssumption DEF IsSection, IsEntry, IsRuleOf, DestinationFolder
    <3>4. rule.folder \in MoveFolders => IsFirstMove(rule.folder)
      BY <2>1, OnlyMove
    <3>5. Wanted(rule.folder)
      BY <2>4, <3>1, <3>2, <3>4 DEF Wanted
    <3>a. PICK p : p = ServerPath[rule.folder]
      OBVIOUS
    <3>6. copies[p][Message] >= 1
      <4>1. p \in Path
        BY <3>a, <3>3 DEF Path
      <4>2. FiledBy(plan, Len(plan), p) = {f \in Folder : ServerPath[f] = p /\ Wanted(f)}
        BY <2>1, PlanIsWanted
      <4>3. Len(plan) \in Nat
        BY <2>1, PlanOfCall DEF IsPlan
      <4>4. IsFiniteSet(FiledBy(plan, Len(plan), p))
        BY <4>3, FiledFinite
      <4>5. FiledBy(plan, Len(plan), p) # {}
        BY <3>3, <3>5, <3>a, <4>2
      <4>6. /\ Cardinality(FiledBy(plan, Len(plan), p)) # 0
            /\ Cardinality(FiledBy(plan, Len(plan), p)) \in Nat
        BY <4>4, <4>5, FS_EmptySet, FS_CardinalityType
      <4>7. copies[p][Message] = Cardinality(FiledBy(plan, Len(plan), p))
        BY <2>3, <4>1, <4>2 DEF OkShows, TimesWanted
      <4> QED BY <4>6, <4>7
    <3>7. ASSUME \A u \in Tagged : config[u].copy_to # None => config[u].move_to # None
          PROVE  Message \notin inbox /\ IsFirstMove(rule.folder)
      <4>1. rule.folder = config[t].move_to /\ config[t].move_to # None
        BY <3>2, <3>7 DEF DestinationFolder
      <4>2. rule.folder \in MoveFolders
        BY <4>1 DEF MoveFolders
      <4> QED BY <2>3, <3>4, <4>2 DEF OkShows
    <3> QED BY <3>a, <3>6, <3>7
  <2> QED BY <2>5, <2>6
<1> QED BY <1>1, Invariance, PTL
=============================================================================
