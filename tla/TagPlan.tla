------------------------------- MODULE TagPlan -------------------------------
(***************************************************************************)
(* The pure half of triage: which tags a message gets, which IMAP steps    *)
(* those tags resolve to once consolidated, and which webhooks they fire.  *)
(*                                                                         *)
(* A filter is a record [tag, hits]: the tag it emits and the set of       *)
(* messages it matches.  The `actions:` section is a function from the     *)
(* configured tags to records [copy_to, move_to, mark_seen, mark_flagged,  *)
(* webhook]; None is an absent optional.                                   *)
(***************************************************************************)
EXTENDS Selection

CONSTANT None

-----------------------------------------------------------------------------
(* Tags *)

Matching(filters, m) == {i \in DOMAIN filters : m \in filters[i].hits}

MatchingFilters(filters, m) == Pick(filters, Matching(filters, m))

RunFilters(filters, m) ==
  LET tag == [i \in DOMAIN filters |-> filters[i].tag]
  IN  Pick(tag, Firsts(tag, Matching(filters, m)))

\* A classification is a record [category, needs_reply, priority].
ClassificationTags(c) ==
  <<"cat/" \o c.category>>
    \o (IF c.needs_reply THEN <<"needs-reply">> ELSE <<>>)
    \o (IF c.priority >= 4 THEN <<"priority-high">> ELSE <<>>)

\* The outcome of the classifier: a classification, or None when it failed.
LlmTags(outcome) ==
  IF outcome = None THEN <<"llm_error">> ELSE ClassificationTags(outcome)

\* The elements of seq that others does not have.
NotIn(others, seq) == Pick(seq, {i \in DOMAIN seq : ~Contains(others, seq[i])})

\* Mutant: the classifier's tags come first.
MergeLlmTagsFirst(tags, outcome) ==
  LlmTags(outcome) \o NotIn(LlmTags(outcome), tags)

\* No tag twice (LlmTags repeats none).
MergeLlmTags(tags, outcome) == tags \o NotIn(tags, LlmTags(outcome))

-----------------------------------------------------------------------------
(* Actions *)

\* The shape of an `actions:` section over a set of folders: a folder is named
\* or the optional is absent, a flag is one or the other.
IsEntry(a, F) ==
  /\ a.copy_to \in F \cup {None} /\ a.move_to \in F \cup {None}
  /\ a.mark_seen \in BOOLEAN /\ a.mark_flagged \in BOOLEAN

IsSection(actions, F) == \A t \in DOMAIN actions : IsEntry(actions[t], F)

CopyTo(folder) == [kind |-> "copy_to", folder |-> folder]
MoveTo(folder) == [kind |-> "move_to", folder |-> folder]
MarkSeen       == [kind |-> "mark_seen", folder |-> None]
MarkFlagged    == [kind |-> "mark_flagged", folder |-> None]

TagSteps(a) ==
     (IF a.copy_to # None THEN <<CopyTo(a.copy_to)>> ELSE <<>>)
  \o (IF a.move_to # None THEN <<MoveTo(a.move_to)>> ELSE <<>>)
  \o (IF a.mark_seen THEN <<MarkSeen>> ELSE <<>>)
  \o (IF a.mark_flagged THEN <<MarkFlagged>> ELSE <<>>)

\* A tag the section does not name resolves to nothing.
ResolveActions(tags, actions) ==
  FlattenSeq([i \in DOMAIN tags |->
                IF tags[i] \in DOMAIN actions THEN TagSteps(actions[tags[i]]) ELSE <<>>])

\* The distinct folders the steps of one kind name, in order.
FoldersOf(kind, steps) ==
  LET folder == [i \in DOMAIN steps |-> steps[i].folder]
  IN  Pick(folder, Firsts(folder, {i \in DOMAIN steps : steps[i].kind = kind}))

\* Mutant: a copy to a folder that is also moved to is kept.
ConsolidateKeepsCopies(steps) ==
  LET moves  == FoldersOf("move_to", steps)
      copies == FoldersOf("copy_to", steps)
  IN     (IF Contains(steps, MarkSeen) THEN <<MarkSeen>> ELSE <<>>)
      \o (IF Contains(steps, MarkFlagged) THEN <<MarkFlagged>> ELSE <<>>)
      \o [i \in DOMAIN copies |-> CopyTo(copies[i])]
      \o (IF moves # <<>> THEN <<MoveTo(Head(moves))>> ELSE <<>>)

\* Mutant: the move runs before the copies.
ConsolidateMoveFirst(steps) ==
  LET moves  == FoldersOf("move_to", steps)
      copies == NotIn(moves, FoldersOf("copy_to", steps))
  IN     (IF Contains(steps, MarkSeen) THEN <<MarkSeen>> ELSE <<>>)
      \o (IF Contains(steps, MarkFlagged) THEN <<MarkFlagged>> ELSE <<>>)
      \o (IF moves # <<>> THEN <<MoveTo(Head(moves))>> ELSE <<>>)
      \o [i \in DOMAIN copies |-> CopyTo(copies[i])]

\* Flags, then the copies no move names, then the first move alone.
Consolidate(steps) ==
  LET moves  == FoldersOf("move_to", steps)
      copies == NotIn(moves, FoldersOf("copy_to", steps))
  IN     (IF Contains(steps, MarkSeen) THEN <<MarkSeen>> ELSE <<>>)
      \o (IF Contains(steps, MarkFlagged) THEN <<MarkFlagged>> ELSE <<>>)
      \o [i \in DOMAIN copies |-> CopyTo(copies[i])]
      \o (IF moves # <<>> THEN <<MoveTo(Head(moves))>> ELSE <<>>)

-----------------------------------------------------------------------------
(* Webhooks *)

\* The webhook the i-th tag references, if any.
WebhookAt(tags, actions, i) ==
  IF tags[i] \in DOMAIN actions THEN actions[tags[i]].webhook ELSE None

\* Mutant: a webhook is collected once per tag that references it.
EveryMention(tags, actions, i) == WebhookAt(tags, actions, i) # None

\* The names are collected once each, in tag order: tag i contributes its
\* webhook only when no earlier tag already has.
FirstMention(tags, actions, i) ==
  /\ WebhookAt(tags, actions, i) # None
  /\ \A j \in 1..(i - 1) :
       WebhookAt(tags, actions, j) # WebhookAt(tags, actions, i)

\* `when` is a webhook's tag filter; the empty set places no restriction.
FiresFor(when, tags) == when = {} \/ \E t \in when : Contains(tags, t)

\* `webhooks` maps each configured webhook to its `when` filter.
FiresAt(tags, actions, webhooks, i) ==
  LET w == WebhookAt(tags, actions, i)
  IN  /\ FirstMention(tags, actions, i)
      /\ w \in DOMAIN webhooks
      /\ FiresFor(webhooks[w], tags)
=============================================================================
