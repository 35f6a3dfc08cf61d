------------------------------ MODULE MCTriage ------------------------------
(***************************************************************************)
(* Instances of Triage for TLC.                                            *)
(***************************************************************************)
EXTENDS Triage

CONSTANTS e1, e2, m1, m2

\* "a" and "b" are below Berger/ on a server whose separator is "/".
MCServerPath == [f \in Folder |-> "Berger/" \o f]

DistinctIds == [e \in Envelope |-> IF e = e1 THEN m1 ELSE m2]
SameId      == [e \in Envelope |-> m1]

TagAction(copy, move, seen, hookName) ==
  [copy_to |-> copy, move_to |-> move, mark_seen |-> seen,
   mark_flagged |-> FALSE, webhook |-> hookName]

\* e1 carries both tags, and both reference the webhook.
MCFilters == << [tag |-> "news", hits |-> {e1}],
                [tag |-> "vip", hits |-> {e1, e2}] >>
MCActions == [t \in {"news", "vip"} |->
                IF t = "news" THEN TagAction("a", None, TRUE, "hook")
                              ELSE TagAction(None, "b", FALSE, "hook")]

\* The classifier decides: file as work, or move to junk and announce it.
LlmFilters == << [tag |-> "vip", hits |-> {e1}] >>
LlmActions == [t \in {"vip", "cat/work", "cat/junk"} |->
                 CASE t = "vip"      -> TagAction(None, None, TRUE, None)
                   [] t = "cat/work" -> TagAction("a", None, FALSE, None)
                   [] t = "cat/junk" -> TagAction(None, "b", FALSE, "hook")]
Work == Object([category |-> "work", priority |-> 3])
Junk == Object([category |-> "junk", needs_reply |-> TRUE, priority |-> 4, why |-> ""])
Text(choices) == [status |-> 200, choices |-> choices]

\* Classifications bare and wrapped; two of them, a stray brace, a priority
\* off its scale and one that is no u8; no choice, no completion, no answer.
MCAnswer ==
  { Text(<< <<Prose, Work>> >>), Text(<< <<Junk, Prose>>, <<Work>> >>),
    Text(<< <<Work, Prose, Junk>> >>), Text(<< <<Brace("{"), Work>> >>),
    Text(<< <<Object([category |-> "work", priority |-> 256])>> >>),
    Text(<< >>), [status |-> 0, choices |-> None],
    [status |-> 503, choices |-> << <<Work>> >>] }

MCWebhooks == [w \in {"hook"} |-> {}]
\* The webhook is narrowed to urgent mail.
WhenWebhooks == [w \in {"hook"} |-> {"priority-high"}]
=============================================================================
