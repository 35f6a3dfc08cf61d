--------------------------- MODULE MCSidecarViews ---------------------------
(* SidecarViews over the rows of three triages: by a filter, by the model   *)
(* with a webhook, and one that found nothing to do.                       *)
EXTENDS SidecarViews

CONSTANTS m1, m2

MCMessageId == {m1, m2}

Rows(decisions, matches, tags, actions, emissions) ==
  [llm_decisions |-> decisions, filter_matches |-> matches,
   applied_tags |-> tags, executed_actions |-> actions,
   webhook_emissions |-> emissions]

MCTriaged == {Rows(0, 1, 1, 1, 0), Rows(1, 2, 1, 0, 1), Rows(0, 0, 0, 0, 0)}

MessagesAreAlike == Permutations(MCMessageId)
=============================================================================
