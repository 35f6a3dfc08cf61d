----------------------------- MODULE Classifier -----------------------------
(***************************************************************************)
(* What the classifier makes of the model's answer.  An answer is a record *)
(* [status, choices]: the HTTP status, 0 when the request or the reading   *)
(* of the body failed or took 60 s, and the replies in the body, None when *)
(* the body is no chat completion.  A reply is a sequence of tokens: prose *)
(* without a brace, a lone "{" or "}", or a balanced JSON object.          *)
(***************************************************************************)
EXTENDS Integers, FiniteSetsExt, TagPlan

Prose           == [kind |-> "prose"]
Brace(b)        == [kind |-> b]
Object(fields)  == [kind |-> "object", fields |-> fields]

\* LlmClient::complete: the content of the first choice.
Complete(answer) ==
  IF answer.status \in 200..299 /\ answer.choices \notin {None, <<>>}
  THEN Head(answer.choices)
  ELSE None

\* Mutant: a reply is read as it is.
ExtractJsonNothing(text) == text

\* The tokens that begin with "{", and those that end with "}".
Opening == {"{", "object"}
Closing == {"}", "object"}

\* From the first "{" to the last "}".
ExtractJson(text) ==
  LET opens  == {i \in DOMAIN text : text[i].kind \in Opening}
      closes == {i \in DOMAIN text : text[i].kind \in Closing}
  IN IF opens # {} /\ closes # {} /\ Min(opens) <= Max(closes)
     THEN SubSeq(text, Min(opens), Max(closes))
     ELSE text

\* serde: the category must be there, priority is a u8; what is unknown is
\* ignored.  Neither the vocabulary nor the scale of the prompt is enforced.
Classified(fields) ==
  LET field(name, default) ==
        IF name \in DOMAIN fields THEN fields[name] ELSE default
      classification == [category    |-> field("category", None),
                         needs_reply |-> field("needs_reply", FALSE),
                         priority    |-> field("priority", 0)]
  IN IF /\ classification.category # None
        /\ classification.needs_reply \in BOOLEAN
        /\ classification.priority \in 0..255
     THEN classification ELSE None

ParseClassification(json) ==
  IF Len(json) = 1 /\ json[1].kind = "object" THEN Classified(json[1].fields) ELSE None

\* Classifier::classify on a cache miss; None is ClassifyOutcome::Failed.
Outcome(answer) ==
  LET content == Complete(answer)
  IN IF content = None THEN None ELSE ParseClassification(ExtractJson(content))
=============================================================================
