---------------------------- MODULE BichonClient ----------------------------
(***************************************************************************)
(* What the HTTP client makes of Bichon's answers.  An answer is Lost (the *)
(* request or the reading of its body failed, or took 30 s) or a record    *)
(* [status, body]; a body is a record with a field `kind`: "page" and its  *)
(* items, "error" (Bichon's error envelope), or "text", which is neither.  *)
(***************************************************************************)
EXTENDS Naturals

Lost == [status |-> 0, body |-> [kind |-> "none"]]

Succeeded(result) == "value" \in DOMAIN result

IsSuccess(status) == status \in 200..299

\* A message of an answer outside 2xx.
MapErrorBody(answer) ==
  [error |-> IF answer.body.kind = "error" THEN "Api" ELSE "Unexpected"]

\* Mutant: the status is not looked at, and a body without items has none.
ReadJsonAnyStatus(answer, kind) ==
  IF answer = Lost THEN [error |-> "Transport"]
  ELSE IF answer.body.kind = kind THEN [value |-> answer.body]
  ELSE [value |-> [kind |-> kind, items |-> {}]]

\* Whatever its status says, an answer is a result only if it decodes.
ReadJson(answer, kind) ==
  IF answer = Lost THEN [error |-> "Transport"]
  ELSE IF ~IsSuccess(answer.status) THEN MapErrorBody(answer)
  ELSE IF answer.body.kind = kind THEN [value |-> answer.body]
  ELSE [error |-> "Decode"]

-----------------------------------------------------------------------------
\* What a search whose page holds `items` may be answered: the page, or an
\* error of Bichon or of a proxy before it, with or without the right status.
SearchAnswers(items) ==
  {Lost, [status |-> 200, body |-> [kind |-> "page", items |-> items]]}
    \cup {[status |-> s, body |-> [kind |-> k]] : s \in {200, 401, 503},
                                                  k \in {"error", "text"}}

SearchMessages(items) == {ReadJson(a, "page") : a \in SearchAnswers(items)}

\* What the download of a message may be answered.
DownloadAnswers(message) ==
  {Lost} \cup {[status |-> s, body |-> [kind |-> "text", bytes |-> message]] :
                 s \in {200, 404}}

\* The raw bytes of a message are not decoded.
DownloadMessage(answer) ==
  IF answer = Lost THEN [error |-> "Transport"]
  ELSE IF IsSuccess(answer.status) THEN [value |-> answer.body]
  ELSE MapErrorBody(answer)
=============================================================================
