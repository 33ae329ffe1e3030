------------------------------- MODULE ToolText -------------------------------
(***************************************************************************)
(* What McpToolAdapter makes of the text of a TOOL: payload and of the     *)
(* text a server answers with: the arguments of tools/call, and the capped *)
(* content of the tool result.  A text is abstracted to what the code      *)
(* tells apart: a payload to its shape, a result to the sizes of its       *)
(* characters in UTF-8.                                                    *)
(***************************************************************************)
EXTENDS Answers, SequencesExt

-----------------------------------------------------------------------------
(* coerce_arguments: the schema has properties, each of which may take a    *)
(* string, and required keys, in any relation to the properties.            *)

\* The one property plain text is meant for, or None.
Target(schema) ==
  IF Len(schema.required) = 1 THEN schema.required[1]
  ELSE IF Len(schema.properties) = 1 THEN schema.properties[1]
  ELSE None

\* _coerce_scalar: a property that takes a string, or declares nothing, gets
\* the text; another one gets the JSON value that the text must be.
Scalar(schema, key, payload) ==
  IF key \in schema.typed THEN (IF payload.decodes THEN "value" ELSE None) ELSE "text"

\* The arguments by key before the required keys are looked for.
Filled(schema, payload) ==
  CASE payload.shape = "structured" -> [k \in payload.keys |-> "value"]
    [] payload.shape = "object"     -> IF payload.decodes THEN [k \in payload.keys |-> "value"] ELSE None
    [] payload.shape = "plain"      ->
         IF schema.properties = <<>> THEN <<>>
         ELSE IF Target(schema) = None \/ Scalar(schema, Target(schema), payload) = None THEN None
         ELSE [k \in {Target(schema)} |-> Scalar(schema, Target(schema), payload)]

\* mutant: the required keys are not looked for
Coerced_Unchecked(schema, payload) == Filled(schema, payload)
Coerced(schema, payload) ==
  LET args == Filled(schema, payload) IN
  IF args # None /\ ToSet(schema.required) \subseteq DOMAIN args THEN args ELSE None

-----------------------------------------------------------------------------
(* call: how the client's outcome becomes a result.                         *)

ErrorKind(outcome, valid) ==
  CASE outcome = "timeout"  -> "timeout"
    [] outcome = "protocol" -> "protocol_error"
    [] outcome = "lost"     -> "transport_error"
    [] outcome = "isError"  -> "tool_error"
    [] outcome = "answer"   -> IF valid THEN "none" ELSE "protocol_error"

-----------------------------------------------------------------------------
(* _result and _cap_utf8.  A character is the number of its bytes, negative *)
(* when the redactor replaces it, by one byte.                              *)

BytesOf(c) == IF c < 0 THEN -c ELSE c
Size(text) == FoldLeft(LAMBDA n, c : n + BytesOf(c), 0, text)
Redacted(text) == [i \in DOMAIN text |-> IF text[i] < 0 THEN 1 ELSE text[i]]

\* encoded[:n] without the character the cut splits.
Head8(text, n) ==
  SubSeq(text, 1, CHOOSE i \in 0..Len(text) :
                    /\ Size(SubSeq(text, 1, i)) <= n
                    /\ i < Len(text) => Size(SubSeq(text, 1, i + 1)) > n)

Cap(text, limit, dropped) ==
  IF ~dropped /\ Size(text) <= limit THEN [kept |-> text, truncated |-> FALSE]
  ELSE [kept |-> Head8(text, limit), truncated |-> TRUE]

\* mutant: what was dropped before the redaction is forgotten
ResultText_Unmarked(text, limit, margin, redacts) ==
  Cap(IF redacts THEN Redacted(Head8(text, limit + margin)) ELSE text, limit, FALSE)
\* With a redactor only the part that can survive, and a margin, is scanned.
ResultText(text, limit, margin, redacts) ==
  IF redacts
    THEN Cap(Redacted(Head8(text, limit + margin)), limit, Size(text) > limit + margin)
    ELSE Cap(text, limit, FALSE)
=============================================================================
