---------------------------- MODULE ModelAdapters ----------------------------
(***************************************************************************)
(* What each model adapter makes of what its provider does.  The adapters  *)
(* translate the provider's failures into the error codes of the gateway   *)
(* and keep the raw response by reference.  Any other exception passes     *)
(* through the adapter: the code is then ESCAPES.                          *)
(***************************************************************************)
EXTENDS Integers, FiniteSets, FiniteSetsExt

CONSTANTS
  Adapters,      \* the adapters in use
  Priced,        \* TRUE if token prices are configured for the HTTP provider
  Width,         \* pixels of a picture
  Rows           \* what the OCR engine may find: [from, to, blank]

ASSUME AdapterAssumption ==
  /\ Adapters \subseteq {"openai", "funasr", "qwen", "whisper", "rapidocr", "fake"}
  /\ Priced \in BOOLEAN /\ Width \in Nat \ {0}
  /\ \A r \in Rows : {r.from, r.to} \subseteq Int /\ r.from <= r.to

\* What a call comes to: its code, whether the result or the error refers to
\* the raw response, whether the provider did work, and whether its cost is
\* known.
Result(code, kept, worked, priced) ==
  [code |-> code, kept |-> kept, worked |-> worked, priced |-> priced]

Succeeds(priced) == Result("OK", TRUE, TRUE, priced)
NoAnswer(code)   == Result(code, FALSE, FALSE, FALSE)
Discarded(code)  == Result(code, FALSE, TRUE, FALSE)
Rejected(code)   == Result(code, TRUE, TRUE, FALSE)

Retryable == {"MODEL_TIMEOUT", "MODEL_RATE_LIMITED", "MODEL_SERVER_ERROR"}

\* The codes of the HTTP adapters for a call that brings no completion.
Http ==
  [timeout      |-> "MODEL_TIMEOUT",
   unreachable  |-> "MODEL_SERVER_ERROR",
   busy         |-> "MODEL_RATE_LIMITED",
   failing      |-> "MODEL_SERVER_ERROR",
   unauthorized |-> "MODEL_AUTHENTICATION_FAILED",
   forbidden    |-> "MODEL_PERMISSION_DENIED",
   rejected     |-> "MODEL_REQUEST_INVALID"]

NoCompletion == {NoAnswer(Http[r]) : r \in DOMAIN Http}

\* A text that is meant to be a JSON object, after it has been stored: it is
\* one, it is not, or (vision) its values cross a semantic boundary.
Parsed(priced) ==
  {Succeeds(priced), Rejected("MODEL_SCHEMA_PARSE_FAILED"),
   Rejected("MODEL_SEMANTIC_VALIDATION_FAILED")}

\* Chat Completions.  The filters act on the prompt or on the answer; an
\* answer without text is refused before it is stored.
OpenAi ==
  NoCompletion \cup Parsed(Priced) \cup
  {NoAnswer("MODEL_CONTENT_POLICY_BLOCKED"),
   Discarded("MODEL_CONTENT_POLICY_BLOCKED"),
   Discarded("MODEL_SCHEMA_PARSE_FAILED")}

\* Transcription over HTTP costs nothing.  The body is parsed before it is
\* stored, and one without speech is an error that does not refer to it.
FunAsr ==
  NoCompletion \cup {Succeeds(TRUE), Discarded("MODEL_SCHEMA_PARSE_FAILED")}

\* Local models: what the runtime raises passes through.
LocalQwen == Parsed(TRUE) \cup {NoAnswer("ESCAPES")}
Whisper   == {Succeeds(TRUE), NoAnswer("ESCAPES"), Discarded("ESCAPES")}

\* The horizontal extent of a row, clamped to the picture and at least one
\* pixel wide; OcrBox refuses one that leaves the picture.
BoxFrom(r)  == Max({0, r.from})
BoxWidth(r) == Max({1, Min({Width, r.to}) - BoxFrom(r)})
Boxed(r)    == BoxFrom(r) <= Width /\ BoxFrom(r) + BoxWidth(r) <= Width

\* A row is validated before a blank one is left out, and the raw rows are
\* stored after the last.
RapidOcr ==
  {IF \E r \in R : r.blank \/ ~Boxed(r) THEN Discarded("ESCAPES")
   ELSE Succeeds(TRUE) : R \in SUBSET Rows}

\* The scenarios of the fake; a fixture stands for the raw response only
\* when it succeeds.
Fake ==
  {Succeeds(TRUE)} \cup
  {NoAnswer(c) : c \in Retryable \cup
    {"MODEL_SCHEMA_PARSE_FAILED", "MODEL_SEMANTIC_VALIDATION_FAILED",
     "MODEL_CAPABILITY_UNAVAILABLE"}}

ResultsOf(a) ==
  CASE a = "openai"   -> OpenAi
    [] a = "funasr"   -> FunAsr
    [] a = "qwen"     -> LocalQwen
    [] a = "whisper"  -> Whisper
    [] a = "rapidocr" -> RapidOcr
    [] a = "fake"     -> Fake

Results == UNION {ResultsOf(a) : a \in Adapters}

=============================================================================
