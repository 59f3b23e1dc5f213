----------------------------- MODULE LlmClient -----------------------------
(***************************************************************************)
(* OpenAICompatibleLLMClient.invoke_json (services/llm.py): one request    *)
(* that generates and up to MaxJsonRepairs that ask for the same answer as *)
(* valid JSON. A request is streamed where the settings allow it, and sent *)
(* once more without a stream when the provider rejects a structured one.  *)
(* What the provider answers is an input; a stream that ends early is      *)
(* taken for a complete answer, so it is valid or invalid like any other.  *)
(***************************************************************************)
EXTENDS Naturals

CONSTANTS
  StreamChat, StreamStructured,  \* llm_stream_chat, llm_stream_structured
  JsonFormat,                    \* json_response_format_enabled
  PlainOnRetry,                  \* json_repair_plain_on_retry
  MaxJsonRepairs                 \* json_repair_max_attempts

ASSUME ClientAssumption ==
  /\ {StreamChat, StreamStructured, JsonFormat, PlainOnRetry} \subseteq BOOLEAN
  /\ MaxJsonRepairs \in Nat

\* What a request ends in: JSON the schema accepts; anything else as text; a refusal of the
\* format; any other error, a time-out among them.
Answers == {"valid", "invalid", "unsupported", "fails"}

\* _extract_json_payload: the object is the text, or in a fence, or among other words.
Reading(form, accepted) == IF form \in {"bare", "fenced", "embedded"} /\ accepted THEN "valid" ELSE "invalid"
Readings == {Reading(form, accepted) : form \in {"bare", "fenced", "embedded", "prose"}, accepted \in BOOLEAN}

\* raise_for_status, and the errors that have no status of their own (504 for a time-out).
Status(code) == IF code \in {400, 405, 415, 422} THEN "unsupported" ELSE "fails"
Errors == {Status(code) : code \in {400, 401, 405, 415, 422, 429, 500, 504}}

\* A plain request answers at once. A stream also ends with an event that reports an error,
\* status 502, or breaks off: what came before [DONE] or the end is the text.
PlainAnswers == Readings \cup Errors
StreamAnswers == PlainAnswers \cup {Status(502)}
AnswersOf(call) == IF call.at = "stream" THEN StreamAnswers ELSE PlainAnswers

\* Round 0 generates, round n > 0 is the n-th repair.
Structured(round) == JsonFormat /\ ~(PlainOnRetry /\ round > 1)
Streams(round) == StreamChat /\ (Structured(round) => StreamStructured)

Call(at, round) == [at |-> at, round |-> round]
Idle == Call("idle", 0)
Returned == Call("returned", 0)
Raised == Call("raised", 0)
Asked(round) == Call(IF Streams(round) THEN "stream" ELSE "plain", round)
Invoked == Asked(0)

UnderWay(call) == call.at \in {"stream", "plain"}
Ended(call) == call \in {Returned, Raised}
Calls == {Idle, Returned, Raised} \cup {Call(at, round) : at \in {"stream", "plain"}, round \in 0..MaxJsonRepairs}

\* A refused structured stream is repeated without the stream, and in the same round.
Refused(call) ==
  IF call.at = "stream" /\ Structured(call.round) THEN Call("plain", call.round) ELSE Raised

\* Mutant: one repair more.
RetriedOnceMore(call) == IF call.round <= MaxJsonRepairs THEN Asked(call.round + 1) ELSE Raised
Retried(call) == IF call.round < MaxJsonRepairs THEN Asked(call.round + 1) ELSE Raised

After(call, answer) ==
  CASE answer = "valid" -> Returned
    [] answer = "invalid" -> Retried(call)
    [] answer = "unsupported" -> Refused(call)
    [] answer = "fails" -> Raised
=============================================================================
