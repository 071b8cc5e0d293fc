------------------------------ MODULE AIClient ------------------------------
(***************************************************************************)
(* One call of aiClient.Complete or ListModels (cmd/aiclient.go): the      *)
(* request built for the provider and the kind of model, the attempts of   *)
(* doWithRetry, and the answer, whole or as a stream of server-sent        *)
(* events, each with its provider's parser.  The caller may cancel at any  *)
(* moment, the call has a deadline, and the server may do anything,        *)
(* nothing included.                                                       *)
(*                                                                         *)
(* The n-th piece of the answer is the number n.                           *)
(***************************************************************************)
EXTENDS Integers, Sequences, TLC

CONSTANTS
    MaxRetryAttempts,  \* maxRetryAttempts
    MaxPieces          \* bound: pieces of an answer

ASSUME AIClientAssumption ==
    /\ MaxRetryAttempts \in Nat \ {0}
    /\ MaxPieces \in Nat \ {0}

Providers == {"anthropic", "openai", "gemini"}
Efforts == {"low", "medium", "high"}

(* What tells models apart in addGenerationConfig and its siblings.         *)
OpenaiFamilies == {"deepseek-v4", "reasoning", "xai or mistral", "plain"}
Families(p) == IF p = "openai" THEN OpenaiFamilies ELSE {"effort", "plain"}

VARIABLES
    method,     \* "complete" or "list"
    provider, family, effort,
    streaming,  \* onToken is not nil
    pc,         \* "attempt", "backoff", "reading", "done"
    attempts,   \* attempts begun
    lastErr,    \* doWithRetry's lastErr
    ctx,        \* "live", "canceled", "expired"
    begun,      \* whether ctx was live when the attempt under way began
    sent,       \* pieces of text the server has sent
    events,     \* pieces it has sent, of whatever kind
    broken,     \* the kinds of error events the server has sent
    text,       \* the answer so far
    shown,      \* what onToken was called with
    reasoned,   \* a reasoning model has reasoned
    outcome     \* what Complete returns: "text", or the error's kind

vars == <<method, provider, family, effort, streaming, pc, attempts, lastErr, ctx, begun, sent, events,
          broken, text, shown, reasoned, outcome>>

request == <<method, provider, family, effort, streaming>>
answer == <<sent, events, broken, text, shown, reasoned>>

Init ==
    /\ provider \in Providers
    /\ family \in Families(provider)
    /\ effort \in Efforts
    /\ streaming \in BOOLEAN
    /\ method \in {"complete"} \cup (IF streaming THEN {} ELSE {"list"})
    /\ pc = "attempt"
    /\ attempts = 1
    /\ lastErr = "none"
    /\ ctx = "live"
    /\ begun = TRUE
    /\ sent = <<>>
    /\ events = 0
    /\ broken = {}
    /\ text = <<>>
    /\ shown = <<>>
    /\ reasoned = FALSE
    /\ outcome = "none"

----------------------------------------------------------------------------
(* The request. *)

Temperature == [low |-> 0, medium |-> 30, high |-> 70]  \* in hundredths

(* What goes into the body: under which key the token limit, and how the    *)
(* effort is expressed.                                                     *)
AnthropicBody(f, e) ==
    [tokens |-> "max_tokens"]
        @@ IF f = "effort" THEN [knob |-> "output_config", value |-> e]
                           ELSE [knob |-> "temperature", value |-> Temperature[e]]

GeminiBody(f, e) ==
    [tokens |-> "maxOutputTokens"]
        @@ IF f = "effort" THEN [knob |-> "thinkingLevel", value |-> e]
                           ELSE [knob |-> "temperature", value |-> Temperature[e]]

(* Mutant: reasoning models get the key all others have. *)
GenerationConfigPlain(f, e) ==
    [tokens |-> "max_tokens"]
        @@ IF f = "plain" THEN [knob |-> "temperature", value |-> Temperature[e]]
                          ELSE [knob |-> "reasoning_effort", value |-> e]

GenerationConfig(f, e) ==
    CASE f = "deepseek-v4" ->
            [tokens |-> "max_tokens", knob |-> IF e = "low" THEN "no thinking" ELSE "reasoning_effort",
             value |-> CASE e = "low" -> "" [] e = "medium" -> "high" [] OTHER -> "max"]
      [] f = "reasoning" ->
            [tokens |-> "max_completion_tokens", knob |-> "reasoning_effort", value |-> e]
      [] f = "xai or mistral" ->
            [tokens |-> "max_tokens", knob |-> "reasoning_effort", value |-> e]
      [] OTHER -> [tokens |-> "max_tokens", knob |-> "temperature", value |-> Temperature[e]]

Body ==
    CASE provider = "anthropic" -> AnthropicBody(family, effort)
      [] provider = "gemini"    -> GeminiBody(family, effort)
      [] OTHER                  -> GenerationConfig(family, effort)

(* "These reject the standard chat-completion request shape with HTTP 400"  *)
(* (reasoningModelPrefixes).                                                *)
Rejected ==
    /\ method = "complete" /\ family = "reasoning"
    /\ Body.tokens # "max_completion_tokens" \/ Body.knob = "temperature"

----------------------------------------------------------------------------
(* The attempts. *)

Return(o) == pc' = "done" /\ outcome' = o

(* doWithRetry returns the last retryable error, if there was one, whatever *)
(* has ended the retries.                                                   *)
FailWith(err) == Return(IF lastErr = "none" THEN err ELSE lastErr)

Accepted ==
    /\ method = "complete" /\ pc = "attempt" /\ begun /\ ~Rejected
    /\ pc' = "reading"
    /\ UNCHANGED <<request, attempts, lastErr, ctx, begun, answer, outcome>>

(* A transport error, 429 or 5xx. *)
Transient ==
    /\ method = "complete" /\ pc = "attempt" /\ begun
    /\ lastErr' = "transient"
    /\ IF attempts < MaxRetryAttempts
       THEN pc' = "backoff" /\ UNCHANGED outcome
       ELSE Return("transient")
    /\ UNCHANGED <<request, attempts, ctx, begun, answer>>

(* Another 4xx. *)
Permanent ==
    /\ method = "complete" /\ pc = "attempt" /\ begun
    /\ FailWith("permanent")
    /\ UNCHANGED <<request, attempts, lastErr, ctx, begun, answer>>

(* Mutant: the end of the context is retried as a transport error. *)
AttemptEndedRetried ==
    /\ pc = "attempt" /\ ctx # "live"
    /\ lastErr' = ctx
    /\ pc' = "backoff"
    /\ UNCHANGED <<request, attempts, ctx, begun, answer, outcome>>

(* shouldRetry: the end of the context is not retried. *)
AttemptEnded ==
    /\ pc = "attempt" /\ ctx # "live"
    /\ FailWith(ctx)
    /\ UNCHANGED <<request, attempts, lastErr, ctx, begun, answer>>

(* The wait's timer may win over a context that has ended. *)
TryAgain ==
    /\ pc = "backoff"
    /\ pc' = "attempt"
    /\ attempts' = attempts + 1
    /\ begun' = (ctx = "live")
    /\ UNCHANGED <<request, lastErr, ctx, answer, outcome>>

(* A list of models is asked for once, and whatever goes wrong is its error. *)
Listed ==
    /\ method = "list" /\ pc = "attempt" /\ begun
    /\ \E o \in {"models", "list error"} : Return(o)
    /\ UNCHANGED <<request, attempts, lastErr, ctx, begun, answer>>

BackoffEnded ==
    /\ pc = "backoff" /\ ctx # "live"
    /\ FailWith(ctx)
    /\ UNCHANGED <<request, attempts, lastErr, ctx, begun, answer>>

----------------------------------------------------------------------------
(* The answer.  A piece is text, reasoning, reasoning with text after it,   *)
(* text in a part after the first, or what the parser skips.  One that is   *)
(* not a stream has several only with anthropic, as content blocks.         *)

(* Mutant: of a piece that has both, only the reasoning is taken. *)
OpenaiTextAlone(piece) == piece = "text"

(* Every text delta or block; the first choice; the first part. *)
AnthropicText(piece) == piece \in {"text", "second"}
OpenaiText(piece) == piece \in {"text", "both"}
OpenaiReasoning(piece) == piece \in {"reasoning", "both"}
GeminiText(piece) == piece = "text"

Pieces ==
    {"text", "noise"} \cup (IF provider = "openai" THEN {"reasoning", "both"} ELSE {"second"})

KindsOf(piece) ==
    {k \in {"text"} : CASE provider = "anthropic" -> AnthropicText(piece)
                         [] provider = "gemini"    -> GeminiText(piece)
                         [] OTHER                  -> OpenaiText(piece)}
        \cup {k \in {"reasoning"} : provider = "openai" /\ OpenaiReasoning(piece)}

Showing(kinds, n) ==
    (IF "reasoning" \in kinds THEN <<<<"reasoning", n>>>> ELSE <<>>)
        \o (IF "text" \in kinds THEN <<<<"text", n>>>> ELSE <<>>)

Receive(piece) ==
    /\ pc = "reading"
    /\ events < IF streaming \/ provider = "anthropic" THEN MaxPieces ELSE 1
    /\ events' = events + 1
    /\ text' = IF "text" \in KindsOf(piece) THEN Append(text, events') ELSE text
    /\ shown' = IF streaming THEN shown \o Showing(KindsOf(piece), events') ELSE shown
    /\ reasoned' = (reasoned \/ "reasoning" \in KindsOf(piece))
    /\ sent' = IF piece \in {"text", "both"} THEN Append(sent, events') ELSE sent
    /\ UNCHANGED <<request, pc, attempts, lastErr, ctx, begun, broken, outcome>>

(* An error event brings a message, none, or data that does not unmarshal.  *)
(* All parsers skip the last; openai's and gemini's go by the message.      *)
ErrorKinds == {"message", "bare", "garbled"}

(* Mutant: only the first of the parsers looks at errors. *)
ErrorHeededOnce(kind) == provider = "anthropic" /\ kind # "garbled"

ErrorHeeded(kind) == IF provider = "anthropic" THEN kind # "garbled" ELSE kind = "message"

(* One that is heeded ends the stream, whatever it has brought; after any   *)
(* other the stream goes on.                                                *)
ErrorEvent(kind) ==
    /\ pc = "reading" /\ streaming
    /\ broken' = broken \cup {kind}
    /\ IF ErrorHeeded(kind) THEN Return("stream error") ELSE UNCHANGED <<pc, outcome>>
    /\ UNCHANGED <<request, attempts, lastErr, ctx, begun, sent, events, text, shown, reasoned>>

(* The parsers at the end of the body.  Of an answer that is not a stream,  *)
(* openai and gemini let an empty text pass.                                *)
AnthropicEnds == IF text = <<>> THEN "empty" ELSE "text"

OpenaiEnds ==
    CASE text # <<>> -> "text"
      [] text = <<>> /\ reasoned -> "only reasoning"
      [] OTHER -> IF streaming \/ events = 0 THEN "empty" ELSE "text"

GeminiEnds == IF text # <<>> \/ (~streaming /\ events > 0) THEN "text" ELSE "empty"

Completed ==
    CASE provider = "anthropic" -> AnthropicEnds
      [] provider = "gemini"    -> GeminiEnds
      [] OTHER                  -> OpenaiEnds

(* "[DONE]" or the end of the body. *)
EndOfBody ==
    /\ pc = "reading"
    /\ Return(Completed)
    /\ UNCHANGED <<request, attempts, lastErr, ctx, begun, answer>>

(* Mutant: the body is read without the context. *)
ReadFailsAlone ==
    /\ pc = "reading" /\ ctx = "live"
    /\ Return("read")
    /\ UNCHANGED <<request, attempts, lastErr, ctx, begun, answer>>

(* The connection breaks or the context ends: the scanner's error. *)
ReadFails ==
    /\ pc = "reading"
    /\ Return(IF ctx = "live" THEN "read" ELSE ctx)
    /\ UNCHANGED <<request, attempts, lastErr, ctx, begun, answer>>

----------------------------------------------------------------------------
(* The context. *)

Cancel ==
    /\ ctx = "live" /\ pc # "done"
    /\ ctx' = "canceled"
    /\ UNCHANGED <<request, pc, attempts, lastErr, begun, answer, outcome>>

Expire ==
    /\ ctx = "live" /\ pc # "done"
    /\ ctx' = "expired"
    /\ UNCHANGED <<request, pc, attempts, lastErr, begun, answer, outcome>>

Returned == pc = "done" /\ UNCHANGED vars

CtxEnds == AttemptEnded \/ BackoffEnded \/ (ctx # "live" /\ ReadFails)

Next ==
    \/ Accepted \/ Transient \/ Permanent \/ AttemptEnded \/ TryAgain \/ BackoffEnded
    \/ Listed
    \/ \E piece \in Pieces : Receive(piece)
    \/ \E kind \in ErrorKinds : ErrorEvent(kind)
    \/ EndOfBody \/ ReadFails \/ Cancel \/ Expire \/ Returned

Spec == Init /\ [][Next]_vars

(* The deadline comes, and what waits under a context that has ended wakes. *)
FairSpec == Spec /\ WF_vars(Expire) /\ WF_vars(CtxEnds)

----------------------------------------------------------------------------
(* t is the text in what was shown, s, in its order.                        *)
IsTextOf(t, s) ==
    LET said == {k \in DOMAIN s : s[k][1] = "text"}
    IN  \E at \in [DOMAIN t -> said] :
            /\ \A k \in said : \E i \in DOMAIN t : at[i] = k
            /\ \A i, j \in DOMAIN t : i < j => at[i] < at[j]
            /\ \A i \in DOMAIN t : t[i] = s[at[i]][2]

(* The type of every variable. *)
TypeOK ==
    /\ method \in {"complete", "list"}
    /\ provider \in Providers /\ family \in Families(provider) /\ effort \in Efforts
    /\ streaming \in BOOLEAN
    /\ pc \in {"attempt", "backoff", "reading", "done"}
    /\ attempts \in 1..MaxRetryAttempts
    /\ lastErr \in {"none", "transient"}
    /\ ctx \in {"live", "canceled", "expired"}
    /\ {begun, reasoned} \subseteq BOOLEAN /\ broken \subseteq ErrorKinds
    /\ events \in 0..MaxPieces
    /\ {sent, text} \subseteq Seq(1..MaxPieces)
    /\ shown \in Seq({"text", "reasoning"} \X (1..MaxPieces))
    /\ pc = "done" <=> outcome # "none"

(* What Complete returns is what the user has seen stream in, less the      *)
(* reasoning, in the order it came, and nothing the server sent in the      *)
(* first choice or part is missing.  It is returned as an answer only when  *)
(* the stream brought no error with a message, and from anthropic none at   *)
(* all that could be read.                                                  *)
AnswerIsShown ==
    outcome = "text" =>
        /\ "message" \notin broken
        /\ provider = "anthropic" => "bare" \notin broken
        /\ streaming => IsTextOf(text, shown)
        /\ \A i \in DOMAIN sent : \E k \in DOMAIN text : text[k] = sent[i]

(* "Only 429 and 5xx status codes (and transient transport errors) are      *)
(* retried" (doWithRetry), at most MaxRetryAttempts in all, never after the *)
(* context is known to have ended, and no kind of model is refused for the  *)
(* shape of the request: each call that fails has failed for another reason.*)
RetriesOnlyTransient ==
    /\ TypeOK
    /\ attempts > 1 => lastErr = "transient"
    /\ outcome = "permanent" => attempts = 1
    /\ ~Rejected

=============================================================================
