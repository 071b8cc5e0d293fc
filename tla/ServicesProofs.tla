--------------------------- MODULE ServicesProofs ---------------------------
(***************************************************************************)
(* Safety of the AI client, the topic adapters, the MCP server and the     *)
(* management commands, for any number of retries, pieces, topics, groups, *)
(* messages, calls, sessions, commands, faults and requests.  Each stands  *)
(* alone; they are together here because MCServices has them together.     *)
(***************************************************************************)
EXTENDS MCServices, SequenceTheorems, FiniteSetTheorems, TLAPS

----------------------------------------------------------------------------
(* The AI client.                                                           *)
(*                                                                          *)
(* That a call is only retried after a transient failure rests on what      *)
(* lastErr is when an attempt fails: once one has been retried it says so,  *)
(* and FailWith returns it whatever comes later.  The answer rests on the   *)
(* text and what was shown growing together.                                *)

RetryInv ==
    /\ attempts > 1 => lastErr = "transient"
    /\ pc = "backoff" => lastErr = "transient" /\ attempts < MaxRetryAttempts
    /\ outcome = "permanent" => attempts = 1

(* The stream has brought an error that its parser heeds. *)
Heard == \E kind \in broken : ErrorHeeded(kind)

AnswerInv ==
    /\ Heard => outcome = "stream error"
    /\ streaming => IsTextOf(text, shown)
    /\ \A i \in DOMAIN sent : \E k \in DOMAIN text : text[k] = sent[i]

ClientInv == TypeOK /\ RetryInv /\ AnswerInv

(* The type invariant, one conjunct per group of variables, and none in a   *)
(* set of sets.                                                             *)
RequestOK ==
    /\ method \in {"complete", "list"}
    /\ provider \in Providers /\ family \in Families(provider) /\ effort \in Efforts
    /\ streaming \in BOOLEAN

AttemptOK ==
    /\ pc \in {"attempt", "backoff", "reading", "done"}
    /\ attempts \in 1..MaxRetryAttempts
    /\ lastErr \in {"none", "transient"}
    /\ ctx \in {"live", "canceled", "expired"}
    /\ begun \in BOOLEAN
    /\ pc = "done" <=> outcome # "none"

BodyOK ==
    /\ broken \subseteq ErrorKinds /\ reasoned \in BOOLEAN
    /\ events \in 0..MaxPieces
    /\ sent \in Seq(1..MaxPieces) /\ text \in Seq(1..MaxPieces)
    /\ shown \in Seq({"text", "reasoning"} \X (1..MaxPieces))

(* The three groups are the type invariant. *)
LEMMA TypeGroups == TypeOK <=> RequestOK /\ AttemptOK /\ BodyOK
  BY DEF TypeOK, RequestOK, AttemptOK, BodyOK

(* No request is built that reasoning models refuse. *)
LEMMA NeverRejected == ASSUME RequestOK PROVE ~Rejected
<1> SUFFICES ASSUME family = "reasoning"
             PROVE  Body.tokens = "max_completion_tokens" /\ Body.knob # "temperature"
  BY DEF Rejected
<1>1. provider = "openai"
  BY DEF RequestOK, Providers, Families
<1>2. Body = GenerationConfig("reasoning", effort)
  BY <1>1 DEF Body
<1>3. GenerationConfig("reasoning", effort)
        = [tokens |-> "max_completion_tokens", knob |-> "reasoning_effort", value |-> effort]
  BY DEF GenerationConfig
<1>4. QED
  BY <1>2, <1>3

(* The initial states satisfy the invariant. *)
LEMMA ClientInit == Init => ClientInv
<1> SUFFICES ASSUME Init PROVE ClientInv
  OBVIOUS
<1> USE AIClientAssumption
<1>1. << >> \in Seq(1..MaxPieces) /\ << >> \in Seq({"text", "reasoning"} \X (1..MaxPieces))
  OBVIOUS
<1>2. RequestOK /\ AttemptOK
  BY DEF Init, RequestOK, AttemptOK
<1>3. BodyOK
  <2>1. /\ events = 0 /\ broken \subseteq ErrorKinds /\ reasoned \in BOOLEAN
        /\ sent = << >> /\ text = << >> /\ shown = << >>
    BY DEF Init
  <2>2. events \in 0..MaxPieces
    BY <2>1
  <2>3. QED
    BY <1>1, <2>1, <2>2 DEF BodyOK
<1>4. IsTextOf(<< >>, << >>)
  <2>1. DOMAIN << >> = {}
    OBVIOUS
  <2>2. << >> \in [{} -> {}]
    OBVIOUS
  <2>3. QED
    BY <2>1, <2>2 DEF IsTextOf
<1>5. RetryInv /\ AnswerInv
  BY <1>4 DEF Init, RetryInv, AnswerInv, Heard
<1>6. QED
  BY <1>2, <1>3, <1>5, TypeGroups DEF ClientInv

(* What a step leaves of the invariant when it receives nothing: the step   *)
(* has to account for the attempts, and for an error event.                 *)
LEMMA NothingReceived ==
    ASSUME ClientInv, UNCHANGED <<request, sent, events, text, shown, reasoned>>,
           AttemptOK', RetryInv', broken' \subseteq ErrorKinds, Heard' => outcome' = "stream error"
    PROVE  ClientInv'
<1>1. RequestOK' /\ BodyOK'
  BY TypeGroups DEF ClientInv, RequestOK, BodyOK, request
<1>2. AnswerInv'
  <2>1. streaming' = streaming /\ sent' = sent /\ text' = text /\ shown' = shown
    BY DEF request
  <2>2. QED
    BY <2>1 DEF ClientInv, AnswerInv
<1>3. TypeOK'
  BY <1>1, TypeGroups DEF TypeOK, RequestOK, AttemptOK, BodyOK
<1>4. QED
  BY <1>2, <1>3 DEF ClientInv

(* An error that is heeded is the end: while the call goes on there has     *)
(* been none.                                                               *)
LEMMA NotBroken == ASSUME ClientInv, pc # "done" PROVE ~Heard /\ outcome = "none"
  BY TypeGroups DEF ClientInv, AnswerInv, AttemptOK

(* What FailWith returns is no success: the last retryable error or the one *)
(* at hand, and "permanent" only when nothing had been retried.             *)
LEMMA FailsWith ==
    ASSUME NEW err, FailWith(err), AttemptOK, RetryInv, err # "none", attempts' = attempts,
           lastErr' = lastErr
    PROVE  pc' = "done" /\ outcome' # "none" /\ (outcome' = "permanent" => attempts' = 1)
  BY DEF FailWith, Return, AttemptOK, RetryInv

(* The attempts: every step of doWithRetry. *)
LEMMA RetryStep ==
    ASSUME ClientInv, Accepted \/ Transient \/ Permanent \/ AttemptEnded \/ TryAgain
                      \/ BackoffEnded \/ Listed
    PROVE  ClientInv'
<1> USE AIClientAssumption
<1>1. AttemptOK /\ RetryInv /\ BodyOK /\ pc # "done" /\ ~Heard /\ outcome = "none"
  <2>1. pc # "done"
    BY DEF Accepted, Transient, Permanent, AttemptEnded, TryAgain, BackoffEnded, Listed
  <2>2. QED
    BY <2>1, NotBroken, TypeGroups DEF ClientInv
<1>2. UNCHANGED <<request, sent, events, text, shown, reasoned>> /\ broken' = broken
  BY DEF Accepted, Transient, Permanent, AttemptEnded, TryAgain, BackoffEnded, Listed, answer
<1>3. AttemptOK' /\ RetryInv'
  <2>1. CASE Accepted
    BY <1>1, <2>1 DEF Accepted, AttemptOK, RetryInv
  <2>2. CASE Transient
    BY <1>1, <2>2 DEF Transient, Return, AttemptOK, RetryInv
  <2>3. CASE Permanent
    BY <1>1, <2>3, FailsWith DEF Permanent, AttemptOK, RetryInv
  <2>4. CASE AttemptEnded
    BY <1>1, <2>4, FailsWith DEF AttemptEnded, AttemptOK, RetryInv
  <2>5. CASE TryAgain
    <3>1. begun' \in BOOLEAN /\ attempts' \in 1..MaxRetryAttempts
      BY <1>1, <2>5 DEF TryAgain, AttemptOK, RetryInv
    <3>2. QED
      BY <1>1, <2>5, <3>1 DEF TryAgain, AttemptOK, RetryInv
  <2>6. CASE BackoffEnded
    BY <1>1, <2>6, FailsWith DEF BackoffEnded, AttemptOK, RetryInv
  <2>7. CASE Listed
    BY <1>1, <2>7 DEF Listed, Return, AttemptOK, RetryInv
  <2>8. QED
    BY <2>1, <2>2, <2>3, <2>4, <2>5, <2>6, <2>7
<1>4. QED
  <2>1. ~Heard'
    BY <1>1, <1>2 DEF Heard, ErrorHeeded, request
  <2>2. QED
    BY <1>1, <1>2, <1>3, <2>1, NothingReceived DEF BodyOK

(* The end of the answer and the end of the context. *)
LEMMA EndStep ==
    ASSUME ClientInv,
           (\E kind \in ErrorKinds : ErrorEvent(kind)) \/ EndOfBody \/ ReadFails \/ Cancel \/ Expire
    PROVE  ClientInv'
<1>1. AttemptOK /\ RetryInv /\ BodyOK /\ pc # "done" /\ ~Heard /\ outcome = "none"
  <2>1. pc # "done"
    BY DEF ErrorEvent, EndOfBody, ReadFails, Cancel, Expire
  <2>2. QED
    BY <2>1, NotBroken, TypeGroups DEF ClientInv
<1>2. UNCHANGED <<request, sent, events, text, shown, reasoned, attempts, lastErr, begun>>
  BY DEF ErrorEvent, EndOfBody, ReadFails, Cancel, Expire, answer
<1>3. /\ AttemptOK' /\ RetryInv' /\ broken' \subseteq ErrorKinds
      /\ Heard' => outcome' = "stream error"
  <2>0. provider' = provider /\ \A kind : ErrorHeeded(kind)' <=> ErrorHeeded(kind)
    BY <1>2 DEF request, ErrorHeeded
  <2>1. ASSUME NEW kind \in ErrorKinds, ErrorEvent(kind)
        PROVE  /\ AttemptOK' /\ RetryInv' /\ broken' \subseteq ErrorKinds
               /\ Heard' => outcome' = "stream error"
    <3>1. broken' = broken \cup {kind} /\ broken' \subseteq ErrorKinds
      BY <1>1, <2>1 DEF ErrorEvent, BodyOK
    <3>2. Heard' => ErrorHeeded(kind)
      BY <1>1, <2>0, <3>1 DEF Heard
    <3>3. CASE ErrorHeeded(kind)
      BY <1>1, <1>2, <2>1, <3>1, <3>3 DEF ErrorEvent, Return, AttemptOK, RetryInv
    <3>4. CASE ~ErrorHeeded(kind)
      BY <1>1, <1>2, <2>1, <3>1, <3>2, <3>4 DEF ErrorEvent, AttemptOK, RetryInv
    <3>5. QED
      BY <3>3, <3>4
  <2>2. CASE EndOfBody
    <3>1. Completed \notin {"none", "permanent"}
      BY DEF Completed, AnthropicEnds, OpenaiEnds, GeminiEnds
    <3>2. QED
      BY <1>1, <1>2, <2>2, <3>1 DEF EndOfBody, Return, AttemptOK, RetryInv, BodyOK, answer, Heard, ErrorHeeded, request
  <2>3. CASE ReadFails
    BY <1>1, <1>2, <2>3 DEF ReadFails, Return, AttemptOK, RetryInv, BodyOK, answer, Heard, ErrorHeeded, request
  <2>4. CASE Cancel \/ Expire
    <3>1. broken' = broken /\ outcome' = outcome /\ pc' = pc /\ ctx' \in {"canceled", "expired"}
      BY <2>4 DEF Cancel, Expire, answer
    <3>2. QED
      BY <1>1, <1>2, <3>1 DEF AttemptOK, RetryInv, BodyOK, Heard, ErrorHeeded, request
  <2>5. QED
    BY <2>1, <2>2, <2>3, <2>4 DEF ErrorEvent, EndOfBody, ReadFails, Cancel, Expire
<1>4. QED
  BY <1>2, <1>3, NothingReceived

(* What is shown grows by reasoning, and the text stays what it was. *)
LEMMA ReasoningShown ==
    ASSUME NEW N, NEW t \in Seq(N), NEW s \in Seq({"text", "reasoning"} \X N), NEW n \in N,
           IsTextOf(t, s)
    PROVE  IsTextOf(t, Append(s, <<"reasoning", n>>))
<1> DEFINE r == Append(s, <<"reasoning", n>>)
           Said(q) == {k \in DOMAIN q : q[k][1] = "text"}
<1>1. /\ DOMAIN s = 1..Len(s) /\ DOMAIN r = 1..(Len(s) + 1) /\ Len(s) \in Nat
      /\ r[Len(s) + 1] = <<"reasoning", n>> /\ \A k \in DOMAIN s : r[k] = s[k]
  OBVIOUS
<1>2. Said(r) = Said(s)
  BY <1>1
<1>3. \A k \in Said(s) : r[k] = s[k]
  BY <1>1
<1>4. IsTextOf(t, s) <=> \E at \in [DOMAIN t -> Said(s)] :
            /\ \A k \in Said(s) : \E i \in DOMAIN t : at[i] = k
            /\ \A i, j \in DOMAIN t : i < j => at[i] < at[j]
            /\ \A i \in DOMAIN t : t[i] = s[at[i]][2]
  BY DEF IsTextOf
<1>5. IsTextOf(t, r) <=> \E at \in [DOMAIN t -> Said(r)] :
            /\ \A k \in Said(r) : \E i \in DOMAIN t : at[i] = k
            /\ \A i, j \in DOMAIN t : i < j => at[i] < at[j]
            /\ \A i \in DOMAIN t : t[i] = r[at[i]][2]
  BY DEF IsTextOf
<1> HIDE DEF r, Said
<1>6. IsTextOf(t, r)
  <2>1. PICK at \in [DOMAIN t -> Said(s)] :
            /\ \A k \in Said(s) : \E i \in DOMAIN t : at[i] = k
            /\ \A i, j \in DOMAIN t : i < j => at[i] < at[j]
            /\ \A i \in DOMAIN t : t[i] = s[at[i]][2]
    BY <1>4
  <2>2. \A i \in DOMAIN t : at[i] \in Said(s) /\ t[i] = r[at[i]][2]
    BY <1>3, <2>1
  <2>3. QED
    BY <1>2, <1>5, <2>1, <2>2
<1>7. QED
  BY <1>6 DEF r

(* A piece of text is shown and joins the answer. *)
LEMMA TextShown ==
    ASSUME NEW N, NEW t \in Seq(N), NEW s \in Seq({"text", "reasoning"} \X N), NEW n \in N,
           IsTextOf(t, s)
    PROVE  IsTextOf(Append(t, n), Append(s, <<"text", n>>))
<1> DEFINE r == Append(s, <<"text", n>>)
           u == Append(t, n)
           Said(q) == {k \in DOMAIN q : q[k][1] = "text"}
           m == Len(s) + 1
           l == Len(t) + 1
<1>1. /\ DOMAIN s = 1..Len(s) /\ DOMAIN r = 1..m /\ Len(s) \in Nat
      /\ r[m] = <<"text", n>> /\ \A k \in DOMAIN s : r[k] = s[k]
      /\ DOMAIN t = 1..Len(t) /\ DOMAIN u = 1..l /\ Len(t) \in Nat
      /\ u[l] = n /\ \A k \in DOMAIN t : u[k] = t[k]
  OBVIOUS
<1>2. Said(r) = Said(s) \cup {m} /\ Said(s) \subseteq 1..Len(s)
  BY <1>1
<1>3. PICK at \in [DOMAIN t -> Said(s)] :
            /\ \A k \in Said(s) : \E i \in DOMAIN t : at[i] = k
            /\ \A i, j \in DOMAIN t : i < j => at[i] < at[j]
            /\ \A i \in DOMAIN t : t[i] = s[at[i]][2]
  BY DEF IsTextOf
<1> DEFINE new == [i \in DOMAIN u |-> IF i = l THEN m ELSE at[i]]
<1>4. IsTextOf(u, r) <=> \E f \in [DOMAIN u -> Said(r)] :
            /\ \A k \in Said(r) : \E i \in DOMAIN u : f[i] = k
            /\ \A i, j \in DOMAIN u : i < j => f[i] < f[j]
            /\ \A i \in DOMAIN u : u[i] = r[f[i]][2]
  BY DEF IsTextOf
<1>5. /\ DOMAIN u = DOMAIN t \cup {l} /\ l \notin DOMAIN t
      /\ \A i \in DOMAIN t : new[i] = at[i] /\ new[i] \in Said(s) /\ i < l
      /\ new[l] = m /\ DOMAIN new = DOMAIN u
  BY <1>1
<1> HIDE DEF r, u, Said, new
<1>6. new \in [DOMAIN u -> Said(r)]
  BY <1>2, <1>5 DEF new
<1>7. \A k \in Said(r) : \E i \in DOMAIN u : new[i] = k
  BY <1>2, <1>3, <1>5
<1>8. \A i, j \in DOMAIN u : i < j => new[i] < new[j]
  <2> SUFFICES ASSUME NEW i \in DOMAIN u, NEW j \in DOMAIN u, i < j PROVE new[i] < new[j]
    OBVIOUS
  <2>1. i \in DOMAIN t
    BY <1>1
  <2>2. CASE j = l
    BY <1>1, <1>2, <1>5, <2>1, <2>2
  <2>3. CASE j # l
    BY <1>3, <1>5, <2>1, <2>3
  <2>4. QED
    BY <2>2, <2>3
<1>9. \A i \in DOMAIN u : u[i] = r[new[i]][2]
  <2> SUFFICES ASSUME NEW i \in DOMAIN u PROVE u[i] = r[new[i]][2]
    OBVIOUS
  <2>1. CASE i = l
    BY <1>1, <1>5, <2>1
  <2>2. CASE i # l
    <3>1. i \in DOMAIN t /\ u[i] = t[i] /\ new[i] = at[i] /\ at[i] \in Said(s)
      BY <1>1, <1>5, <2>2
    <3>2. r[at[i]] = s[at[i]]
      BY <1>1, <1>2, <3>1
    <3>3. QED
      BY <1>3, <3>1, <3>2
  <2>3. QED
    BY <2>1, <2>2
<1>10. IsTextOf(u, r)
  BY <1>4, <1>6, <1>7, <1>8, <1>9
<1>11. QED
  BY <1>10 DEF u, r

(* Every piece that brings text of the answer, as the server means it, is   *)
(* taken as text by the provider's parser.                                  *)
LEMMA TextIsTaken ==
    ASSUME RequestOK, NEW piece \in Pieces, piece \in {"text", "both"}
    PROVE  "text" \in KindsOf(piece)
<1>1. piece = "both" => provider = "openai"
  BY DEF Pieces
<1>2. provider \in {"anthropic", "openai", "gemini"}
  BY DEF RequestOK, Providers
<1>3. QED
  BY <1>1, <1>2 DEF KindsOf, AnthropicText, OpenaiText, GeminiText

(* Adding one or two elements at the end of a sequence. *)
LEMMA OneOrTwo ==
    ASSUME NEW A, NEW s \in Seq(A), NEW x \in A, NEW y \in A
    PROVE  /\ s \o (<< >> \o << >>) = s
           /\ s \o (<<x>> \o << >>) = Append(s, x)
           /\ s \o (<< >> \o <<y>>) = Append(s, y)
           /\ s \o (<<x>> \o <<y>>) = Append(Append(s, x), y)
<1>1. <<x>> \in Seq(A) /\ <<y>> \in Seq(A) /\ << >> \in Seq(A)
  OBVIOUS
<1>2. \A t \in Seq(A) : t \o << >> = t /\ << >> \o t = t
  OBVIOUS
<1>3. \A t \in Seq(A), e \in A : Append(t, e) = t \o <<e>> /\ Append(t, e) \in Seq(A)
  OBVIOUS
<1>4. s \o (<<x>> \o <<y>>) = (s \o <<x>>) \o <<y>>
  BY <1>1, ConcatAssociative
<1>5. s \o (<<x>> \o <<y>>) = Append(Append(s, x), y)
  <2>1. Append(s, x) = s \o <<x>> /\ Append(s, x) \in Seq(A)
    BY <1>3
  <2>2. Append(Append(s, x), y) = Append(s, x) \o <<y>>
    BY <1>3, <2>1
  <2>3. QED
    BY <1>4, <2>1, <2>2
<1>6. s \o (<< >> \o << >>) = s
  BY <1>1, <1>2
<1>7. s \o (<<x>> \o << >>) = Append(s, x)
  BY <1>1, <1>2, <1>3
<1>8. s \o (<< >> \o <<y>>) = Append(s, y)
  BY <1>1, <1>2, <1>3
<1>9. QED
  BY <1>5, <1>6, <1>7, <1>8

(* Receiving a piece of any kind. *)
LEMMA ReceiveStep == ASSUME ClientInv, NEW piece \in Pieces, Receive(piece) PROVE ClientInv'
<1> USE AIClientAssumption
<1> DEFINE N == 1..MaxPieces
           kinds == KindsOf(piece)
           n == events + 1
<1>1. /\ RequestOK /\ AttemptOK /\ RetryInv /\ BodyOK /\ AnswerInv
      /\ pc = "reading" /\ ~Heard /\ outcome = "none"
  BY TypeGroups, NotBroken DEF ClientInv, Receive
<1>2. /\ RequestOK' /\ AttemptOK' /\ RetryInv' /\ broken' = broken /\ streaming' = streaming
      /\ Heard' <=> Heard
  BY <1>1 DEF Receive, RequestOK, AttemptOK, RetryInv, request, Heard, ErrorHeeded
<1>3. events' = n /\ n \in N
  BY <1>1 DEF Receive, BodyOK
<1>4. sent \in Seq(N) /\ text \in Seq(N) /\ shown \in Seq({"text", "reasoning"} \X N)
  BY <1>1 DEF BodyOK
<1>5. /\ text' = IF "text" \in kinds THEN Append(text, n) ELSE text
      /\ sent' = IF piece \in {"text", "both"} THEN Append(sent, n) ELSE sent
      /\ shown' = IF streaming THEN shown \o Showing(kinds, n) ELSE shown
  BY <1>3 DEF Receive
<1> HIDE DEF kinds, n, N
<1> DEFINE E == {"text", "reasoning"} \X N
           said == <<"text", n>>
           thought == <<"reasoning", n>>
           mid == IF "reasoning" \in kinds THEN Append(shown, thought) ELSE shown
<1>6. said \in E /\ thought \in E
  BY <1>3
<1>7. mid \in Seq(E)
  BY <1>4, <1>6
<1>8. shown \o Showing(kinds, n) = IF "text" \in kinds THEN Append(mid, said) ELSE mid
  <2> HIDE DEF said, thought, E
  <2>1. Showing(kinds, n) = (IF "reasoning" \in kinds THEN <<thought>> ELSE << >>)
                                \o (IF "text" \in kinds THEN <<said>> ELSE << >>)
    BY DEF Showing, said, thought
  <2>2. QED
    <3>1. /\ shown \o (<< >> \o << >>) = shown
          /\ shown \o (<<thought>> \o << >>) = Append(shown, thought)
          /\ shown \o (<< >> \o <<said>>) = Append(shown, said)
          /\ shown \o (<<thought>> \o <<said>>) = Append(Append(shown, thought), said)
      <4>1. shown \in Seq(E)
        BY <1>4 DEF E
      <4>2. QED
        BY <1>6, <4>1, OneOrTwo
    <3>2. QED
      BY <2>1, <3>1
<1>9. shown' \in Seq(E) /\ text' \in Seq(N) /\ sent' \in Seq(N)
  <2> HIDE DEF mid, said, E
  <2>1. shown \o Showing(kinds, n) \in Seq(E)
    BY <1>6, <1>7, <1>8
  <2>0. shown \in Seq(E)
    BY <1>4 DEF E
  <2>2. text' \in Seq(N) /\ sent' \in Seq(N)
    BY <1>3, <1>4, <1>5
  <2>3. QED
    BY <1>5, <2>0, <2>1, <2>2
<1>10. BodyOK'
  <2>1. broken' \subseteq ErrorKinds /\ reasoned' \in BOOLEAN
    BY <1>1, <1>2 DEF BodyOK, Receive
  <2>2. events' \in 0..MaxPieces
    BY <1>3 DEF N
  <2>3. QED
    BY <1>9, <2>1, <2>2 DEF BodyOK, E, N
<1>11. streaming' => IsTextOf(text', shown')
  <2> SUFFICES ASSUME streaming PROVE IsTextOf(text', shown')
    BY <1>2
  <2>1. IsTextOf(text, shown)
    BY <1>1 DEF AnswerInv
  <2>2. IsTextOf(text, mid)
    <3>1. IsTextOf(text, Append(shown, thought))
      BY <1>3, <1>4, <2>1, ReasoningShown
    <3>2. QED
      BY <2>1, <3>1
  <2>3. IsTextOf(Append(text, n), Append(mid, said))
    <3> HIDE DEF mid
    <3>1. QED
      BY <1>3, <1>4, <1>7, <2>2, TextShown
  <2> HIDE DEF mid, said
  <2>4. shown' = IF "text" \in kinds THEN Append(mid, said) ELSE mid
    BY <1>5, <1>8
  <2>5. QED
    BY <1>5, <2>2, <2>3, <2>4
<1>12. \A i \in DOMAIN sent' : \E k \in DOMAIN text' : text'[k] = sent'[i]
  <2>1. piece \in {"text", "both"} => "text" \in kinds
    BY <1>1, TextIsTaken DEF kinds
  <2>2. \A i \in DOMAIN sent : \E k \in DOMAIN text : text[k] = sent[i]
    BY <1>1 DEF AnswerInv
  <2>3. CASE "text" \in kinds
    <3>1. /\ text' = Append(text, n) /\ DOMAIN text' = DOMAIN text \cup {Len(text) + 1}
          /\ text'[Len(text) + 1] = n /\ \A k \in DOMAIN text : text'[k] = text[k]
      BY <1>4, <1>5, <2>3
    <3>2. \A i \in DOMAIN sent' : sent'[i] = n \/ (i \in DOMAIN sent /\ sent'[i] = sent[i])
      BY <1>4, <1>5
    <3>3. QED
      BY <2>2, <3>1, <3>2
  <2>4. CASE "text" \notin kinds
    BY <1>5, <2>1, <2>2, <2>4
  <2>5. QED
    BY <2>3, <2>4
<1>13. AnswerInv'
  BY <1>1, <1>2, <1>11, <1>12 DEF AnswerInv
<1>14. QED
  BY <1>2, <1>10, <1>13, TypeGroups DEF ClientInv, TypeOK, RequestOK, AttemptOK, BodyOK

(* Every step keeps the invariant. *)
LEMMA ClientStep == ClientInv /\ [Next]_vars => ClientInv'
<1> SUFFICES ASSUME ClientInv, [Next]_vars PROVE ClientInv'
  OBVIOUS
<1>1. CASE UNCHANGED vars
  <2>1. UNCHANGED <<request, sent, events, text, shown, reasoned, broken, outcome, pc, attempts,
                    lastErr, ctx, begun>>
    BY <1>1 DEF vars, request
  <2>2. AttemptOK' /\ RetryInv'
    BY <2>1, TypeGroups DEF ClientInv, AttemptOK, RetryInv
  <2>3. broken' \subseteq ErrorKinds /\ (Heard' => outcome' = "stream error")
    BY <2>1, TypeGroups DEF ClientInv, AnswerInv, BodyOK, Heard, ErrorHeeded, request
  <2>4. QED
    BY <2>1, <2>2, <2>3, NothingReceived
<1>2. CASE Next
  BY <1>1, <1>2, RetryStep, EndStep, ReceiveStep DEF Next, Returned
<1>3. QED
  BY <1>1, <1>2

(* A call of the AI client (doWithRetry and the request builders): only     *)
(* what is transient is retried, at most MaxRetryAttempts times in all, an  *)
(* error that is not transient comes from the first attempt, and no kind of *)
(* model is sent a request it refuses.                                      *)
THEOREM RetriesAreSafe == Spec => []RetriesOnlyTransient
<1>1. ClientInv => RetriesOnlyTransient
  BY NeverRejected, TypeGroups DEF ClientInv, RetryInv, RetriesOnlyTransient
<1>2. QED
  BY <1>1, ClientInit, ClientStep, PTL DEF Spec

(* What Complete returns is the text that was shown, in its order, all that *)
(* the server sent as text and nothing of a stream that brought an error    *)
(* its parser heeds (cmd/aiclient.go), for an answer of any length.         *)
THEOREM AnswerWasShown == Spec => []AnswerIsShown
<1>1. ClientInv => AnswerIsShown
  <2>1. ASSUME ClientInv, outcome = "text" PROVE ~Heard
    BY <2>1 DEF ClientInv, AnswerInv
  <2>2. ~Heard => "message" \notin broken /\ (provider = "anthropic" => "bare" \notin broken)
    BY DEF Heard, ErrorHeeded
  <2>3. QED
    BY <2>1, <2>2 DEF ClientInv, AnswerInv, AnswerIsShown
<1>2. QED
  BY <1>1, ClientInit, ClientStep, PTL DEF Spec

----------------------------------------------------------------------------
(* The MCP server.                                                          *)
(*                                                                          *)
(* The order of the answers over stdio is that of a hand-over: the requests *)
(* the loop has taken are those the reader has read, less the one it may    *)
(* hold (Handed), all of them have been dealt with but the one the loop is  *)
(* busy with, and so the next answer is to a later request than all before. *)
(* What a tool counts agrees with the broker as long as it makes calls.     *)

Stages == {"none", "calling", "done", "answered", "ignored", "hung"}
BrokerCalls == {"open", "put", "take", "look"}
Work == [at : Stages, left : Seq(BrokerCalls), sent : Nat, got : Nat, ok : BOOLEAN]

ServerTypes ==
    /\ transport \in {"stdio", "http"}
    /\ asked \in Seq(Kinds) /\ Len(asked) <= MaxRequests
    /\ reader \in [read : Nat, at : {"reading", "holding", "closed"}]
    /\ work \in [S!Requests -> Work]
    /\ did \in [S!Requests -> [put : Nat, taken : Nat]]
    /\ answers \in Seq(S!Requests)

Counted(i) == did[i] = [put |-> work[i].sent, taken |-> work[i].got]

(* How far a request is, and what that says of its account.                 *)
RequestInv(i) ==
    /\ work[i].at = "none" => work[i] = S!Idle /\ Counted(i) /\ i \notin adapters
    /\ work[i].at # "none" => i <= Len(asked)
    /\ work[i].at = "ignored" => asked[i] = "notification"
    /\ work[i].at \in {"calling", "done", "answered", "hung"} => asked[i] # "notification"
    /\ work[i].at = "calling" => work[i].left # << >> /\ Counted(i)
    /\ work[i].at \in {"done", "answered"} =>
           /\ work[i].ok => Counted(i)
           /\ did[i].put - work[i].sent \in {0, 1}
           /\ i \notin adapters

UnderWay(i) == work[i].at \in {"calling", "done", "hung"}
Handed == IF reader.at = "holding" THEN reader.read - 1 ELSE reader.read

ReaderInv ==
    /\ reader.read <= Len(asked)
    /\ reader.at = "holding" => reader.read >= 1
    /\ reader.at = "closed" => reader.read = Len(asked) /\ stdin # "open"
    /\ scanErr \/ loop = "finished" => reader.at = "closed"

StdioInv ==
    /\ \A i \in S!Requests : work[i].at # "none" <=> i <= Handed
    /\ \A i \in S!Requests : UnderWay(i) => loop = "busy" /\ i = Handed
    /\ \A j, k \in DOMAIN answers : j < k => answers[j] < answers[k]

AnswersInv ==
    /\ \A j \in DOMAIN answers : work[answers[j]].at = "answered"
    /\ \A j, k \in DOMAIN answers : answers[j] = answers[k] => j = k

ServerInv ==
    /\ ServerTypes /\ ReaderInv /\ AnswersInv
    /\ \A i \in S!Requests : RequestInv(i)
    /\ transport = "stdio" => StdioInv
    /\ transport = "http" => loop \in {"select", "interrupted"}

(* The answers are as they should be in a state of the invariant. *)
LEMMA ServerInvIsTrue == ServerInv => S!TrueAnswers
<1> SUFFICES ASSUME ServerInv PROVE S!TrueAnswers
  OBVIOUS
<1>1. /\ ServerTypes /\ AnswersInv /\ ReaderInv /\ \A i \in S!Requests : RequestInv(i)
      /\ transport = "stdio" => StdioInv
  BY DEF ServerInv
<1>2. \A j \in DOMAIN answers : answers[j] \in S!Requests /\ work[answers[j]].at = "answered"
  BY <1>1 DEF ServerTypes, AnswersInv
<1>3. \A j \in DOMAIN answers : S!Owed(answers[j])
  BY <1>1, <1>2 DEF RequestInv, S!Owed
<1>4. ASSUME transport = "stdio", loop = "finished" \/ (loop = "failed" /\ scanErr),
             NEW i \in S!Requests, S!Owed(i)
      PROVE  work[i].at = "answered"
  <2>1. StdioInv /\ reader.at = "closed" /\ Handed = Len(asked)
    BY <1>1, <1>4 DEF ReaderInv, Handed
  <2>2. work[i].at # "none" /\ work[i].at # "ignored" /\ ~UnderWay(i)
    BY <1>1, <1>4, <2>1 DEF StdioInv, RequestInv, S!Owed
  <2>3. work[i].at \in Stages
    BY <1>1 DEF ServerTypes, Work
  <2>4. QED
    BY <2>2, <2>3 DEF UnderWay, Stages
<1>5. S!OneAnswerEach
  BY <1>1, <1>3, <1>4 DEF S!OneAnswerEach, AnswersInv, StdioInv
<1>6. S!AnswersAreTrue
  <2> SUFFICES ASSUME NEW i \in S!Range(answers)
               PROVE  /\ work[i].ok => did[i] = [put |-> work[i].sent, taken |-> work[i].got]
                      /\ did[i].put - work[i].sent \in {0, 1}
                      /\ i \notin adapters
    BY DEF S!AnswersAreTrue
  <2>1. i \in S!Requests /\ work[i].at = "answered"
    BY <1>2 DEF S!Range
  <2>2. QED
    BY <1>1, <2>1 DEF RequestInv, Counted
<1>7. QED
  BY <1>5, <1>6 DEF S!TrueAnswers

(* The initial states satisfy the invariant. *)
LEMMA ServerInit == S!Init => ServerInv
<1> SUFFICES ASSUME S!Init PROVE ServerInv
  OBVIOUS
<1> USE MCServicesAssumption
<1>1. S!Idle \in Work
  <2>1. << >> \in Seq(BrokerCalls)
    OBVIOUS
  <2>2. QED
    BY <2>1 DEF S!Idle, Work, Stages
<1>2. asked = << >> /\ answers = << >> /\ adapters = {} /\ reader = [read |-> 0, at |-> "reading"]
      /\ ~scanErr /\ loop = "select" /\ transport \in {"stdio", "http"}
      /\ work = [i \in S!Requests |-> S!Idle]
      /\ did = [i \in S!Requests |-> [put |-> 0, taken |-> 0]]
  BY DEF S!Init
<1>3. ServerTypes
  <2>1. << >> \in Seq(Kinds) /\ << >> \in Seq(S!Requests) /\ Len(<< >>) <= MaxRequests
    OBVIOUS
  <2>2. QED
    BY <1>1, <1>2, <2>1 DEF ServerTypes
<1>4. \A i \in S!Requests : work[i].at = "none" /\ Counted(i) /\ i >= 1
  BY <1>2 DEF S!Idle, Counted, S!Requests
<1>5. ReaderInv /\ AnswersInv
  BY <1>2 DEF ReaderInv, AnswersInv
<1>6. StdioInv
  BY <1>2, <1>4 DEF StdioInv, UnderWay, Handed, S!Requests
<1>7. \A i \in S!Requests : RequestInv(i)
  BY <1>2, <1>4 DEF RequestInv
<1>8. QED
  BY <1>2, <1>3, <1>5, <1>6, <1>7 DEF ServerInv

(* What the agent sends later changes nothing for the requests there are. *)
LEMMA RequestsStay ==
    ASSUME ServerInv, UNCHANGED <<work, did, adapters>>, Len(asked) <= Len(asked'),
           Len(asked') \in Nat, \A i \in 1..Len(asked) : asked'[i] = asked[i]
    PROVE  \A i \in S!Requests : RequestInv(i)'
<1> SUFFICES ASSUME NEW i \in S!Requests PROVE RequestInv(i)'
  OBVIOUS
<1>1. RequestInv(i) /\ i \in Nat /\ i >= 1 /\ Len(asked) \in Nat
  BY DEF ServerInv, ServerTypes, S!Requests
<1>2. work[i].at # "none" => i \in 1..Len(asked)
  BY <1>1 DEF RequestInv
<1>3. work[i].at # "none" => asked'[i] = asked[i]
  BY <1>2
<1>4. work'[i] = work[i] /\ did'[i] = did[i] /\ adapters' = adapters
  OBVIOUS
<1>5. QED
  BY <1>1, <1>3, <1>4 DEF RequestInv, Counted

(* The agent sends, hangs up or signals. *)
LEMMA AgentStep ==
    ASSUME ServerInv,
           (\E kind \in Kinds : S!Asks(kind)) \/ S!Hangup("eof") \/ S!Hangup("broken") \/ S!Signal
    PROVE  ServerInv'
<1>1. /\ UNCHANGED <<transport, reader, scanErr, loop, work, did, answers, adapters>>
      /\ \/ stdin = "open" /\ stdin' = stdin
            /\ \E kind \in Kinds : Len(asked) < MaxRequests /\ asked' = Append(asked, kind)
         \/ asked' = asked /\ (stdin # "open" => stdin' # "open")
  BY DEF S!Asks, S!Hangup, S!Signal, S!pump, S!agent
<1>2. ServerTypes /\ ReaderInv /\ AnswersInv /\ asked \in Seq(Kinds) /\ Len(asked) \in Nat
  BY DEF ServerInv, ServerTypes
<1>3. /\ asked' \in Seq(Kinds) /\ Len(asked') \in Nat /\ Len(asked') <= MaxRequests
      /\ Len(asked) <= Len(asked') /\ \A i \in 1..Len(asked) : asked'[i] = asked[i]
      /\ stdin # "open" => stdin' # "open" /\ asked' = asked
  <2>1. CASE asked' = asked /\ (stdin # "open" => stdin' # "open")
    BY <1>2, <2>1 DEF ServerTypes
  <2>2. CASE stdin = "open" /\ \E kind \in Kinds : Len(asked) < MaxRequests /\ asked' = Append(asked, kind)
    <3>1. PICK kind \in Kinds : Len(asked) < MaxRequests /\ asked' = Append(asked, kind)
      BY <2>2
    <3>2. QED
      BY <1>2, <2>2, <3>1, MCServicesAssumption
  <2>3. QED
    BY <1>1, <2>1, <2>2
<1>4. \A i \in S!Requests : RequestInv(i)'
  BY <1>1, <1>3, RequestsStay
<1>5. ServerTypes'
  BY <1>1, <1>2, <1>3 DEF ServerTypes
<1>6. ReaderInv' /\ AnswersInv'
  <2>1. reader.read \in Nat
    BY <1>2 DEF ServerTypes
  <2>2. QED
    BY <1>1, <1>2, <1>3, <2>1 DEF ReaderInv, AnswersInv
<1>7. transport' = "stdio" => StdioInv'
  BY <1>1 DEF ServerInv, StdioInv, UnderWay, Handed
<1>8. QED
  BY <1>1, <1>4, <1>5, <1>6, <1>7 DEF ServerInv

(* The reading goroutine reads on, and the server ends. *)
LEMMA ReadOrEndStep ==
    ASSUME ServerInv, S!ReaderReads \/ S!LoopEnds \/ S!Shutdown
    PROVE  ServerInv'
<1>1. /\ UNCHANGED <<transport, asked, stdin, work, did, answers, adapters>>
      /\ ServerTypes /\ ReaderInv /\ AnswersInv
      /\ Len(asked) \in Nat /\ reader.read \in Nat
  BY DEF ServerInv, ServerTypes, S!ReaderReads, S!LoopEnds, S!Shutdown, S!agent
<1>2. \A i \in S!Requests : RequestInv(i)'
  BY <1>1, RequestsStay
<1>3. AnswersInv'
  BY <1>1 DEF AnswersInv
<1>4. CASE S!ReaderReads
  <2>1. transport = "stdio" /\ loop' = loop /\ loop \in {"select", "busy", "write"}
    BY <1>4 DEF S!ReaderReads, S!Serving
  <2>2. /\ ReaderInv' /\ Handed' = Handed
        /\ reader' \in [read : Nat, at : {"reading", "holding", "closed"}]
    <3>1. CASE S!ReadsLine
      BY <1>1, <2>1, <3>1 DEF S!ReadsLine, ReaderInv, Handed, ServerTypes
    <3>2. CASE S!ReadsEnd
      <4>1. /\ reader.at = "reading" /\ reader.read = Len(asked) /\ stdin # "open"
            /\ reader' = [reader EXCEPT !.at = "closed"]
        BY <3>2 DEF S!ReadsEnd
      <4>2. reader'.at = "closed" /\ reader'.read = reader.read
        BY <1>1, <4>1 DEF ServerTypes
      <4>3. QED
        BY <1>1, <4>1, <4>2 DEF ReaderInv, Handed, ServerTypes
    <3>3. QED
      BY <1>4, <3>1, <3>2 DEF S!ReaderReads
  <2>3. ServerTypes'
    BY <1>1, <2>2 DEF ServerTypes
  <2>4. StdioInv'
    BY <1>1, <2>1, <2>2 DEF ServerInv, StdioInv, UnderWay
  <2>5. QED
    BY <1>1, <1>2, <1>3, <2>1, <2>2, <2>3, <2>4 DEF ServerInv
<1>5. CASE S!LoopEnds \/ S!Shutdown
  <2>1. /\ reader' = reader /\ scanErr' = scanErr
        /\ loop' \in {"interrupted", "failed", "finished"}
        /\ loop' = "finished" => reader.at = "closed"
        /\ transport = "stdio" => loop # "busy"
        /\ transport # "stdio" => loop' = "interrupted"
    BY <1>5 DEF S!LoopEnds, S!Shutdown, S!pump
  <2>2. ServerTypes' /\ ReaderInv'
    BY <1>1, <2>1 DEF ServerTypes, ReaderInv
  <2>3. transport' = "stdio" => StdioInv'
    BY <1>1, <2>1 DEF ServerInv, StdioInv, UnderWay, Handed
  <2>4. QED
    BY <1>1, <1>2, <1>3, <2>1, <2>2, <2>3 DEF ServerInv
<1>6. QED
  BY <1>4, <1>5

(* A step of one request leaves the others alone. *)
LEMMA OthersStay ==
    ASSUME ServerInv, NEW i \in S!Requests, NEW w \in Work, work' = [work EXCEPT ![i] = w],
           asked' = asked, RequestInv(i)', did' \in [S!Requests -> [put : Nat, taken : Nat]],
           \A k \in S!Requests \ {i} : did'[k] = did[k] /\ (k \in adapters' <=> k \in adapters)
    PROVE  /\ \A k \in S!Requests : RequestInv(k)'
           /\ work' \in [S!Requests -> Work] /\ work'[i] = w
           /\ \A k \in S!Requests \ {i} : work'[k] = work[k]
<1>1. work \in [S!Requests -> Work] /\ \A k \in S!Requests : RequestInv(k)
  BY DEF ServerInv, ServerTypes
<1>2. work' \in [S!Requests -> Work] /\ work'[i] = w /\ \A k \in S!Requests \ {i} : work'[k] = work[k]
  BY <1>1
<1>3. ASSUME NEW k \in S!Requests, k # i PROVE RequestInv(k)'
  <2>1. RequestInv(k) /\ work'[k] = work[k] /\ did'[k] = did[k] /\ (k \in adapters' <=> k \in adapters)
    BY <1>1, <1>2, <1>3
  <2>2. QED
    BY <2>1 DEF RequestInv, Counted
<1>4. QED
  BY <1>2, <1>3

(* A request is begun: a tool calls the broker, a notification is ignored,  *)
(* and the rest is answered at once.                                        *)
LEMMA Begun ==
    ASSUME ServerInv, NEW i \in S!Requests, work[i].at = "none", i <= Len(asked), S!Begin(i),
           UNCHANGED <<asked, did, adapters>>
    PROVE  /\ \A k \in S!Requests : RequestInv(k)'
           /\ work' \in [S!Requests -> Work]
           /\ \A k \in S!Requests \ {i} : work'[k] = work[k]
           /\ work'[i].at \in {"calling", "done", "ignored"}
           /\ work'[i].at = "ignored" <=> asked[i] = "notification"
<1> DEFINE w == [S!Idle EXCEPT !.at = IF asked[i] = "notification" THEN "ignored"
                                    ELSE IF asked[i] \in S!Tools THEN "calling" ELSE "done",
                               !.left = S!Calls(asked[i]),
                               !.ok = asked[i] \in S!Tools \cup {"list"}]
<1>1. work' = [work EXCEPT ![i] = w]
  BY DEF S!Begin
<1>2. S!Calls(asked[i]) \in Seq(BrokerCalls) /\ (asked[i] \in S!Tools => S!Calls(asked[i]) # << >>)
  <2>1. /\ << >> \in Seq(BrokerCalls) /\ <<"open">> \in Seq(BrokerCalls) /\ <<"look">> \in Seq(BrokerCalls)
        /\ <<"open">> # << >> /\ <<"look">> # << >>
    BY DEF BrokerCalls
  <2>2. S!SendCalls \in Seq(BrokerCalls) /\ S!SendCalls # << >>
    BY DEF S!SendCalls, BrokerCalls
  <2>3. S!ReceiveCalls \in Seq(BrokerCalls) /\ S!ReceiveCalls # << >>
    BY DEF S!ReceiveCalls, BrokerCalls
  <2>4. S!PeekCalls \in Seq(BrokerCalls) /\ S!PeekCalls # << >>
    BY DEF S!PeekCalls, BrokerCalls
  <2>5. S!RequestCalls \in Seq(BrokerCalls) /\ S!RequestCalls # << >>
    BY DEF S!RequestCalls, BrokerCalls
  <2>6. QED
    BY <2>1, <2>2, <2>3, <2>4, <2>5 DEF S!Calls, S!Tools
<1> DEFINE at == IF asked[i] = "notification" THEN "ignored"
                 ELSE IF asked[i] \in S!Tools THEN "calling" ELSE "done"
           left == S!Calls(asked[i])
           ok == asked[i] \in S!Tools \cup {"list"}
<1>3. at \in Stages /\ left \in Seq(BrokerCalls) /\ ok \in BOOLEAN
  BY <1>2 DEF Stages
<1>4. w \in Work /\ w.at = at /\ w.left = left /\ w.sent = 0 /\ w.got = 0
  <2> HIDE DEF at, left, ok
  <2>1. S!Idle \in Work /\ S!Idle.sent = 0 /\ S!Idle.got = 0
    BY << >> \in Seq(BrokerCalls) DEF S!Idle, Work, Stages
  <2>2. w = [S!Idle EXCEPT !.at = at, !.left = left, !.ok = ok]
    BY DEF w, at, left, ok
  <2>3. QED
    BY <1>3, <2>1, <2>2 DEF Work
<1>5. did[i] = [put |-> 0, taken |-> 0] /\ i \notin adapters
  <2>1. RequestInv(i)
    BY DEF ServerInv
  <2>2. work[i] = S!Idle /\ Counted(i) /\ i \notin adapters
    BY <2>1 DEF RequestInv
  <2>3. S!Idle.sent = 0 /\ S!Idle.got = 0
    BY DEF S!Idle
  <2>4. QED
    BY <2>2, <2>3 DEF Counted
<1>6. work'[i] = w /\ did'[i] = did[i] /\ adapters' = adapters
  BY <1>1 DEF ServerInv, ServerTypes
<1>7. RequestInv(i)'
  <2>1. w.at \in {"calling", "done", "ignored"} /\ w.sent = 0 /\ w.got = 0 /\ w.left = S!Calls(asked[i])
    BY <1>4
  <2>2. w.at = "ignored" <=> asked[i] = "notification"
    BY <1>4
  <2>3. w.at = "calling" => asked[i] \in S!Tools
    BY <1>4
  <2>4. QED
    BY <1>2, <1>5, <1>6, <2>1, <2>2, <2>3 DEF RequestInv, Counted
<1>8. did' \in [S!Requests -> [put : Nat, taken : Nat]]
  BY DEF ServerInv, ServerTypes
<1>9. /\ \A k \in S!Requests : RequestInv(k)'
      /\ work' \in [S!Requests -> Work] /\ work'[i] = w
      /\ \A k \in S!Requests \ {i} : work'[k] = work[k]
  <2>1. asked' = asked /\ did' = did /\ adapters' = adapters
    OBVIOUS
  <2>2. QED
    BY <1>1, <1>4, <1>7, <1>8, <2>1, OthersStay
<1>10. QED
  BY <1>4, <1>9

(* The loop takes a line, or a post arrives. *)
LEMMA TakeStep ==
    ASSUME ServerInv, S!LoopTakes \/ \E i \in S!Requests : S!Post(i)
    PROVE  ServerInv'
<1>1. /\ ServerTypes /\ ReaderInv /\ AnswersInv
      /\ Len(asked) \in Nat /\ reader.read \in Nat /\ Len(asked) <= MaxRequests
      /\ \A j \in DOMAIN answers : answers[j] \in S!Requests
  BY DEF ServerInv, ServerTypes
<1>2. UNCHANGED <<transport, asked, stdin, scanErr, did, answers, adapters>>
  BY DEF S!LoopTakes, S!Post, S!agent, S!pump
<1>3. PICK i \in S!Requests :
        /\ work[i].at = "none" /\ i <= Len(asked) /\ S!Begin(i)
        /\ \/ S!LoopTakes /\ i = reader.read /\ transport = "stdio" /\ loop = "select"
                          /\ reader.at = "holding"
           \/ S!Post(i) /\ transport = "http" /\ reader' = reader /\ loop' = loop
  <2>1. CASE S!LoopTakes
    <3>1. reader.at = "holding" /\ transport = "stdio" /\ S!Begin(reader.read) /\ loop = "select"
      BY <2>1 DEF S!LoopTakes
    <3>2. reader.read \in S!Requests /\ reader.read <= Len(asked)
      BY <1>1, <3>1, MCServicesAssumption DEF ReaderInv, S!Requests
    <3>3. work[reader.read].at = "none"
      BY <1>1, <3>1, <3>2 DEF ServerInv, StdioInv, Handed
    <3>4. QED
      BY <2>1, <3>1, <3>2, <3>3
  <2>2. CASE \E i \in S!Requests : S!Post(i)
    BY <2>2 DEF S!Post, S!pump
  <2>3. QED
    BY <2>1, <2>2
<1>4. /\ \A k \in S!Requests : RequestInv(k)'
      /\ work' \in [S!Requests -> Work]
      /\ \A k \in S!Requests \ {i} : work'[k] = work[k]
      /\ work'[i].at \in {"calling", "done", "ignored"}
      /\ work'[i].at = "ignored" <=> asked[i] = "notification"
  BY <1>2, <1>3, Begun
<1>5. AnswersInv'
  <2>1. \A j \in DOMAIN answers : answers[j] # i
    BY <1>1, <1>3 DEF AnswersInv
  <2>2. \A j \in DOMAIN answers : work'[answers[j]] = work[answers[j]]
    BY <1>1, <1>4, <2>1
  <2>3. QED
    BY <1>1, <1>2, <2>2 DEF AnswersInv
<1>6. CASE S!LoopTakes /\ i = reader.read /\ transport = "stdio" /\ loop = "select"
           /\ reader.at = "holding"
  <2>1. reader' = [reader EXCEPT !.at = "reading"] /\ loop' = S!Took
    BY <1>6 DEF S!LoopTakes
  <2>2. /\ reader'.at = "reading" /\ reader'.read = reader.read /\ Handed' = i /\ Handed = i - 1
        /\ reader' \in [read : Nat, at : {"reading", "holding", "closed"}]
    BY <1>1, <1>6, <2>1 DEF ServerTypes, Handed
  <2>3. StdioInv /\ \A k \in S!Requests : ~UnderWay(k)
    BY <1>6 DEF ServerInv, StdioInv
  <2>4. work'[i].at # "ignored" => loop' = "busy"
    BY <1>4, <1>6, <2>1 DEF S!Took
  <2>5. StdioInv'
    <3>1. \A k \in S!Requests : work'[k].at # "none" <=> k <= Handed'
      <4> SUFFICES ASSUME NEW k \in S!Requests PROVE work'[k].at # "none" <=> k <= i
        BY <2>2
      <4>1. i \in Nat /\ k \in Nat
        BY DEF S!Requests
      <4>2. work[k].at # "none" <=> k <= i - 1
        BY <2>2, <2>3 DEF StdioInv
      <4>3. CASE k = i
        BY <1>4, <4>1, <4>3
      <4>4. CASE k # i
        BY <1>4, <4>1, <4>2, <4>4
      <4>5. QED
        BY <4>3, <4>4
    <3>2. \A k \in S!Requests : UnderWay(k)' => loop' = "busy" /\ k = Handed'
      <4> SUFFICES ASSUME NEW k \in S!Requests, UnderWay(k)' PROVE loop' = "busy" /\ k = Handed'
        OBVIOUS
      <4>1. k = i
        BY <1>4, <2>3 DEF UnderWay
      <4>2. QED
        BY <2>2, <2>4, <4>1 DEF UnderWay
    <3>3. QED
      BY <1>2, <2>3, <3>1, <3>2 DEF StdioInv
  <2>6. loop' # "finished"
    BY <2>1 DEF S!Took
  <2>7. ServerTypes' /\ ReaderInv'
    BY <1>1, <1>2, <1>4, <1>6, <2>2, <2>6 DEF ServerTypes, ReaderInv
  <2>8. QED
    BY <1>2, <1>4, <1>5, <1>6, <2>5, <2>7 DEF ServerInv
<1>7. CASE S!Post(i) /\ transport = "http" /\ reader' = reader /\ loop' = loop
  <2>1. ServerTypes' /\ ReaderInv'
    BY <1>1, <1>2, <1>4, <1>7 DEF ServerTypes, ReaderInv
  <2>2. QED
    BY <1>2, <1>4, <1>5, <1>7, <2>1 DEF ServerInv
<1>8. QED
  BY <1>3, <1>6, <1>7

(* A request is answered, over either transport. *)
LEMMA AnswerStep ==
    ASSUME ServerInv, NEW i \in S!Requests, S!Answer(i) \/ S!Responds(i)
    PROVE  ServerInv'
<1> DEFINE w == [work[i] EXCEPT !.at = "answered"]
<1>1. /\ ServerTypes /\ ReaderInv /\ AnswersInv /\ RequestInv(i)
      /\ work[i] \in Work /\ Len(answers) \in Nat /\ answers \in Seq(S!Requests)
      /\ \A j \in DOMAIN answers : answers[j] \in S!Requests
  BY DEF ServerInv, ServerTypes
<1>2. /\ UNCHANGED <<transport, asked, stdin, reader, scanErr, did, adapters>>
      /\ work[i].at = "done" /\ work' = [work EXCEPT ![i] = w]
  BY DEF S!Answer, S!Responds, S!agent, S!pump
<1>3. /\ w \in Work /\ w.at = "answered" /\ w.sent = work[i].sent /\ w.got = work[i].got
      /\ w.ok = work[i].ok
  BY <1>1 DEF Work, Stages
<1> HIDE DEF w
<1>4. work'[i] = w
  BY <1>1, <1>2 DEF ServerTypes
<1>5. RequestInv(i)'
  BY <1>1, <1>2, <1>3, <1>4 DEF RequestInv, Counted
<1>6. did' \in [S!Requests -> [put : Nat, taken : Nat]]
  BY <1>1, <1>2 DEF ServerTypes
<1>7. /\ \A k \in S!Requests : RequestInv(k)'
      /\ work' \in [S!Requests -> Work]
      /\ \A k \in S!Requests \ {i} : work'[k] = work[k]
  <2>1. asked' = asked /\ did' = did /\ adapters' = adapters
    BY <1>2
  <2>2. QED
    BY <1>2, <1>3, <1>5, <1>6, <2>1, OthersStay
<1>8. /\ answers' = answers \/ answers' = Append(answers, i)
      /\ \/ transport = "stdio" /\ loop = "busy" /\ loop' \in {"select", "failed"}
         \/ transport = "http" /\ loop' = loop
  BY DEF S!Answer, S!Responds
<1>9. answers' \in Seq(S!Requests) /\ AnswersInv'
  <2>1. \A j \in DOMAIN answers : answers[j] # i /\ work'[answers[j]].at = "answered"
    BY <1>1, <1>2, <1>7 DEF AnswersInv
  <2>2. CASE answers' = answers
    BY <1>1, <2>1, <2>2 DEF AnswersInv
  <2>3. CASE answers' = Append(answers, i)
    BY <1>1, <1>3, <1>4, <2>1, <2>3 DEF AnswersInv
  <2>4. QED
    BY <1>8, <2>2, <2>3
<1>10. ServerTypes' /\ ReaderInv'
  BY <1>1, <1>2, <1>6, <1>7, <1>8, <1>9 DEF ServerTypes, ReaderInv
<1>11. transport = "stdio" => StdioInv'
  <2> SUFFICES ASSUME transport = "stdio" PROVE StdioInv'
    OBVIOUS
  <2>1. StdioInv /\ i = Handed /\ Handed' = Handed
    BY <1>2 DEF ServerInv, StdioInv, UnderWay, Handed
  <2>2. \A k \in S!Requests : work'[k].at # "none" <=> k <= Handed'
    BY <1>2, <1>3, <1>4, <1>7, <2>1 DEF StdioInv
  <2>3. \A k \in S!Requests : ~UnderWay(k)'
    BY <1>3, <1>4, <1>7, <2>1 DEF StdioInv, UnderWay
  <2>4. \A j \in DOMAIN answers : answers[j] < i
    <3> SUFFICES ASSUME NEW j \in DOMAIN answers PROVE answers[j] < i
      OBVIOUS
    <3>1. answers[j] \in S!Requests /\ answers[j] # i /\ work[answers[j]].at # "none"
      BY <1>1, <1>2 DEF AnswersInv
    <3>2. answers[j] <= i
      BY <2>1, <3>1 DEF StdioInv
    <3>3. QED
      BY <3>1, <3>2 DEF S!Requests
  <2>5. \A j, k \in DOMAIN answers' : j < k => answers'[j] < answers'[k]
    BY <1>1, <1>8, <2>1, <2>4 DEF StdioInv
  <2>6. QED
    BY <2>2, <2>3, <2>5 DEF StdioInv
<1>12. QED
  BY <1>2, <1>7, <1>8, <1>9, <1>10, <1>11 DEF ServerInv

(* A step of a tool that is at work: it stays at work, is done or hangs.    *)
LEMMA WorkingStep ==
    ASSUME ServerInv, NEW i \in S!Requests, work[i].at = "calling", NEW w \in Work,
           w.at \in {"calling", "done", "hung"}, work' = [work EXCEPT ![i] = w],
           UNCHANGED <<transport, asked, stdin, reader, scanErr, loop, answers>>,
           did' \in [S!Requests -> [put : Nat, taken : Nat]],
           \A k \in S!Requests \ {i} : did'[k] = did[k] /\ (k \in adapters' <=> k \in adapters),
           w.at = "calling" => w.left # << >>,
           w.at = "calling" \/ w.ok => did'[i] = [put |-> w.sent, taken |-> w.got],
           w.at = "done" => did'[i].put - w.sent \in {0, 1} /\ i \notin adapters'
    PROVE  ServerInv'
<1>1. /\ ServerTypes /\ ReaderInv /\ AnswersInv /\ RequestInv(i)
      /\ \A j \in DOMAIN answers : answers[j] \in S!Requests
  BY DEF ServerInv, ServerTypes
<1>2. work'[i] = w /\ asked' = asked
  BY <1>1 DEF ServerTypes
<1>3. RequestInv(i)'
  BY <1>1, <1>2 DEF RequestInv, Counted
<1>4. /\ \A k \in S!Requests : RequestInv(k)'
      /\ work' \in [S!Requests -> Work]
      /\ \A k \in S!Requests \ {i} : work'[k] = work[k]
  BY <1>2, <1>3, OthersStay
<1>5. ServerTypes' /\ ReaderInv'
  BY <1>1, <1>4 DEF ServerTypes, ReaderInv
<1>6. AnswersInv'
  BY <1>1, <1>4 DEF AnswersInv
<1>7. transport = "stdio" => StdioInv'
  <2> SUFFICES ASSUME transport = "stdio" PROVE StdioInv'
    OBVIOUS
  <2>1. StdioInv /\ UnderWay(i) /\ Handed' = Handed
    BY DEF ServerInv, UnderWay, Handed
  <2>2. \A k \in S!Requests : (work'[k].at # "none" <=> work[k].at # "none")
                            /\ (UnderWay(k)' <=> UnderWay(k))
    BY <1>2, <1>4, <2>1 DEF UnderWay
  <2>3. QED
    BY <2>1, <2>2 DEF StdioInv
<1>8. QED
  BY <1>4, <1>5, <1>6, <1>7 DEF ServerInv

(* A call to the broker returns: what the tool counts and what has happened *)
(* grow together.                                                           *)
LEMMA ReturnStep == ASSUME ServerInv, NEW i \in S!Requests, S!CallReturns(i) PROVE ServerInv'
<1> DEFINE op == Head(work[i].left)
           put == IF op = "put" THEN 1 ELSE 0
           take == IF op = "take" THEN 1 ELSE 0
           w == [S!Next1(i) EXCEPT !.sent = @ + put, !.got = @ + take]
<1>1. /\ ServerTypes /\ work[i] \in Work /\ did \in [S!Requests -> [put : Nat, taken : Nat]]
      /\ work[i].at = "calling" /\ work[i].left # << >> /\ Counted(i)
  BY DEF ServerInv, ServerTypes, RequestInv, S!CallReturns, S!Working
<1>2. /\ S!Proceed(i, w)
      /\ did' = [did EXCEPT ![i].put = @ + put, ![i].taken = @ + take]
      /\ UNCHANGED <<transport, asked, stdin, reader, scanErr, loop, answers>>
  BY DEF S!CallReturns, S!agent, S!pump
<1>3. /\ w \in Work /\ w.at = "calling" /\ w.sent = work[i].sent + put /\ w.got = work[i].got + take
      /\ put \in {0, 1} /\ take \in {0, 1}
  <2>1. Tail(work[i].left) \in Seq(BrokerCalls)
    BY <1>1 DEF Work
  <2>2. /\ S!Next1(i) \in Work /\ S!Next1(i).at = "calling" /\ S!Next1(i).sent = work[i].sent
        /\ S!Next1(i).got = work[i].got
    BY <1>1, <2>1 DEF S!Next1, Work
  <2>3. put \in {0, 1} /\ take \in {0, 1}
    OBVIOUS
  <2> HIDE DEF put, take
  <2>4. S!Next1(i).sent + put \in Nat /\ S!Next1(i).got + take \in Nat
    BY <2>2, <2>3 DEF Work
  <2> DEFINE n == S!Next1(i)
             p == n.sent + put
             g == n.got + take
             v == [n EXCEPT !.sent = p, !.got = g]
  <2>5. w = v
    BY DEF w
  <2> HIDE DEF n, p, g
  <2>6. v \in Work /\ v.at = n.at /\ v.sent = p /\ v.got = g
    BY <2>2, <2>4 DEF Work, n, p, g
  <2>7. QED
    BY <2>2, <2>3, <2>5, <2>6 DEF n, p, g
<1> HIDE DEF w, put, take
<1>4. /\ did' \in [S!Requests -> [put : Nat, taken : Nat]]
      /\ \A k \in S!Requests \ {i} : did'[k] = did[k]
      /\ did'[i] = [put |-> w.sent, taken |-> w.got]
  <2> DEFINE d == [did[i] EXCEPT !.put = @ + put, !.taken = @ + take]
  <2>1. did[i] \in [put : Nat, taken : Nat] /\ did[i].put = work[i].sent /\ did[i].taken = work[i].got
    BY <1>1 DEF Counted
  <2>2. d = [put |-> w.sent, taken |-> w.got] /\ d \in [put : Nat, taken : Nat]
    <3>1. did[i].put + put \in Nat /\ did[i].taken + take \in Nat
      BY <1>3, <2>1
    <3>2. d.put = did[i].put + put /\ d.taken = did[i].taken + take /\ d \in [put : Nat, taken : Nat]
      BY <2>1, <3>1
    <3> HIDE DEF d
    <3>3. d = [put |-> d.put, taken |-> d.taken]
      BY <3>2
    <3>4. QED
      BY <1>3, <2>1, <3>2, <3>3
  <2>3. did' = [did EXCEPT ![i] = d]
    BY <1>1, <1>2
  <2> HIDE DEF d
  <2>4. QED
    BY <1>1, <2>2, <2>3
<1>5. CASE w.left = << >>
  <2> DEFINE final == [w EXCEPT !.at = "done"]
  <2>1. work' = [work EXCEPT ![i] = final] /\ adapters' = adapters \ {i}
    BY <1>2, <1>5 DEF S!Proceed
  <2>2. final \in Work /\ final.at = "done" /\ final.sent = w.sent /\ final.got = w.got
    BY <1>3 DEF Work, Stages
  <2> HIDE DEF final
  <2>3. did'[i].put - final.sent \in {0, 1}
    BY <1>3, <1>4, <2>2 DEF Work
  <2>4. QED
    BY <1>1, <1>2, <1>4, <2>1, <2>2, <2>3, WorkingStep
<1>6. CASE w.left # << >>
  <2>1. /\ work' = [work EXCEPT ![i] = w]
        /\ \A k \in S!Requests \ {i} : k \in adapters' <=> k \in adapters
    BY <1>2, <1>6 DEF S!Proceed
  <2>2. QED
    BY <1>1, <1>2, <1>3, <1>4, <1>6, <2>1, WorkingStep
<1>7. QED
  BY <1>5, <1>6

(* A tool's work ends without the broker's answer: the read finds nothing,  *)
(* the call fails or panics.                                                *)
LEMMA EndWorkStep ==
    ASSUME ServerInv, NEW i \in S!Requests,
           S!NothingThere(i) \/ S!CallFails(i) \/ S!Panics(i)
    PROVE  ServerInv'
<1>1. /\ ServerTypes /\ work[i] \in Work /\ did \in [S!Requests -> [put : Nat, taken : Nat]]
      /\ work[i].at = "calling" /\ Counted(i)
  BY DEF ServerInv, ServerTypes, RequestInv, S!NothingThere, S!CallFails, S!Panics, S!Working
<1>2. PICK ok \in BOOLEAN :
        /\ work' = [work EXCEPT ![i] = S!Ends(i, ok)] /\ adapters' = adapters \ {i}
        /\ did' = did \/ (~ok /\ S!FailedCall(i))
        /\ UNCHANGED <<transport, asked, stdin, reader, scanErr, loop, answers>>
  <2>1. CASE S!NothingThere(i)
    BY <2>1 DEF S!NothingThere, S!agent, S!pump
  <2>2. CASE S!CallFails(i)
    BY <2>2 DEF S!CallFails, S!agent, S!pump
  <2>3. CASE S!Panics(i)
    BY <2>3 DEF S!Panics, S!agent, S!pump
  <2>4. QED
    BY <2>1, <2>2, <2>3
<1> DEFINE w == S!Ends(i, ok)
<1>3. w \in Work /\ w.at = "done" /\ w.ok = ok /\ w.sent = work[i].sent /\ w.got = work[i].got
  <2>1. << >> \in Seq(BrokerCalls)
    OBVIOUS
  <2>2. QED
    BY <1>1, <2>1 DEF S!Ends, Work, Stages
<1>4. /\ did' \in [S!Requests -> [put : Nat, taken : Nat]]
      /\ \A k \in S!Requests \ {i} : did'[k] = did[k]
      /\ did'[i].put - work[i].sent \in {0, 1}
      /\ ok => did' = did
  <2>1. did[i] \in [put : Nat, taken : Nat] /\ did[i].put = work[i].sent
    BY <1>1 DEF Counted
  <2>2. CASE did' = did
    BY <1>1, <2>1, <2>2
  <2>3. CASE ~ok /\ did' = [did EXCEPT ![i].put = @ + 1]
    BY <1>1, <2>1, <2>3
  <2>4. CASE ~ok /\ did' = [did EXCEPT ![i].taken = @ + 1]
    BY <1>1, <2>1, <2>4
  <2>5. QED
    BY <1>2, <2>2, <2>3, <2>4 DEF S!FailedCall
<1> HIDE DEF w
<1>5. work' = [work EXCEPT ![i] = w]
  BY <1>2 DEF w
<1>6. w.ok => did'[i] = [put |-> w.sent, taken |-> w.got]
  BY <1>1, <1>3, <1>4 DEF Counted
<1>7. \A k \in S!Requests \ {i} : k \in adapters' <=> k \in adapters
  BY <1>2
<1>8. i \notin adapters'
  BY <1>2
<1>9. QED
  BY <1>1, <1>2, <1>3, <1>4, <1>5, <1>6, <1>7, <1>8, WorkingStep

(* A call without a deadline hangs. *)
LEMMA HangStep == ASSUME ServerInv, NEW i \in S!Requests, S!Hangs(i) PROVE ServerInv'
<1> DEFINE w == [work[i] EXCEPT !.at = "hung"]
<1>1. /\ ServerTypes /\ work[i] \in Work /\ did \in [S!Requests -> [put : Nat, taken : Nat]]
      /\ work[i].at = "calling" /\ Counted(i)
  BY DEF ServerInv, ServerTypes, RequestInv, S!Hangs, S!Working
<1>2. /\ work' = [work EXCEPT ![i] = w] /\ did' = did /\ adapters' = adapters
      /\ UNCHANGED <<transport, asked, stdin, reader, scanErr, loop, answers>>
  BY DEF S!Hangs, S!agent, S!pump
<1>3. w \in Work /\ w.at = "hung" /\ w.sent = work[i].sent /\ w.got = work[i].got
  BY <1>1 DEF Work, Stages
<1> HIDE DEF w
<1>4. did'[i] = [put |-> w.sent, taken |-> w.got]
  BY <1>1, <1>2, <1>3 DEF Counted
<1>5. QED
  BY <1>1, <1>2, <1>3, <1>4, WorkingStep

(* Every step keeps the invariant. *)
LEMMA ServerStep == ServerInv /\ [S!Next]_S!vars => ServerInv'
<1> SUFFICES ASSUME ServerInv, [S!Next]_S!vars PROVE ServerInv'
  OBVIOUS
<1>1. CASE UNCHANGED S!vars
  BY <1>1 DEF S!vars, ServerInv, ServerTypes, ReaderInv, AnswersInv, RequestInv, Counted, StdioInv,
              UnderWay, Handed
<1>2. CASE S!Next
  <2>1. \/ (\E kind \in Kinds : S!Asks(kind)) \/ S!Hangup("eof") \/ S!Hangup("broken") \/ S!Signal
        \/ S!ReaderReads \/ S!LoopEnds \/ S!Shutdown
        \/ S!LoopTakes \/ (\E i \in S!Requests : S!Post(i))
        \/ \E i \in S!Requests : S!Answer(i) \/ S!Responds(i) \/ S!CallReturns(i)
               \/ S!NothingThere(i) \/ S!CallFails(i) \/ S!Panics(i) \/ S!Hangs(i)
    BY <1>2 DEF S!Next
  <2>2. QED
    BY <2>1, AgentStep, ReadOrEndStep, TakeStep, AnswerStep, ReturnStep, EndWorkStep, HangStep
<1>3. QED
  BY <1>1, <1>2

(* The MCP server (ServeStdio, ServeHTTP, the tools): at most one answer    *)
(* per request, in order over stdio and none missing when the input ends,   *)
(* and what a tool counts is what happened at the broker, for any number of *)
(* requests, over both transports.                                          *)
THEOREM AnswersAreTrustworthy == S!Spec => []TrueAnswers
<1>1. ServerInv => TrueAnswers
  BY ServerInvIsTrue DEF TrueAnswers
<1>2. QED
  BY <1>1, ServerInit, ServerStep, PTL DEF S!Spec

----------------------------------------------------------------------------
(* The topic adapters.                                                      *)
(*                                                                          *)
(* That each subscriber has its own feed rests on where its subscription is *)
(* (Home), by the way the adapter names and keeps it: what is owed to it is *)
(* what that subscription holds (Feed), the cache and the call under way    *)
(* lead there (CacheInv, CallInv), no two subscribers share one, and a      *)
(* subscription that is there before its subscriber is empty (Unasked).     *)

Whos == Topics \X (Groups \cup {"durable", "own"})
Names == {"group", "durable", "random", "adapter", "call", "link"} \X Nat
            \X (Topics \cup {"any"}) \X (Groups \cup {"none"})
Messages == Topics \X Nat
Subs == [topics : SUBSET Topics, queue : Seq(Messages), ends : {"never", "deleted", "session", "call"}]

Deleting == {"rabbitmq", "awssqs", "azuresb", "gcp"}

(* The durable links of artemis that no group has a name for.               *)
Unnamed(w) == broker = "artemis" /\ w[2] = "durable"
PerCall(w) == (broker \in {"nats", "artemis"} /\ w[2] = "own") \/ Unnamed(w)
OwnKey(w) == <<w[1], "none", FALSE>>

Home(w) ==
    CASE PerCall(w)                                            -> call.name
      [] ~PerCall(w) /\ w[2] = "own" /\ broker = "rabbitmq"    -> cache[OwnKey(w)]
      [] ~PerCall(w) /\ w[2] = "own" /\ broker # "rabbitmq"    -> <<"adapter", sessions, w[1], "none">>
      [] ~PerCall(w) /\ w[2] = "durable"                       -> <<"durable", 0, w[1], "none">>
      [] w[2] \in Groups /\ broker = "mqtt"                    -> <<"adapter", sessions, w[1], w[2]>>
      [] OTHER                                                 -> <<"group", 0, w[1], w[2]>>

TopicTypes ==
    /\ broker \in Brokers
    /\ IsFiniteSet(DOMAIN subs) /\ DOMAIN subs \subseteq Names
    /\ \A n \in DOMAIN subs : subs[n] \in Subs
    /\ toDelete \subseteq DOMAIN subs
    /\ faults \in 0..MaxFaults /\ sessions \in Nat /\ calls \in Nat
    /\ published \in [Topics -> Seq(Messages)]
    /\ call = T!NoCall \/ call \in [active : {TRUE}, opts : T!Options, name : Names]
    /\ DOMAIN owed \subseteq Whos
    /\ open \in BOOLEAN /\ readerDead \in BOOLEAN

(* The log of a topic, and what a subscription holds of it.                 *)
LogInv == \A t \in Topics : \A k \in DOMAIN published[t] : published[t][k] = <<t, k>>

SubInv(n) ==
    /\ \A k \in DOMAIN subs[n].queue :
        /\ subs[n].queue[k][1] \in subs[n].topics
        /\ subs[n].queue[k][2] \in 1..Len(published[subs[n].queue[k][1]])
    /\ broker # "mqtt" =>
            \A j, k \in DOMAIN subs[n].queue : subs[n].queue[j] = subs[n].queue[k] => j = k
    /\ n[1] \in {"random", "call", "link"} => n[2] < calls
    /\ n[1] = "adapter" => n[2] <= sessions
    /\ subs[n].ends = "session" => n[1] = "adapter"
    /\ broker = "mqtt" \/ (broker = "kafka" /\ n[1] = "adapter") => subs[n].ends = "session"
    /\ broker = "nats" => n[1] = "call"

DeleteInv ==
    /\ toDelete # {} => broker \in Deleting
    /\ \A n \in toDelete : n[1] \in {"random", "adapter"}

Loose == {n \in DOMAIN subs : subs[n].ends = "deleted"} \ toDelete
LooseInv == Cardinality(Loose) <= faults

(* What is owed to a subscriber is what its subscription holds.             *)
Feed(w) ==
    /\ Home(w) \in DOMAIN subs /\ subs[Home(w)].topics = {w[1]}
    /\ broker # "mqtt" => T!Range(subs[Home(w)].queue) \subseteq owed[w]
    /\ ~Unnamed(w) => owed[w] \subseteq T!Range(subs[Home(w)].queue)
    /\ broker = "rabbitmq" /\ w[2] = "own" => OwnKey(w) \in DOMAIN cache

Calling(w) == call.active /\ T!Who(call.opts) = w

FeedInv ==
    \A w \in DOMAIN owed :
        /\ PerCall(w) /\ ~Unnamed(w) => Calling(w)
        /\ ~T!Confused(w) /\ (PerCall(w) => Calling(w)) => Feed(w)

(* A subscription whose subscriber has not asked yet is what a call that    *)
(* failed has left.                                                         *)
Fixed(w) == ~PerCall(w) /\ ~(broker = "rabbitmq" /\ w[2] = "own")

Unasked(w) ==
    Home(w) \in DOMAIN subs /\ (open \/ Home(w)[1] # "adapter") =>
        /\ broker \in {"rabbitmq", "awssqs"}
        /\ subs[Home(w)].topics = {} /\ subs[Home(w)].queue = << >>

UnaskedInv == \A w \in Whos \ DOMAIN owed : Fixed(w) /\ ~T!Confused(w) => Unasked(w)

(* The cache and the call lead to the subscription of who asks.             *)
CacheInv ==
    \A o \in T!Options :
        T!Cached(o) =>
            /\ T!Confused(T!Who(o)) =>
                   cache[T!CacheKey(o)] \in Names /\ cache[T!CacheKey(o)][1] # "group"
            /\ ~T!Confused(T!Who(o)) /\ ~readerDead =>
                   T!Who(o) \in DOMAIN owed /\ cache[T!CacheKey(o)] = Home(T!Who(o))
            /\ cache[T!CacheKey(o)] \in Names
            /\ broker = "rabbitmq" /\ T!Who(o)[2] = "own" =>
                   cache[T!CacheKey(o)][1] = "random" /\ cache[T!CacheKey(o)][3] = o.topic

CallInv ==
    call.active =>
        LET w == T!Who(call.opts)
        IN  /\ T!Confused(w) => call.name[1] # "group"
            /\ ~T!Confused(w) /\ ~readerDead => w \in DOMAIN owed /\ call.name = Home(w)
            /\ PerCall(w) => call.name[1] \in {"call", "link"}

SessionInv ==
    /\ ~open => cache = << >> /\ toDelete = {} /\ ~call.active /\ ~readerDead
    /\ ~open => \A w \in DOMAIN owed : w[2] # "own" /\ broker # "mqtt"
    /\ readerDead => broker = "kafka" /\ \A w \in DOMAIN owed : w[2] # "own"

LastInv ==
    /\ last.due \/ T!Confused(last.who) \/ broker = "mqtt"
    /\ T!OwnTopic \/ T!Confused(last.who)

TopicInv ==
    /\ TopicTypes /\ LogInv /\ DeleteInv /\ LooseInv
    /\ \A n \in DOMAIN subs : SubInv(n)
    /\ FeedInv /\ UnaskedInv /\ CacheInv /\ CallInv /\ SessionInv /\ LastInv

(* What each adapter makes of a call's options, as far as the invariant     *)
(* needs to know it.                                                        *)
LEMMA AskedFacts ==
    ASSUME broker \in Brokers, calls \in Nat, sessions \in Nat, NEW o \in T!Options
    PROVE  /\ T!NameFor(o) \in Names /\ T!Who(o) \in Whos /\ T!Who(o)[1] = o.topic
           /\ T!Ends(o) \in {"never", "deleted", "session", "call"}
           /\ T!Ends(o) = "deleted" => broker \in Deleting /\ T!NameFor(o)[1] \in {"random", "adapter"}
           /\ T!NameFor(o)[1] \in {"random", "call", "link"} => T!NameFor(o)[2] = calls
           /\ T!NameFor(o)[1] = "adapter" => T!NameFor(o)[2] = sessions
           /\ T!Ends(o) = "session" => T!NameFor(o)[1] = "adapter"
           /\ broker = "mqtt" \/ (broker = "kafka" /\ T!NameFor(o)[1] = "adapter") =>
                  T!Ends(o) = "session"
           /\ broker = "nats" => T!NameFor(o)[1] = "call"
           /\ T!Ends(o) = "call" =>
                  T!NameFor(o)[1] \in {"call", "link"} /\ broker \in {"nats", "artemis"}
           /\ T!Confused(T!Who(o)) => T!NameFor(o)[1] # "group" /\ T!Ends(o) # "call"
           /\ ~T!Confused(T!Who(o)) /\ Fixed(T!Who(o)) => T!NameFor(o) = Home(T!Who(o))
           /\ broker = "rabbitmq" /\ T!Who(o)[2] = "own" =>
                  T!NameFor(o) = <<"random", calls, o.topic, "none">> /\ T!CacheKey(o) = OwnKey(T!Who(o))
           /\ PerCall(T!Who(o)) => T!NameFor(o)[1] \in {"call", "link"}
           /\ T!CacheKey(o) = << >> <=> broker \in {"nats", "artemis"}
           /\ PerCall(T!Who(o)) /\ ~Unnamed(T!Who(o)) <=> T!Ends(o) = "call"
<1> USE MCServicesAssumption DEF T!NameFor, T!CacheKey, T!Ends, T!Who, T!Grouped, T!Confused,
        T!Group, T!Durable, T!Random, T!Adapters, T!ScopedSubscriptionName, T!Ephemeral,
        Home, PerCall, Unnamed, OwnKey, Fixed, Names, Whos, Deleting
<1>0. o.topic \in Topics /\ o.group \in Groups \cup {"none"} /\ o.durable \in BOOLEAN
  BY DEF T!Options
<1>1. CASE broker = "rabbitmq"
  <2>1. T!Asked(o) = T!Rabbitmq(o)
    BY <1>1 DEF T!Asked
  <2>2. T!CacheKey(o) = <<o.topic, o.group, o.durable>>
    BY <2>1 DEF T!Rabbitmq
  <2>3. T!CacheKey(o) # << >>
    BY <2>2
  <2>4. T!NameFor(o) = T!ScopedSubscriptionName(o, T!Random(o)) /\ T!Ends(o) = T!Ephemeral(o, "deleted")
    BY <2>1 DEF T!Rabbitmq
  <2> HIDE DEF T!CacheKey, T!NameFor, T!Ends
  <2>5. CASE o.group # "none"
    <3>1. /\ T!NameFor(o) = <<"group", 0, o.topic, o.group>> /\ T!Ends(o) = "never"
          /\ T!Who(o) = <<o.topic, o.group>> /\ o.group \in Groups
      BY <1>0, <2>4, <2>5
    <3>2. o.group \notin {"own", "durable", "none"}
      BY <3>1
    <3>3. T!NameFor(o) \in Names
      BY <1>0, <3>1
    <3>4. QED
      BY <1>0, <1>1, <2>3, <3>1, <3>2, <3>3
  <2>6. CASE o.group = "none" /\ o.durable
    BY <1>0, <1>1, <2>3, <2>4, <2>6
  <2>7. CASE o.group = "none" /\ ~o.durable
    <3>1. o.durable = FALSE
      BY <1>0, <2>7
    <3>2. T!CacheKey(o) = <<o.topic, "none", FALSE>>
      BY <2>2, <2>7, <3>1
    <3>3. QED
      BY <1>0, <1>1, <2>3, <2>4, <2>7, <3>2
  <2>8. QED
    BY <2>5, <2>6, <2>7
<1>2. CASE broker = "redis"
  <2>1. T!Asked(o) = T!Redis(o)
    BY <1>2 DEF T!Asked
  <2>2. QED
    BY <1>0, <1>2, <2>1 DEF T!Redis
<1>3. CASE broker = "awssqs"
  <2>1. T!Asked(o) = T!AwsSqs(o)
    BY <1>3 DEF T!Asked
  <2>2. QED
    BY <1>0, <1>3, <2>1 DEF T!AwsSqs
<1>4. CASE broker = "azuresb"
  <2>1. T!Asked(o) = T!AzureSb(o)
    BY <1>4 DEF T!Asked
  <2>2. QED
    BY <1>0, <1>4, <2>1 DEF T!AzureSb
<1>5. CASE broker = "gcp"
  <2>1. T!Asked(o) = T!Gcp(o)
    BY <1>5 DEF T!Asked
  <2>2. QED
    BY <1>0, <1>5, <2>1 DEF T!Gcp
<1>6. CASE broker = "nats"
  <2>1. T!Asked(o) = T!Nats(o)
    BY <1>6 DEF T!Asked
  <2>2. QED
    BY <1>0, <1>6, <2>1 DEF T!Nats
<1>7. CASE broker = "artemis"
  <2>1. T!Asked(o) = T!Artemis(o)
    BY <1>7 DEF T!Asked
  <2>2. CASE o.group # "none"
    BY <1>0, <1>7, <2>1, <2>2 DEF T!Artemis
  <2>3. CASE o.group = "none" /\ o.durable
    BY <1>0, <1>7, <2>1, <2>3 DEF T!Artemis
  <2>4. CASE o.group = "none" /\ ~o.durable
    BY <1>0, <1>7, <2>1, <2>4 DEF T!Artemis
  <2>5. QED
    BY <2>2, <2>3, <2>4
<1>8. CASE broker = "pulsar"
  <2>1. T!Asked(o) = T!Pulsar(o)
    BY <1>8 DEF T!Asked
  <2>2. QED
    BY <1>0, <1>8, <2>1 DEF T!Pulsar
<1>9. CASE broker = "mqtt"
  <2>1. T!Asked(o) = T!Mqtt(o)
    BY <1>9 DEF T!Asked
  <2>2. QED
    BY <1>0, <1>9, <2>1 DEF T!Mqtt
<1>10. CASE broker = "kafka"
  <2>1. T!Asked(o) = T!Kafka(o)
    BY <1>10 DEF T!Asked
  <2>2. QED
    BY <1>0, <1>10, <2>1 DEF T!Kafka
<1>11. QED
  BY <1>1, <1>2, <1>3, <1>4, <1>5, <1>6, <1>7, <1>8, <1>9, <1>10

(* Two calls that find the same entry of the cache are of the same          *)
(* subscriber, unless the adapter confuses them.                            *)
LEMMA KeyTellsWho ==
    ASSUME broker \in Brokers, NEW o \in T!Options, NEW p \in T!Options,
           T!CacheKey(o) = T!CacheKey(p), T!CacheKey(o) # << >>,
           ~T!Confused(T!Who(o)) \/ ~T!Confused(T!Who(p))
    PROVE  T!Who(o) = T!Who(p)
<1> USE MCServicesAssumption DEF T!CacheKey, T!Ends, T!Who, T!Grouped, T!Confused,
        T!Group, T!Durable, T!Random, T!Adapters, T!ScopedSubscriptionName, T!Ephemeral
<1>0. /\ o.topic \in Topics /\ o.group \in Groups \cup {"none"} /\ o.durable \in BOOLEAN
      /\ p.topic \in Topics /\ p.group \in Groups \cup {"none"} /\ p.durable \in BOOLEAN
  BY DEF T!Options
<1>1. CASE broker = "rabbitmq"
  <2>1. T!Asked(o) = T!Rabbitmq(o) /\ T!Asked(p) = T!Rabbitmq(p)
    BY <1>1 DEF T!Asked
  <2>2. QED
    BY <1>0, <1>1, <2>1 DEF T!Rabbitmq
<1>2. CASE broker = "redis"
  <2>1. T!Asked(o) = T!Redis(o) /\ T!Asked(p) = T!Redis(p)
    BY <1>2 DEF T!Asked
  <2>2. QED
    BY <1>0, <1>2, <2>1 DEF T!Redis
<1>3. CASE broker = "awssqs"
  <2>1. T!Asked(o) = T!AwsSqs(o) /\ T!Asked(p) = T!AwsSqs(p)
    BY <1>3 DEF T!Asked
  <2>2. QED
    BY <1>0, <1>3, <2>1 DEF T!AwsSqs
<1>4. CASE broker = "azuresb"
  <2>1. T!Asked(o) = T!AzureSb(o) /\ T!Asked(p) = T!AzureSb(p)
    BY <1>4 DEF T!Asked
  <2>2. QED
    BY <1>0, <1>4, <2>1 DEF T!AzureSb
<1>5. CASE broker = "gcp"
  <2>1. T!Asked(o) = T!Gcp(o) /\ T!Asked(p) = T!Gcp(p)
    BY <1>5 DEF T!Asked
  <2>2. QED
    BY <1>0, <1>5, <2>1 DEF T!Gcp
<1>6. CASE broker = "nats"
  <2>1. T!Asked(o) = T!Nats(o) /\ T!Asked(p) = T!Nats(p)
    BY <1>6 DEF T!Asked
  <2>2. QED
    BY <1>0, <1>6, <2>1 DEF T!Nats
<1>7. CASE broker = "artemis"
  <2>1. T!Asked(o) = T!Artemis(o) /\ T!Asked(p) = T!Artemis(p)
    BY <1>7 DEF T!Asked
  <2>2. QED
    BY <1>0, <1>7, <2>1 DEF T!Artemis
<1>8. CASE broker = "pulsar"
  <2>1. T!Asked(o) = T!Pulsar(o) /\ T!Asked(p) = T!Pulsar(p)
    BY <1>8 DEF T!Asked
  <2>2. QED
    BY <1>0, <1>8, <2>1 DEF T!Pulsar
<1>9. CASE broker = "mqtt"
  <2>1. T!Asked(o) = T!Mqtt(o) /\ T!Asked(p) = T!Mqtt(p)
    BY <1>9 DEF T!Asked
  <2>2. QED
    BY <1>0, <1>9, <2>1 DEF T!Mqtt
<1>10. CASE broker = "kafka"
  <2>1. T!Asked(o) = T!Kafka(o) /\ T!Asked(p) = T!Kafka(p)
    BY <1>10 DEF T!Asked
  <2>2. QED
    BY <1>0, <1>10, <2>1 DEF T!Kafka
<1>11. QED
  BY <1>1, <1>2, <1>3, <1>4, <1>5, <1>6, <1>7, <1>8, <1>9, <1>10

(* Of a call's options, only the name of a subscription depends on how many *)
(* calls there have been, and nothing but names and keys on the session.    *)
LEMMA AskedStays ==
    ASSUME broker \in Brokers, broker' = broker, NEW o \in T!Options
    PROVE  /\ T!Who(o)' = T!Who(o) /\ T!Ends(o)' = T!Ends(o)
           /\ sessions' = sessions => T!CacheKey(o)' = T!CacheKey(o)
<1> USE MCServicesAssumption DEF T!CacheKey, T!Ends, T!Who, T!Grouped,
        T!Group, T!Durable, T!Random, T!Adapters, T!ScopedSubscriptionName, T!Ephemeral
<1>1. CASE broker \in {"rabbitmq", "redis", "awssqs", "nats", "mqtt", "kafka"}
  BY <1>1 DEF T!Asked, T!Rabbitmq, T!Redis, T!AwsSqs, T!Nats, T!Mqtt, T!Kafka
<1>2. CASE broker \in {"azuresb", "gcp", "artemis", "pulsar"}
  BY <1>2 DEF T!Asked, T!AzureSb, T!Gcp, T!Artemis, T!Pulsar
<1>3. QED
  BY <1>1, <1>2

(* A function with some entries fewer.                                       *)
LEMMA WithoutSome ==
    ASSUME NEW f, NEW E
    PROVE  /\ DOMAIN T!Without(f, E) = DOMAIN f \ E
           /\ \A x \in DOMAIN f \ E : T!Without(f, E)[x] = f[x]
BY DEF T!Without, T!Restrict

(* With rabbitmq, the session itself is who asks without a group.           *)
LEMMA OwnCall ==
    ASSUME broker \in Brokers, calls \in Nat, sessions \in Nat,
           NEW u \in Whos, broker = "rabbitmq", u[2] = "own"
    PROVE  \E o \in T!Options : /\ T!Who(o) = u /\ o.topic = u[1]
                               /\ T!CacheKey(o) = OwnKey(u) /\ T!CacheKey(o) # << >>
<1> DEFINE o == [topic |-> u[1], group |-> "none", durable |-> FALSE]
<1>1. o \in T!Options /\ o.topic = u[1] /\ o.group = "none" /\ o.durable = FALSE
  BY DEF T!Options, Whos
<1> HIDE DEF o
<1>2. T!Who(o) = <<u[1], "own">>
  <2>1. T!Asked(o) = T!Rabbitmq(o)
    BY DEF T!Asked
  <2>2. QED
    BY <1>1, <2>1 DEF T!Rabbitmq, T!Who, T!Ends, T!Grouped, T!Ephemeral
<1>3. T!Who(o) = u
  BY <1>2 DEF Whos
<1>4. T!CacheKey(o) = OwnKey(u) /\ T!CacheKey(o) # << >>
  BY <1>1, <1>3, AskedFacts DEF OwnKey
<1>5. QED
  BY <1>1, <1>3, <1>4

(* What the session reads without a group has, with rabbitmq, the random    *)
(* name the cache remembers.                                                *)
LEMMA OwnQueue ==
    ASSUME broker \in Brokers, calls \in Nat, sessions \in Nat, CacheInv,
           NEW u \in Whos, broker = "rabbitmq", u[2] = "own", OwnKey(u) \in DOMAIN cache
    PROVE  cache[OwnKey(u)][1] = "random" /\ cache[OwnKey(u)][3] = u[1]
<1>1. PICK o \in T!Options : /\ T!Who(o) = u /\ o.topic = u[1]
                            /\ T!CacheKey(o) = OwnKey(u) /\ T!CacheKey(o) # << >>
  BY OwnCall
<1>2. QED
  BY <1>1 DEF CacheInv, T!Cached

(* How the subscriptions that outlive a call are told apart.                *)
LEMMA HomeKinds ==
    ASSUME broker \in Brokers, calls \in Nat, sessions \in Nat, CacheInv,
           NEW u \in Whos, ~PerCall(u),
           broker = "rabbitmq" /\ u[2] = "own" => OwnKey(u) \in DOMAIN cache
    PROVE  /\ Home(u)[3] = u[1] /\ Home(u)[1] \in {"random", "adapter", "durable", "group"}
           /\ Home(u)[1] = "random" => u[2] = "own" /\ broker = "rabbitmq"
           /\ Home(u)[1] = "durable" => u[2] = "durable"
           /\ Home(u)[1] = "group" => u[2] \in Groups /\ Home(u)[4] = u[2]
           /\ Home(u)[1] = "adapter" =>
                  /\ Home(u)[2] = sessions
                  /\ Home(u)[4] = IF u[2] = "own" THEN "none" ELSE u[2]
                  /\ u[2] = "own" \/ broker = "mqtt"
<1>1. CASE u[2] = "own"
  BY <1>1, OwnQueue, MCServicesAssumption DEF Home
<1>2. CASE u[2] = "durable"
  BY <1>2, MCServicesAssumption DEF Home
<1>3. CASE u[2] \in Groups
  BY <1>3, MCServicesAssumption DEF Home
<1>4. QED
  BY <1>1, <1>2, <1>3 DEF Whos

(* No two subscribers have such a subscription in common.                   *)
LEMMA HomesApart ==
    ASSUME broker \in Brokers, calls \in Nat, sessions \in Nat, CacheInv,
           NEW v \in Whos, NEW w \in Whos, v # w, ~PerCall(v), ~PerCall(w),
           broker = "rabbitmq" /\ v[2] = "own" => OwnKey(v) \in DOMAIN cache,
           broker = "rabbitmq" /\ w[2] = "own" => OwnKey(w) \in DOMAIN cache
    PROVE  Home(v) # Home(w)
<1> SUFFICES ASSUME Home(v) = Home(w) PROVE FALSE
  OBVIOUS
<1>1. v[1] = w[1] /\ v[2] # w[2]
  BY HomeKinds DEF Whos
<1>2. v[2] \in Groups \cup {"durable", "own"} /\ w[2] \in Groups \cup {"durable", "own"}
  BY DEF Whos
<1>3. QED
  BY <1>1, <1>2, HomeKinds, MCServicesAssumption

(* Nor the subscription of the call under way with anybody.                 *)
LEMMA HomesDiffer ==
    ASSUME TopicInv, NEW v \in DOMAIN owed, NEW w \in DOMAIN owed, v # w,
           ~T!Confused(v), ~T!Confused(w), PerCall(v) => Calling(v), PerCall(w) => Calling(w)
    PROVE  Home(v) # Home(w)
<1>1. /\ v \in Whos /\ w \in Whos
      /\ broker = "rabbitmq" /\ v[2] = "own" => OwnKey(v) \in DOMAIN cache
      /\ broker = "rabbitmq" /\ w[2] = "own" => OwnKey(w) \in DOMAIN cache
  BY DEF TopicInv, TopicTypes, FeedInv, Feed
<1>2. broker \in Brokers /\ calls \in Nat /\ sessions \in Nat /\ CacheInv
  BY DEF TopicInv, TopicTypes
<1>3. ~(PerCall(v) /\ PerCall(w))
  BY DEF Calling
<1>4. ASSUME NEW u \in {v, w}, PerCall(u)
      PROVE  Home(u)[1] \in {"call", "link"}
  <2>1. Calling(u)
    BY <1>4
  <2>2. Home(u) = call.name
    BY <1>4, MCServicesAssumption DEF Home, PerCall, Unnamed
  <2>3. call.active /\ PerCall(T!Who(call.opts))
    BY <1>4, <2>1 DEF Calling
  <2>4. QED
    BY <2>2, <2>3 DEF TopicInv, CallInv
<1>5. CASE ~PerCall(v) /\ ~PerCall(w)
  BY <1>1, <1>2, <1>5, HomesApart
<1>6. CASE PerCall(v) /\ ~PerCall(w)
  BY <1>1, <1>2, <1>4, <1>6, HomeKinds
<1>7. CASE PerCall(w) /\ ~PerCall(v)
  BY <1>1, <1>2, <1>4, <1>7, HomeKinds
<1>8. QED
  BY <1>3, <1>5, <1>6, <1>7

(* In the initial states there is nothing yet. *)
LEMMA TopicInit == T!Init => TopicInv
<1> SUFFICES ASSUME T!Init PROVE TopicInv
  OBVIOUS
<1>1. DOMAIN subs = {} /\ DOMAIN cache = {} /\ DOMAIN owed = {} /\ cache = << >>
  BY DEF T!Init
<1>2. ~call.active
  BY Zenon DEF T!Init, T!NoCall
<1>3. TopicTypes
  <2>1. IsFiniteSet(DOMAIN subs)
    BY <1>1, FS_EmptySet
  <2>2. << >> \in Seq(Messages)
    OBVIOUS
  <2>3. published \in [Topics -> Seq(Messages)]
    BY <2>2 DEF T!Init
  <2>4. MaxFaults \in Nat
    BY MCServicesAssumption
  <2>5. faults \in 0..MaxFaults /\ sessions \in Nat /\ calls \in Nat
    BY <2>4 DEF T!Init
  <2>6. /\ broker \in Brokers /\ toDelete = {} /\ call = T!NoCall
        /\ open \in BOOLEAN /\ readerDead \in BOOLEAN
    BY Zenon DEF T!Init
  <2>7. QED
    BY <1>1, <2>1, <2>3, <2>5, <2>6 DEF TopicTypes
<1>4. LogInv
  BY DEF T!Init, LogInv
<1>5. LooseInv
  <2>1. Loose = {}
    BY <1>1 DEF Loose
  <2>2. QED
    BY <2>1, FS_EmptySet DEF LooseInv, T!Init
<1>6. UnaskedInv
  BY <1>1 DEF UnaskedInv, Unasked
<1>7. CacheInv
  BY <1>1 DEF CacheInv, T!Cached
<1>8. LastInv
  BY DEF LastInv, T!Init, T!NoLast, T!OwnTopic
<1>9. DeleteInv /\ SessionInv
  BY <1>1 DEF DeleteInv, SessionInv, T!Init
<1>10. QED
  BY <1>1, <1>2, <1>3, <1>4, <1>5, <1>6, <1>7, <1>8, <1>9 DEF TopicInv, FeedInv, CallInv

(* A subscriber's subscription stays where it is, as long as the session    *)
(* and what the cache or the call know of it do.                            *)
LEMMA HomeStays ==
    ASSUME broker' = broker, NEW w \in Whos, PerCall(w) => call'.name = call.name,
           broker = "rabbitmq" /\ w[2] = "own" => cache'[OwnKey(w)] = cache[OwnKey(w)],
           \/ sessions' = sessions
           \/ PerCall(w) \/ (broker = "rabbitmq" /\ w[2] = "own")
           \/ Home(w)[1] # "adapter"
    PROVE  Home(w)' = Home(w)
BY DEF Home, PerCall, Unnamed, OwnKey

(* A call that finds its subscription in the cache reads that one.          *)
LEMMA UseCachedStep ==
    ASSUME TopicInv, NEW o \in T!Options, T!UseCached(o)
    PROVE  TopicInv'
<1>0. /\ UNCHANGED <<broker, subs, cache, toDelete, readerDead, open, sessions, published,
                     faults, owed, last>>
      /\ calls' = calls + 1 /\ open /\ ~call.active /\ T!Cached(o)
      /\ call' = [active |-> TRUE, opts |-> o, name |-> cache[T!CacheKey(o)]]
  BY DEF T!UseCached, T!CanCall
<1>1. /\ broker' = broker /\ subs' = subs /\ cache' = cache /\ toDelete' = toDelete
      /\ readerDead' = readerDead /\ open' = open /\ sessions' = sessions
      /\ published' = published /\ faults' = faults /\ owed' = owed /\ last' = last
  BY <1>0
<1>2. broker \in Brokers /\ calls \in Nat /\ sessions \in Nat
  BY DEF TopicInv, TopicTypes
<1>3. /\ call'.active /\ call'.opts = o /\ call'.name = cache[T!CacheKey(o)]
      /\ call'.name \in Names /\ call' \in [active : {TRUE}, opts : T!Options, name : Names]
  <2>1. cache[T!CacheKey(o)] \in Names
    BY <1>0 DEF TopicInv, CacheInv
  <2>2. QED
    BY <1>0, <2>1
<1>4. broker \notin {"nats", "artemis"}
  BY <1>0, <1>2, AskedFacts DEF T!Cached
<1>5. \A w : ~PerCall(w) /\ PerCall(w)' = PerCall(w) /\ Unnamed(w)' = Unnamed(w)
             /\ T!Confused(w)' = T!Confused(w)
  BY <1>1, <1>4 DEF PerCall, Unnamed, T!Confused
<1>6. \A w \in Whos : Home(w)' = Home(w)
  BY <1>1, <1>5, HomeStays
<1>7. TopicTypes'
  BY <1>0, <1>1, <1>3 DEF TopicInv, TopicTypes
<1>8. LogInv' /\ DeleteInv' /\ LooseInv' /\ LastInv'
  BY <1>1, <1>5 DEF TopicInv, LogInv, DeleteInv, LooseInv, Loose, LastInv, T!OwnTopic
<1>9. \A n \in DOMAIN subs' : SubInv(n)'
  BY <1>0, <1>1, <1>2 DEF TopicInv, TopicTypes, Names, SubInv
<1>10. FeedInv'
  BY <1>1, <1>5, <1>6 DEF TopicInv, TopicTypes, FeedInv, Feed, OwnKey
<1>11. UnaskedInv'
  BY <1>1, <1>5, <1>6 DEF TopicInv, UnaskedInv, Unasked, Fixed
<1>12. \A p \in T!Options : T!Who(p)' = T!Who(p) /\ T!CacheKey(p)' = T!CacheKey(p)
                            /\ T!Who(p) \in Whos
  BY <1>1, <1>2, AskedStays, AskedFacts
<1>13. CacheInv'
  BY <1>1, <1>5, <1>6, <1>12 DEF TopicInv, CacheInv, T!Cached
<1>14. CallInv'
  <2>1. T!Who(call.opts)' = T!Who(o)
    BY <1>3, <1>12
  <2>2. QED
    BY <1>0, <1>1, <1>3, <1>5, <1>6, <1>12, <2>1 DEF TopicInv, CallInv, CacheInv
<1>15. SessionInv'
  BY <1>0, <1>1 DEF TopicInv, SessionInv
<1>16. QED
  BY <1>7, <1>8, <1>9, <1>10, <1>11, <1>13, <1>14, <1>15 DEF TopicInv

(* The subscription a call would create: there is none of that name, or it  *)
(* is the subscriber's own, or an empty one that a failed call has left.    *)
LEMMA NameIsOwn ==
    ASSUME TopicInv, NEW o \in T!Options, open, ~call.active, ~T!Cached(o),
           ~T!Confused(T!Who(o))
    PROVE  /\ ~Fixed(T!Who(o)) => T!NameFor(o) \notin DOMAIN subs
           /\ PerCall(T!Who(o)) /\ ~Unnamed(T!Who(o)) => T!Who(o) \notin DOMAIN owed
           /\ broker = "rabbitmq" /\ T!Who(o)[2] = "own" => T!Who(o) \notin DOMAIN owed
           /\ Fixed(T!Who(o)) => T!NameFor(o) = Home(T!Who(o))
           /\ Fixed(T!Who(o)) /\ T!Who(o) \in DOMAIN owed => Feed(T!Who(o))
           /\ Fixed(T!Who(o)) /\ T!Who(o) \notin DOMAIN owed => Unasked(T!Who(o))
<1> DEFINE w == T!Who(o)
<1>1. broker \in Brokers /\ calls \in Nat /\ sessions \in Nat /\ DOMAIN subs \subseteq Names
  BY DEF TopicInv, TopicTypes
<1>2. w \in Whos /\ T!NameFor(o) \in Names
  BY <1>1, AskedFacts
<1>3. ~Fixed(w) => T!NameFor(o)[1] \in {"random", "call", "link"} /\ T!NameFor(o)[2] = calls
  BY <1>1, AskedFacts DEF Fixed
<1>4. ~Fixed(w) => T!NameFor(o) \notin DOMAIN subs
  BY <1>1, <1>3 DEF TopicInv, SubInv
<1>5. Fixed(w) => T!NameFor(o) = Home(w)
  BY <1>1, AskedFacts
<1>6. PerCall(w) /\ ~Unnamed(w) => w \notin DOMAIN owed
  BY DEF TopicInv, FeedInv, Calling
<1>7. w \in DOMAIN owed /\ ~PerCall(w) => Feed(w)
  BY DEF TopicInv, FeedInv
<1>8. broker = "rabbitmq" /\ w[2] = "own" => w \notin DOMAIN owed
  <2> SUFFICES ASSUME broker = "rabbitmq", w[2] = "own", w \in DOMAIN owed PROVE FALSE
    OBVIOUS
  <2>1. Feed(w)
    BY <1>7 DEF PerCall, Unnamed
  <2>2. T!CacheKey(o) \in DOMAIN cache /\ T!CacheKey(o) # << >>
    BY <1>1, <2>1, AskedFacts DEF Feed
  <2>3. QED
    BY <2>2 DEF T!Cached
<1>9. Fixed(w) /\ w \notin DOMAIN owed => Unasked(w)
  BY <1>2 DEF TopicInv, UnaskedInv
<1>10. Fixed(w) => ~PerCall(w)
  BY DEF Fixed
<1>11. QED
  BY <1>4, <1>5, <1>6, <1>7, <1>8, <1>9, <1>10

(* It is never the subscription of somebody else. *)
LEMMA NameApart ==
    ASSUME TopicInv, NEW o \in T!Options, open, ~call.active, ~T!Cached(o),
           NEW v \in Whos, v # T!Who(o), ~T!Confused(v), ~PerCall(v),
           broker = "rabbitmq" /\ v[2] = "own" => OwnKey(v) \in DOMAIN cache,
           Fixed(v) \/ Home(v) \in DOMAIN subs
    PROVE  Home(v) # T!NameFor(o)
<1> DEFINE w == T!Who(o)
<1>1. broker \in Brokers /\ calls \in Nat /\ sessions \in Nat /\ CacheInv
  BY DEF TopicInv, TopicTypes
<1>2. w \in Whos
  BY <1>1, AskedFacts
<1>3. CASE T!Confused(w)
  <2>1. v[2] \in Groups /\ broker # "mqtt" /\ v[2] \notin {"own", "durable"}
    BY <1>3, MCServicesAssumption DEF T!Confused
  <2>2. Home(v)[1] = "group"
    BY <2>1 DEF Home
  <2>3. QED
    BY <1>1, <1>3, <2>2, AskedFacts
<1>4. CASE ~T!Confused(w) /\ PerCall(w)
  BY <1>1, <1>4, AskedFacts, HomeKinds
<1>5. CASE ~T!Confused(w) /\ broker = "rabbitmq" /\ w[2] = "own"
  <2>1. T!NameFor(o) \notin DOMAIN subs /\ T!NameFor(o)[1] = "random"
    BY <1>1, <1>5, NameIsOwn, AskedFacts DEF Fixed
  <2>2. QED
    BY <1>1, <2>1, HomeKinds DEF Fixed
<1>6. CASE ~T!Confused(w) /\ Fixed(w)
  <2>1. T!NameFor(o) = Home(w)
    BY <1>6, NameIsOwn
  <2>2. QED
    BY <1>1, <1>2, <1>6, <2>1, HomesApart DEF Fixed
<1>7. QED
  BY <1>3, <1>4, <1>5, <1>6 DEF Fixed

(* Who loses its place with a kafka reader. *)
Gone == IF broker = "kafka" THEN {w \in DOMAIN owed : w[2] = "own"} ELSE {}

(* What creating a subscription changes, entry by entry. *)
LEMMA CreateEffect ==
    ASSUME TopicInv, NEW o \in T!Options, T!Create(o)
    PROVE  /\ broker' = broker /\ open' = open /\ sessions' = sessions /\ published' = published
           /\ faults' = faults /\ last' = last /\ calls' = calls + 1 /\ readerDead' = FALSE
           /\ open /\ ~call.active /\ ~T!Cached(o)
           /\ call'.active /\ call'.opts = o /\ call'.name = T!NameFor(o)
           /\ call' \in [active : {TRUE}, opts : T!Options, name : Names]
           /\ DOMAIN subs' = (DOMAIN subs \ T!Replaced) \cup {T!NameFor(o)}
           /\ \A n \in DOMAIN subs \ T!Replaced : n # T!NameFor(o) => subs'[n] = subs[n]
           /\ T!NameFor(o) \in DOMAIN subs \ T!Replaced =>
                  subs'[T!NameFor(o)] =
                      [subs[T!NameFor(o)] EXCEPT !.topics = @ \cup {o.topic}]
           /\ T!NameFor(o) \notin DOMAIN subs \ T!Replaced =>
                  subs'[T!NameFor(o)] =
                      [topics |-> {o.topic}, queue |-> T!FirstContent(o), ends |-> T!Ends(o)]
           /\ T!CacheKey(o) = << >> => cache' = cache
           /\ T!CacheKey(o) # << >> =>
                  /\ DOMAIN cache' = {T!CacheKey(o)} \cup (IF broker = "kafka" THEN {} ELSE DOMAIN cache)
                  /\ cache'[T!CacheKey(o)] = T!NameFor(o)
                  /\ \A k \in DOMAIN cache' : k # T!CacheKey(o) => cache'[k] = cache[k]
           /\ toDelete' = IF T!Ends(o) = "deleted" THEN toDelete \cup {T!NameFor(o)} ELSE toDelete
           /\ DOMAIN owed' = (DOMAIN owed \ Gone) \cup {T!Who(o)}
           /\ \A w \in DOMAIN owed \ Gone : owed'[w] = owed[w]
           /\ T!Who(o) \notin DOMAIN owed \ Gone => owed'[T!Who(o)] = T!Range(T!FirstContent(o))
<1> DEFINE name == T!NameFor(o)
           kept == T!Without(subs, T!Replaced)
           fresh == [topics |-> {o.topic}, queue |-> T!FirstContent(o), ends |-> T!Ends(o)]
           still == T!Without(owed, Gone)
<1>1. /\ UNCHANGED <<broker, open, sessions, published, faults, last>>
      /\ open /\ ~call.active /\ ~T!Cached(o)
      /\ calls' = calls + 1 /\ readerDead' = FALSE
      /\ call' = [active |-> TRUE, opts |-> o, name |-> name]
      /\ toDelete' = IF T!Ends(o) = "deleted" THEN toDelete \cup {name} ELSE toDelete
  BY DEF T!Create, T!CanCall
<1>2. subs' = IF name \in DOMAIN kept
              THEN T!With(kept, name, [kept[name] EXCEPT !.topics = @ \cup {o.topic}])
              ELSE T!With(kept, name, fresh)
  BY DEF T!Create
<1>3. cache' = CASE T!CacheKey(o) = <<>> -> cache
                 [] broker = "kafka" -> T!With(<<>>, T!CacheKey(o), name)
                 [] OTHER -> T!With(cache, T!CacheKey(o), name)
  BY DEF T!Create
<1>4. owed' = IF T!Who(o) \in DOMAIN still THEN still
              ELSE T!With(still, T!Who(o), T!Range(T!FirstContent(o)))
  BY DEF T!Create, Gone
<1>5. name \in Names
  BY AskedFacts DEF TopicInv, TopicTypes
<1>6. /\ call'.active /\ call'.opts = o /\ call'.name = name
      /\ call' \in [active : {TRUE}, opts : T!Options, name : Names]
  BY <1>1, <1>5
<1> HIDE DEF name
<1>7. /\ DOMAIN subs' = (DOMAIN subs \ T!Replaced) \cup {name}
      /\ \A n \in DOMAIN subs \ T!Replaced : n # name => subs'[n] = subs[n]
      /\ name \in DOMAIN subs \ T!Replaced =>
             subs'[name] = [subs[name] EXCEPT !.topics = @ \cup {o.topic}]
      /\ name \notin DOMAIN subs \ T!Replaced => subs'[name] = fresh
  <2>1. /\ DOMAIN kept = DOMAIN subs \ T!Replaced
        /\ \A n \in DOMAIN subs \ T!Replaced : kept[n] = subs[n]
    BY WithoutSome
  <2> HIDE DEF kept, fresh
  <2>2. CASE name \in DOMAIN kept
    <3>1. subs' = T!With(kept, name, [kept[name] EXCEPT !.topics = @ \cup {o.topic}])
      BY <1>2, <2>2
    <3>2. QED
      BY <2>1, <2>2, <3>1 DEF T!With
  <2>3. CASE name \notin DOMAIN kept
    <3>1. subs' = T!With(kept, name, fresh)
      BY <1>2, <2>3
    <3>2. QED
      BY <2>1, <2>3, <3>1 DEF T!With
  <2>4. QED
    BY <2>2, <2>3
<1>8. T!CacheKey(o) # << >> =>
          /\ DOMAIN cache' = {T!CacheKey(o)} \cup (IF broker = "kafka" THEN {} ELSE DOMAIN cache)
          /\ cache'[T!CacheKey(o)] = name
          /\ \A k \in DOMAIN cache' : k # T!CacheKey(o) => cache'[k] = cache[k]
  <2>1. DOMAIN << >> = {}
    OBVIOUS
  <2>2. CASE broker = "kafka"
    <3>1. T!CacheKey(o) # << >> => cache' = T!With(<<>>, T!CacheKey(o), name)
      BY <1>3, <2>2
    <3>2. QED
      BY <2>1, <2>2, <3>1 DEF T!With
  <2>3. CASE broker # "kafka"
    <3>1. T!CacheKey(o) # << >> => cache' = T!With(cache, T!CacheKey(o), name)
      BY <1>3, <2>3
    <3>2. QED
      BY <2>3, <3>1 DEF T!With
  <2>4. QED
    BY <2>2, <2>3
<1>9. T!CacheKey(o) = << >> => cache' = cache
  <2>1. T!CacheKey(o) = << >> => broker # "kafka"
    BY AskedFacts DEF TopicInv, TopicTypes
  <2>2. QED
    BY <1>3, <2>1
<1>10. /\ DOMAIN owed' = (DOMAIN owed \ Gone) \cup {T!Who(o)}
       /\ \A w \in DOMAIN owed \ Gone : owed'[w] = owed[w]
       /\ T!Who(o) \notin DOMAIN owed \ Gone => owed'[T!Who(o)] = T!Range(T!FirstContent(o))
  <2>1. /\ DOMAIN still = DOMAIN owed \ Gone
        /\ \A w \in DOMAIN owed \ Gone : still[w] = owed[w]
    BY WithoutSome
  <2> HIDE DEF still
  <2>2. CASE T!Who(o) \in DOMAIN still
    BY <1>4, <2>1, <2>2
  <2>3. CASE T!Who(o) \notin DOMAIN still
    <3>1. owed' = T!With(still, T!Who(o), T!Range(T!FirstContent(o)))
      BY <1>4, <2>3
    <3>2. QED
      BY <2>1, <2>3, <3>1 DEF T!With
  <2>4. QED
    BY <2>2, <2>3
<1>11. QED
  BY <1>1, <1>6, <1>7, <1>8, <1>9, <1>10 DEF name

(* The new subscription is its subscriber's, and the others keep theirs.    *)
LEMMA CreateHomes ==
    ASSUME TopicInv, NEW o \in T!Options, T!Create(o), NEW w, w = T!Who(o)
    PROVE  /\ ~T!Confused(w) => Home(w)' = T!NameFor(o)
           /\ broker = "rabbitmq" /\ w[2] = "own" => OwnKey(w) \in DOMAIN cache'
           /\ \A v \in Whos :
                  /\ v # w /\ ~PerCall(v)
                  /\ broker = "rabbitmq" /\ v[2] = "own" => OwnKey(v) \in DOMAIN cache
                  => /\ Home(v)' = Home(v)
                     /\ broker = "rabbitmq" /\ v[2] = "own" => OwnKey(v) \in DOMAIN cache'
<1>1. /\ broker' = broker /\ sessions' = sessions /\ open /\ ~call.active /\ ~T!Cached(o)
      /\ call'.name = T!NameFor(o)
      /\ T!CacheKey(o) # << >> =>
             /\ DOMAIN cache' = {T!CacheKey(o)} \cup (IF broker = "kafka" THEN {} ELSE DOMAIN cache)
             /\ cache'[T!CacheKey(o)] = T!NameFor(o)
             /\ \A k \in DOMAIN cache' : k # T!CacheKey(o) => cache'[k] = cache[k]
  BY CreateEffect
<1>2. broker \in Brokers /\ calls \in Nat /\ sessions \in Nat
  BY DEF TopicInv, TopicTypes
<1>3. w \in Whos
  BY <1>2, AskedFacts
<1>4. broker = "rabbitmq" /\ w[2] = "own" =>
          /\ T!CacheKey(o) = OwnKey(w) /\ OwnKey(w) \in DOMAIN cache'
          /\ cache'[OwnKey(w)] = T!NameFor(o)
  BY <1>1, <1>2, AskedFacts
<1>5. ~T!Confused(w) => Home(w)' = T!NameFor(o)
  <2>1. CASE ~T!Confused(w) /\ Fixed(w)
    <3>1. Home(w) = T!NameFor(o)
      BY <1>1, <2>1, NameIsOwn
    <3>2. Home(w)' = Home(w)
      BY <1>1, <1>3, <2>1, HomeStays DEF Fixed
    <3>3. QED
      BY <3>1, <3>2
  <2>2. CASE PerCall(w)
    BY <1>1, <2>2, MCServicesAssumption DEF Home, PerCall, Unnamed
  <2>3. CASE broker = "rabbitmq" /\ w[2] = "own"
    BY <1>1, <1>4, <2>3, MCServicesAssumption DEF Home, PerCall, Unnamed, OwnKey
  <2>4. QED
    BY <2>1, <2>2, <2>3 DEF Fixed
<1>6. ASSUME NEW v \in Whos, v # w, ~PerCall(v),
             broker = "rabbitmq" /\ v[2] = "own" => OwnKey(v) \in DOMAIN cache
      PROVE  /\ Home(v)' = Home(v)
             /\ broker = "rabbitmq" /\ v[2] = "own" => OwnKey(v) \in DOMAIN cache'
  <2>1. broker = "rabbitmq" /\ v[2] = "own" =>
            OwnKey(v) \in DOMAIN cache' /\ cache'[OwnKey(v)] = cache[OwnKey(v)]
    <3> SUFFICES ASSUME broker = "rabbitmq", v[2] = "own"
                 PROVE  OwnKey(v) \in DOMAIN cache' /\ cache'[OwnKey(v)] = cache[OwnKey(v)]
      OBVIOUS
    <3>1. PICK p \in T!Options : /\ T!Who(p) = v /\ T!CacheKey(p) = OwnKey(v)
                                /\ T!CacheKey(p) # << >>
      BY <1>2, OwnCall
    <3>2. ~T!Confused(v) /\ ~T!Confused(w)
      BY DEF T!Confused
    <3>3. T!CacheKey(o) # OwnKey(v)
      BY <1>2, <1>6, <3>1, <3>2, KeyTellsWho
    <3>4. T!CacheKey(o) # << >>
      BY <1>2, AskedFacts
    <3>5. QED
      BY <1>1, <1>6, <3>3, <3>4
  <2>2. QED
    BY <1>1, <1>6, <2>1, HomeStays
<1>7. QED
  BY <1>4, <1>5, <1>6

(* What a new subscription starts with.                                     *)
LEMMA FirstOnes ==
    ASSUME TopicInv, NEW o \in T!Options
    PROVE  /\ T!FirstContent(o) \in Seq(Messages)
           /\ \A k \in DOMAIN T!FirstContent(o) :
                  /\ T!FirstContent(o)[k] = <<o.topic, k>>
                  /\ k \in 1..Len(published[o.topic])
           /\ broker # "kafka" => T!FirstContent(o) = << >>
<1>1. o.topic \in Topics
  BY DEF T!Options
<1>2. CASE broker = "kafka"
  <2>1. T!FirstContent(o) = published[o.topic] /\ published[o.topic] \in Seq(Messages)
    BY <1>1, <1>2 DEF T!FirstContent, TopicInv, TopicTypes
  <2>2. QED
    BY <1>1, <1>2, <2>1 DEF TopicInv, LogInv
<1>3. CASE broker # "kafka"
  <2>1. T!FirstContent(o) = << >> /\ << >> \in Seq(Messages)
    BY <1>3 DEF T!FirstContent
  <2>2. QED
    BY <1>3, <2>1
<1>4. QED
  BY <1>2, <1>3

(* A kafka reader takes the place of the session's own ones. *)
LEMMA ReplacedOnes ==
    ASSUME TopicInv
    PROVE  /\ broker # "kafka" => T!Replaced = {} /\ Gone = {}
           /\ broker = "kafka" =>
                  /\ \A n \in DOMAIN subs : n \in T!Replaced <=> n[1] = "adapter"
                  /\ \A w \in DOMAIN owed : w \in Gone <=> w[2] = "own"
<1>1. \A n \in DOMAIN subs : SubInv(n)
  BY DEF TopicInv
<1>2. QED
  BY <1>1 DEF SubInv, T!Replaced, Gone

(* What is created is in order, and what Close has to delete is noted.      *)
LEMMA CreateSubs ==
    ASSUME TopicInv, NEW o \in T!Options, T!Create(o)
    PROVE  TopicTypes' /\ DeleteInv' /\ LooseInv' /\ \A n \in DOMAIN subs' : SubInv(n)'
<1> DEFINE old == DOMAIN subs \ T!Replaced
<1>0. PICK name : name = T!NameFor(o)
  OBVIOUS
<1>1. /\ broker' = broker /\ open' = open /\ sessions' = sessions /\ published' = published
      /\ faults' = faults /\ calls' = calls + 1 /\ readerDead' = FALSE
      /\ call' \in [active : {TRUE}, opts : T!Options, name : Names]
      /\ toDelete' = IF T!Ends(o) = "deleted" THEN toDelete \cup {name} ELSE toDelete
      /\ DOMAIN owed' = (DOMAIN owed \ Gone) \cup {T!Who(o)}
  BY <1>0, CreateEffect
<1>2. /\ DOMAIN subs' = old \cup {name}
      /\ \A n \in old : n # name => subs'[n] = subs[n]
      /\ name \in old => subs'[name] = [subs[name] EXCEPT !.topics = @ \cup {o.topic}]
      /\ name \notin old =>
             subs'[name] = [topics |-> {o.topic}, queue |-> T!FirstContent(o), ends |-> T!Ends(o)]
  BY <1>0, CreateEffect
<1>3. broker \in Brokers /\ calls \in Nat /\ sessions \in Nat /\ o.topic \in Topics
  BY DEF TopicInv, TopicTypes, T!Options
<1>4. /\ name \in Names /\ T!Who(o) \in Whos
      /\ T!Ends(o) \in {"never", "deleted", "session", "call"}
      /\ T!Ends(o) = "deleted" => broker \in Deleting /\ name[1] \in {"random", "adapter"}
      /\ name[1] \in {"random", "call", "link"} => name[2] = calls
      /\ name[1] = "adapter" => name[2] = sessions
      /\ T!Ends(o) = "session" => name[1] = "adapter"
      /\ broker = "mqtt" \/ (broker = "kafka" /\ name[1] = "adapter") => T!Ends(o) = "session"
      /\ broker = "nats" => name[1] = "call"
  BY <1>0, <1>3, AskedFacts
<1>5. /\ IsFiniteSet(DOMAIN subs) /\ DOMAIN subs \subseteq Names
      /\ \A n \in DOMAIN subs : subs[n] \in Subs /\ SubInv(n)
      /\ toDelete \subseteq DOMAIN subs /\ DeleteInv
  BY DEF TopicInv, TopicTypes
<1>6. toDelete \subseteq old
  BY <1>5, ReplacedOnes DEF DeleteInv, Deleting
<1> HIDE DEF old
<1>7. ASSUME NEW n \in old, n # name
      PROVE  subs'[n] \in Subs /\ SubInv(n)'
  <2>1. subs'[n] = subs[n] /\ n \in DOMAIN subs /\ n \in Names
    BY <1>2, <1>5, <1>7 DEF old
  <2>2. QED
    BY <1>1, <1>3, <1>5, <2>1 DEF SubInv, Names
<1>8. ASSUME name \in old
      PROVE  /\ subs'[name] \in Subs /\ SubInv(name)'
             /\ subs'[name].ends = "deleted" /\ name \notin toDelete => name \in Loose
  <2>1. /\ name \in DOMAIN subs /\ subs[name] \in Subs /\ SubInv(name)
    BY <1>5, <1>8 DEF old
  <2>2. subs'[name] = [subs[name] EXCEPT !.topics = @ \cup {o.topic}]
    BY <1>2, <1>8
  <2>3. /\ subs'[name].topics = subs[name].topics \cup {o.topic}
        /\ subs'[name].queue = subs[name].queue /\ subs'[name].ends = subs[name].ends
        /\ subs'[name] \in Subs
    BY <1>3, <2>1, <2>2 DEF Subs
  <2>4. SubInv(name)'
    <3>1. name[1] \in {"random", "call", "link"} => name[2] < calls'
      BY <1>1, <1>3, <1>4
    <3>2. QED
      BY <1>1, <2>1, <2>3, <3>1 DEF SubInv
  <2>5. subs'[name].ends = "deleted" /\ name \notin toDelete => name \in Loose
    BY <2>1, <2>3 DEF Loose
  <2>6. QED
    BY <2>3, <2>4, <2>5
<1>9. ASSUME name \notin old
      PROVE  /\ subs'[name] \in Subs /\ SubInv(name)'
             /\ subs'[name].ends = "deleted" => name \in toDelete'
  <2>1. subs'[name] = [topics |-> {o.topic}, queue |-> T!FirstContent(o), ends |-> T!Ends(o)]
    BY <1>2, <1>9
  <2>2. /\ subs'[name].topics = {o.topic} /\ subs'[name].queue = T!FirstContent(o)
        /\ subs'[name].ends = T!Ends(o) /\ subs'[name] \in Subs
    BY <1>3, <1>4, <2>1, FirstOnes DEF Subs
  <2>3. SubInv(name)'
    <3>1. /\ \A k \in DOMAIN T!FirstContent(o) :
                 /\ T!FirstContent(o)[k] = <<o.topic, k>>
                 /\ k \in 1..Len(published[o.topic])
      BY FirstOnes
    <3>2. name[1] \in {"random", "call", "link"} => name[2] < calls'
      BY <1>1, <1>3, <1>4
    <3>3. name[1] = "adapter" => name[2] <= sessions'
      BY <1>1, <1>3, <1>4
    <3>4. QED
      BY <1>1, <1>4, <2>2, <3>1, <3>2, <3>3 DEF SubInv
  <2>4. subs'[name].ends = "deleted" => name \in toDelete'
    BY <1>1, <2>2
  <2>5. QED
    BY <2>2, <2>3, <2>4
<1>10. \A n \in DOMAIN subs' : subs'[n] \in Subs /\ SubInv(n)'
  BY <1>2, <1>7, <1>8, <1>9
<1>11. TopicTypes'
  <2>1. IsFiniteSet(DOMAIN subs')
    <3>1. IsFiniteSet(old)
      BY <1>5, FS_Subset DEF old
    <3>2. IsFiniteSet(old \cup {name})
      BY <3>1, FS_AddElement
    <3>3. QED
      BY <1>2, <3>2
  <2>2. DOMAIN subs' \subseteq Names /\ toDelete' \subseteq DOMAIN subs'
    BY <1>1, <1>2, <1>4, <1>5, <1>6 DEF old
  <2>3. DOMAIN owed' \subseteq Whos
    BY <1>1, <1>4 DEF TopicInv, TopicTypes
  <2>4. /\ published' \in [Topics -> Seq(Messages)] /\ faults' \in 0..MaxFaults
        /\ open' \in BOOLEAN /\ readerDead' \in BOOLEAN
    BY <1>1 DEF TopicInv, TopicTypes
  <2>5. /\ broker' \in Brokers /\ sessions' \in Nat /\ calls' \in Nat
    BY <1>1, <1>3
  <2>6. call' \in [active : {TRUE}, opts : T!Options, name : Names]
    BY <1>1, Zenon
  <2>7. \A n \in DOMAIN subs' : subs'[n] \in Subs
    BY <1>10
  <2>8. QED
    BY <2>1, <2>2, <2>3, <2>4, <2>5, <2>6, <2>7 DEF TopicTypes
<1>12. DeleteInv'
  BY <1>1, <1>4, <1>5 DEF DeleteInv
<1>13. LooseInv'
  <2>1. Loose' \subseteq Loose
    <3> SUFFICES ASSUME NEW n \in DOMAIN subs', subs'[n].ends = "deleted", n \notin toDelete'
                 PROVE  n \in Loose
      BY DEF Loose
    <3>1. n \notin toDelete
      BY <1>1
    <3>2. CASE n # name
      BY <1>2, <3>1, <3>2 DEF Loose, old
    <3>3. CASE n = name
      BY <1>8, <1>9, <3>1, <3>3
    <3>4. QED
      BY <3>2, <3>3
  <2>2. IsFiniteSet(Loose)
    BY <1>5, FS_Subset DEF Loose
  <2>3. Cardinality(Loose') <= Cardinality(Loose) /\ Cardinality(Loose') \in Nat
        /\ Cardinality(Loose) \in Nat
    BY <2>1, <2>2, FS_Subset, FS_CardinalityType
  <2>4. QED
    BY <1>1, <2>3 DEF TopicInv, TopicTypes, LooseInv
<1>14. QED
  BY <1>10, <1>11, <1>12, <1>13

(* Whoever asks finds in its subscription what it is owed, and so do the    *)
(* others still.                                                            *)
LEMMA CreateFeed ==
    ASSUME TopicInv, NEW o \in T!Options, T!Create(o)
    PROVE  FeedInv'
<1> DEFINE old == DOMAIN subs \ T!Replaced
<1>0. PICK name, w : name = T!NameFor(o) /\ w = T!Who(o)
  OBVIOUS
<1>1. /\ broker' = broker /\ sessions' = sessions /\ open /\ ~call.active /\ ~T!Cached(o)
      /\ call'.active /\ call'.opts = o /\ call'.name = name
      /\ DOMAIN subs' = old \cup {name}
      /\ \A n \in old : n # name => subs'[n] = subs[n]
      /\ name \in old => subs'[name] = [subs[name] EXCEPT !.topics = @ \cup {o.topic}]
      /\ name \notin old =>
             subs'[name] = [topics |-> {o.topic}, queue |-> T!FirstContent(o), ends |-> T!Ends(o)]
  BY <1>0, CreateEffect
<1>2. /\ DOMAIN owed' = (DOMAIN owed \ Gone) \cup {w}
      /\ \A v \in DOMAIN owed \ Gone : owed'[v] = owed[v]
      /\ w \notin DOMAIN owed \ Gone => owed'[w] = T!Range(T!FirstContent(o))
  BY <1>0, CreateEffect
<1>3. /\ broker \in Brokers /\ calls \in Nat /\ sessions \in Nat /\ CacheInv
      /\ DOMAIN owed \subseteq Whos
  BY DEF TopicInv, TopicTypes
<1>4. w \in Whos /\ w[1] = o.topic /\ T!Who(o)' = w
  BY <1>0, <1>1, <1>3, AskedFacts, AskedStays
<1>5. /\ \A v : PerCall(v)' = PerCall(v) /\ Unnamed(v)' = Unnamed(v)
               /\ T!Confused(v)' = T!Confused(v)
      /\ \A v : Calling(v)' <=> v = w
  <2>1. T!Who(call.opts)' = w
    BY <1>1, <1>4
  <2>2. QED
    BY <1>1, <2>1 DEF PerCall, Unnamed, T!Confused, Calling
<1> HIDE DEF old
<1>6. ASSUME ~T!Confused(w)
      PROVE  Feed(w)'
  <2>1. Home(w)' = name
    BY <1>0, <1>6, CreateHomes
  <2>2. /\ ~Fixed(w) => name \notin old
        /\ PerCall(w) /\ ~Unnamed(w) => w \notin DOMAIN owed
        /\ broker = "rabbitmq" /\ w[2] = "own" => w \notin DOMAIN owed
        /\ Fixed(w) => name = Home(w)
        /\ Fixed(w) /\ w \in DOMAIN owed => Feed(w)
        /\ Fixed(w) /\ w \notin DOMAIN owed => Unasked(w)
    BY <1>0, <1>1, <1>6, NameIsOwn DEF old
  <2>3. broker = "kafka" /\ Fixed(w) => (name[1] = "adapter" <=> w[2] = "own")
    BY <1>4, <2>2, MCServicesAssumption DEF Fixed, Home, Whos
  <2>4. broker = "rabbitmq" /\ w[2] = "own" => OwnKey(w)' \in DOMAIN cache'
    BY <1>0, CreateHomes DEF OwnKey
  <2>5. /\ subs'[name].topics = {w[1]}
        /\ broker # "mqtt" => T!Range(subs'[name].queue) \subseteq owed'[w]
        /\ ~Unnamed(w) => owed'[w] \subseteq T!Range(subs'[name].queue)
    <3>1. CASE name \notin old
      <4>1. subs'[name].topics = {w[1]} /\ subs'[name].queue = T!FirstContent(o)
        BY <1>1, <1>4, <3>1
      <4>2. w \notin DOMAIN owed \ Gone \/ Unnamed(w)
        <5> SUFFICES ASSUME w \in DOMAIN owed, w \notin Gone, ~Unnamed(w) PROVE FALSE
          OBVIOUS
        <5>1. Fixed(w)
          BY <2>2 DEF Fixed
        <5>2. name \in DOMAIN subs
          BY <2>2, <5>1 DEF Feed
        <5>3. name \in T!Replaced
          BY <3>1, <5>2 DEF old
        <5>4. QED
          BY <2>3, <5>1, <5>2, <5>3, ReplacedOnes
      <4>3. CASE w \notin DOMAIN owed \ Gone
        BY <1>2, <4>1, <4>3
      <4>4. CASE Unnamed(w)
        <5>1. T!FirstContent(o) = << >>
          BY <4>4, FirstOnes DEF Unnamed
        <5>2. T!Range(T!FirstContent(o)) = {}
          BY <5>1 DEF T!Range
        <5>3. QED
          BY <4>1, <4>4, <5>2
      <4>5. QED
        BY <4>2, <4>3, <4>4
    <3>2. CASE name \in old
      <4>1. name \in DOMAIN subs /\ name \notin T!Replaced /\ Fixed(w)
        BY <2>2, <3>2 DEF old
      <4>2. subs[name] \in Subs
        BY <4>1 DEF TopicInv, TopicTypes
      <4>3. /\ subs'[name].topics = subs[name].topics \cup {w[1]}
            /\ subs'[name].queue = subs[name].queue
        BY <1>1, <1>4, <3>2, <4>2 DEF Subs
      <4>4. CASE w \in DOMAIN owed
        <5>1. Feed(w) /\ name = Home(w)
          BY <2>2, <4>1, <4>4
        <5>2. w \notin Gone
          BY <2>3, <4>1, <4>4, ReplacedOnes
        <5>3. owed'[w] = owed[w]
          BY <1>2, <4>4, <5>2
        <5>4. QED
          BY <4>3, <5>1, <5>3 DEF Feed
      <4>5. CASE w \notin DOMAIN owed
        <5>1. /\ broker \in {"rabbitmq", "awssqs"}
              /\ subs[name].topics = {} /\ subs[name].queue = << >>
          BY <1>1, <2>2, <4>1, <4>5 DEF Unasked
        <5>2. owed'[w] = T!Range(<< >>)
          BY <1>2, <4>5, <5>1, FirstOnes
        <5>3. T!Range(<< >>) = {}
          BY DEF T!Range
        <5>4. QED
          BY <4>3, <5>1, <5>2, <5>3
      <4>6. QED
        BY <4>4, <4>5
    <3>3. QED
      BY <3>1, <3>2
  <2>6. QED
    BY <1>1, <1>5, <2>1, <2>4, <2>5 DEF Feed
<1>7. ASSUME NEW v \in DOMAIN owed', v # w, ~T!Confused(v), ~PerCall(v)
      PROVE  Feed(v)'
  <2>1. v \in DOMAIN owed /\ v \notin Gone /\ v \in Whos /\ owed'[v] = owed[v]
    BY <1>2, <1>3, <1>7
  <2>2. Feed(v)
    BY <1>7, <2>1 DEF TopicInv, FeedInv
  <2>3. broker = "rabbitmq" /\ v[2] = "own" => OwnKey(v) \in DOMAIN cache
    BY <2>2 DEF Feed
  <2>4. /\ Home(v)' = Home(v)
        /\ broker = "rabbitmq" /\ v[2] = "own" => OwnKey(v) \in DOMAIN cache'
    BY <1>0, <1>7, <2>1, <2>3, CreateHomes
  <2>5. Home(v) # name
    BY <1>0, <1>1, <1>7, <2>1, <2>2, <2>3, NameApart DEF Feed
  <2>6. Home(v) \in old
    <3>1. broker = "kafka" => Home(v)[1] # "adapter"
      BY <1>3, <1>7, <2>1, <2>3, HomeKinds, ReplacedOnes
    <3>2. QED
      BY <2>2, <3>1, ReplacedOnes DEF Feed, old
  <2>7. subs'[Home(v)] = subs[Home(v)] /\ Home(v) \in DOMAIN subs'
    BY <1>1, <2>5, <2>6
  <2>8. QED
    BY <1>1, <1>5, <2>1, <2>2, <2>4, <2>7 DEF Feed, OwnKey
<1>8. ASSUME NEW v \in DOMAIN owed', PerCall(v), ~Unnamed(v)
      PROVE  v = w
  BY <1>1, <1>2, <1>8 DEF TopicInv, FeedInv, Calling
<1>9. QED
  BY <1>5, <1>6, <1>7, <1>8 DEF FeedInv

(* What is cached leads to the subscription of who asks. *)
LEMMA CreateCache ==
    ASSUME TopicInv, NEW o \in T!Options, T!Create(o)
    PROVE  CacheInv'
<1>0. PICK name, w : name = T!NameFor(o) /\ w = T!Who(o)
  OBVIOUS
<1>1. /\ broker' = broker /\ sessions' = sessions /\ open /\ ~call.active /\ ~T!Cached(o)
      /\ T!CacheKey(o) = << >> => cache' = cache
      /\ T!CacheKey(o) # << >> =>
             /\ DOMAIN cache' = {T!CacheKey(o)} \cup (IF broker = "kafka" THEN {} ELSE DOMAIN cache)
             /\ cache'[T!CacheKey(o)] = name
             /\ \A k \in DOMAIN cache' : k # T!CacheKey(o) => cache'[k] = cache[k]
      /\ DOMAIN owed' = (DOMAIN owed \ Gone) \cup {w}
  BY <1>0, CreateEffect
<1>2. /\ broker \in Brokers /\ calls \in Nat /\ sessions \in Nat /\ CacheInv
      /\ (readerDead => broker = "kafka")
  BY DEF TopicInv, TopicTypes, SessionInv
<1>3. \A v : PerCall(v)' = PerCall(v) /\ T!Confused(v)' = T!Confused(v)
  BY <1>1 DEF PerCall, Unnamed, T!Confused
<1>4. SUFFICES ASSUME NEW p \in T!Options, T!Cached(p)',
                      NEW q, q = T!Who(p), NEW key, key = T!CacheKey(p)
               PROVE  /\ T!Confused(q) => cache'[key] \in Names /\ cache'[key][1] # "group"
                      /\ ~T!Confused(q) => q \in DOMAIN owed' /\ cache'[key] = Home(q)'
                      /\ cache'[key] \in Names
                      /\ broker = "rabbitmq" /\ q[2] = "own" =>
                             cache'[key][1] = "random" /\ cache'[key][3] = p.topic
  <2> SUFFICES ASSUME NEW p \in T!Options, T!Cached(p)'
               PROVE  /\ T!Confused(T!Who(p))' =>
                             cache'[T!CacheKey(p)'] \in Names /\ cache'[T!CacheKey(p)'][1] # "group"
                      /\ ~T!Confused(T!Who(p))' =>
                             T!Who(p)' \in DOMAIN owed' /\ cache'[T!CacheKey(p)'] = Home(T!Who(p))'
                      /\ cache'[T!CacheKey(p)'] \in Names
                      /\ broker' = "rabbitmq" /\ T!Who(p)'[2] = "own" =>
                             /\ cache'[T!CacheKey(p)'][1] = "random"
                             /\ cache'[T!CacheKey(p)'][3] = p.topic
    BY DEF CacheInv
  <2>1. T!Who(p)' = T!Who(p) /\ T!CacheKey(p)' = T!CacheKey(p)
    BY <1>1, <1>2, AskedStays
  <2>2. PICK q, key : q = T!Who(p) /\ key = T!CacheKey(p)
    OBVIOUS
  <2>3. /\ T!Confused(q) => cache'[key] \in Names /\ cache'[key][1] # "group"
        /\ ~T!Confused(q) => q \in DOMAIN owed' /\ cache'[key] = Home(q)'
        /\ cache'[key] \in Names
        /\ broker = "rabbitmq" /\ q[2] = "own" =>
               cache'[key][1] = "random" /\ cache'[key][3] = p.topic
    BY <1>4, <2>2
  <2>4. /\ T!Who(p)' = q /\ T!CacheKey(p)' = key
        /\ T!Confused(q)' = T!Confused(q)
    BY <1>3, <2>1, <2>2
  <2>5. QED
    BY <1>1, <2>3, <2>4
<1>5. /\ w \in Whos /\ w[1] = o.topic /\ q \in Whos /\ q[1] = p.topic
      /\ name \in Names /\ (T!Confused(w) => name[1] # "group")
      /\ broker = "rabbitmq" /\ w[2] = "own" => name = <<"random", calls, o.topic, "none">>
      /\ broker = "rabbitmq" /\ q[2] = "own" => key = OwnKey(q)
  BY <1>0, <1>2, <1>4, AskedFacts
<1>6. key \in DOMAIN cache' /\ key # << >> /\ broker \notin {"nats", "artemis"} /\ T!CacheKey(o) # << >>
  <2>1. T!CacheKey(p)' = key
    BY <1>1, <1>2, <1>4, AskedStays
  <2>2. QED
    BY <1>2, <1>4, <2>1, AskedFacts DEF T!Cached
<1>7. CASE key = T!CacheKey(o)
  <2>1. cache'[key] = name
    BY <1>1, <1>6, <1>7
  <2>2. ~T!Confused(w) \/ ~T!Confused(q) => q = w
    BY <1>0, <1>2, <1>4, <1>6, <1>7, KeyTellsWho
  <2>3. ~T!Confused(w) => Home(w)' = name
    BY <1>0, CreateHomes
  <2>4. broker = "rabbitmq" => ~T!Confused(q)
    BY DEF T!Confused
  <2>5. QED
    BY <1>1, <1>5, <2>1, <2>2, <2>3, <2>4
<1>8. CASE key # T!CacheKey(o)
  <2>1. broker # "kafka" /\ key \in DOMAIN cache /\ cache'[key] = cache[key] /\ ~readerDead
    BY <1>1, <1>2, <1>6, <1>8
  <2>2. T!Cached(p)
    BY <1>4, <1>6, <2>1 DEF T!Cached
  <2>3. Gone = {}
    BY <2>1, ReplacedOnes
  <2>4. ~T!Confused(q) => Home(q)' = Home(q)
    BY <1>1, <1>5, <1>6, <2>1, HomeStays DEF PerCall, Unnamed
  <2>5. /\ T!Confused(q) => cache[key] \in Names /\ cache[key][1] # "group"
        /\ ~T!Confused(q) => q \in DOMAIN owed /\ cache[key] = Home(q)
        /\ cache[key] \in Names
        /\ broker = "rabbitmq" /\ q[2] = "own" =>
               cache[key][1] = "random" /\ cache[key][3] = p.topic
    BY <1>2, <1>4, <2>1, <2>2 DEF CacheInv
  <2>6. QED
    BY <1>1, <2>1, <2>3, <2>4, <2>5
<1>9. QED
  BY <1>7, <1>8

(* A call that creates its subscription keeps the invariant. *)
LEMMA CreateStep ==
    ASSUME TopicInv, NEW o \in T!Options, T!Create(o)
    PROVE  TopicInv'
<1> DEFINE old == DOMAIN subs \ T!Replaced
<1>0. PICK name, w : name = T!NameFor(o) /\ w = T!Who(o)
  OBVIOUS
<1>1. /\ broker' = broker /\ sessions' = sessions /\ open /\ open' = open /\ ~call.active
      /\ published' = published /\ last' = last /\ readerDead' = FALSE /\ ~T!Cached(o)
      /\ call'.active /\ call'.opts = o /\ call'.name = name
      /\ DOMAIN subs' = old \cup {name}
      /\ \A n \in old : n # name => subs'[n] = subs[n]
      /\ DOMAIN owed' = (DOMAIN owed \ Gone) \cup {w}
  BY <1>0, CreateEffect
<1>2. broker \in Brokers /\ calls \in Nat /\ sessions \in Nat
  BY DEF TopicInv, TopicTypes
<1>3. T!Who(o)' = w
  BY <1>0, <1>1, <1>2, AskedStays
<1>4. \A v : PerCall(v)' = PerCall(v) /\ Fixed(v)' = Fixed(v) /\ T!Confused(v)' = T!Confused(v)
  BY <1>1 DEF PerCall, Unnamed, Fixed, T!Confused
<1> HIDE DEF old
<1>5. UnaskedInv'
  <2> SUFFICES ASSUME NEW v \in Whos, v \notin DOMAIN owed', Fixed(v), ~T!Confused(v),
                      Home(v)' \in DOMAIN subs'
               PROVE  /\ broker \in {"rabbitmq", "awssqs"}
                      /\ subs'[Home(v)'].topics = {} /\ subs'[Home(v)'].queue = << >>
    BY <1>1, <1>4 DEF UnaskedInv, Unasked
  <2>1. Home(v)' = Home(v)
    BY <1>1, HomeStays DEF Fixed
  <2>2. Home(v) # name
    BY <1>0, <1>1, NameApart DEF Fixed
  <2>3. Home(v) \in old /\ Home(v) \in DOMAIN subs /\ subs'[Home(v)] = subs[Home(v)]
    BY <1>1, <2>1, <2>2 DEF old
  <2>4. v \notin DOMAIN owed
    <3> SUFFICES ASSUME v \in Gone PROVE FALSE
      BY <1>1
    <3>1. broker = "kafka" /\ v[2] = "own"
      BY DEF Gone
    <3>2. Home(v)[1] = "adapter"
      BY <3>1, MCServicesAssumption DEF Home, PerCall, Unnamed
    <3>3. QED
      BY <2>3, <3>1, <3>2, ReplacedOnes DEF old
  <2>5. Unasked(v)
    BY <2>4 DEF TopicInv, UnaskedInv
  <2>6. QED
    BY <1>1, <2>1, <2>3, <2>5 DEF Unasked
<1>6. CallInv'
  <2>1. T!Who(call.opts)' = w
    BY <1>1, <1>3
  <2>2. /\ T!Confused(w) => name[1] # "group"
        /\ PerCall(w) => name[1] \in {"call", "link"}
    BY <1>0, <1>2, AskedFacts
  <2>3. ~T!Confused(w) => Home(w)' = name
    BY <1>0, CreateHomes
  <2>4. QED
    BY <1>1, <1>4, <2>1, <2>2, <2>3 DEF CallInv
<1>7. SessionInv' /\ LogInv'
  BY <1>1 DEF TopicInv, SessionInv, LogInv
<1>8. LastInv'
  BY <1>1, <1>4 DEF TopicInv, LastInv, T!OwnTopic
<1>9. QED
  BY <1>5, <1>6, <1>7, <1>8, CreateSubs, CreateFeed, CreateCache DEF TopicInv

(* What a call that fails to create its subscription changes: it may leave  *)
(* an empty one, or have closed a kafka reader.                             *)
LEMMA CreateFailsEffect ==
    ASSUME TopicInv, NEW o \in T!Options, T!CreateFails(o), NEW name, name = T!NameFor(o)
    PROVE  /\ broker' = broker /\ open' = open /\ sessions' = sessions /\ published' = published
           /\ last' = last /\ cache' = cache /\ call' = call /\ calls' = calls + 1
           /\ faults' = faults + 1 /\ faults < MaxFaults
           /\ open /\ ~call.active /\ ~T!Cached(o)
           /\ \/ /\ broker \in {"rabbitmq", "awssqs"} /\ name \notin DOMAIN subs
                 /\ DOMAIN subs' = DOMAIN subs \cup {name}
                 /\ \A n \in DOMAIN subs : subs'[n] = subs[n]
                 /\ subs'[name] = [topics |-> {}, queue |-> << >>, ends |-> T!Ends(o)]
              \/ /\ DOMAIN subs' = DOMAIN subs \ T!Replaced
                 /\ \A n \in DOMAIN subs' : subs'[n] = subs[n]
                 /\ toDelete' = toDelete
           /\ toDelete' = toDelete \/ (T!Ends(o) = "deleted" /\ toDelete' = toDelete \cup {name})
           /\ readerDead' = (readerDead \/ (broker = "kafka" /\ cache # <<>>))
           /\ DOMAIN owed' = DOMAIN owed \ Gone
           /\ \A w \in DOMAIN owed' : owed'[w] = owed[w]
<1> DEFINE unbound == [topics |-> {}, queue |-> <<>>, ends |-> T!Ends(o)]
           halfDone == broker \in {"rabbitmq", "awssqs"} /\ name \notin DOMAIN subs
<1>1. /\ UNCHANGED <<broker, cache, open, sessions, published, call, last>>
      /\ open /\ ~call.active /\ ~T!Cached(o)
      /\ calls' = calls + 1 /\ faults' = faults + 1 /\ faults < MaxFaults
      /\ readerDead' = (readerDead \/ (broker = "kafka" /\ cache # <<>>))
  BY DEF T!CreateFails, T!CanCall
<1>2. /\ subs' = IF halfDone THEN T!With(subs, name, unbound) ELSE T!Without(subs, T!Replaced)
      /\ toDelete' = IF halfDone /\ broker = "awssqs" /\ T!Ends(o) = "deleted"
                     THEN toDelete \cup {name} ELSE toDelete
  BY DEF T!CreateFails
<1>3. owed' = IF broker = "kafka" THEN T!Without(owed, Gone) ELSE owed
  BY DEF T!CreateFails, Gone
<1>4. CASE halfDone
  <2>1. subs' = T!With(subs, name, unbound)
    BY <1>2, <1>4
  <2>2. broker # "kafka" /\ Gone = {}
    BY <1>4, ReplacedOnes
  <2> HIDE DEF unbound
  <2>3. /\ DOMAIN subs' = DOMAIN subs \cup {name} /\ subs'[name] = unbound
        /\ \A n \in DOMAIN subs : subs'[n] = subs[n]
    BY <1>4, <2>1 DEF T!With
  <2>4. QED
    BY <1>1, <1>2, <1>3, <1>4, <2>2, <2>3 DEF unbound
<1>5. CASE ~halfDone
  <2>1. subs' = T!Without(subs, T!Replaced) /\ toDelete' = toDelete
    BY <1>2, <1>5
  <2>2. /\ DOMAIN subs' = DOMAIN subs \ T!Replaced
        /\ \A n \in DOMAIN subs' : subs'[n] = subs[n]
    <3>1. DOMAIN T!Without(subs, T!Replaced) = DOMAIN subs \ T!Replaced
      BY WithoutSome
    <3>2. \A n \in DOMAIN subs \ T!Replaced : T!Without(subs, T!Replaced)[n] = subs[n]
      BY WithoutSome
    <3>3. QED
      BY <2>1, <3>1, <3>2
  <2>3. DOMAIN owed' = DOMAIN owed \ Gone /\ \A w \in DOMAIN owed' : owed'[w] = owed[w]
    <3>1. CASE broker = "kafka"
      <4>1. DOMAIN T!Without(owed, Gone) = DOMAIN owed \ Gone
        BY WithoutSome
      <4>2. \A w \in DOMAIN owed \ Gone : T!Without(owed, Gone)[w] = owed[w]
        BY WithoutSome
      <4>3. QED
        BY <1>3, <3>1, <4>1, <4>2
    <3>2. CASE broker # "kafka"
      BY <1>3, <3>2, ReplacedOnes
    <3>3. QED
      BY <3>1, <3>2
  <2>4. QED
    BY <1>1, <2>1, <2>2, <2>3
<1>6. QED
  BY <1>4, <1>5

(* What a failed call has left is in order, and counted as a failure.       *)
LEMMA CreateFailsSubs ==
    ASSUME TopicInv, NEW o \in T!Options, T!CreateFails(o)
    PROVE  TopicTypes' /\ DeleteInv' /\ LooseInv' /\ \A n \in DOMAIN subs' : SubInv(n)'
<1>0. PICK name : name = T!NameFor(o)
  OBVIOUS
<1>1. /\ broker' = broker /\ sessions' = sessions /\ published' = published
      /\ call' = call /\ calls' = calls + 1 /\ faults' = faults + 1 /\ faults < MaxFaults
      /\ toDelete' = toDelete \/ (T!Ends(o) = "deleted" /\ toDelete' = toDelete \cup {name})
      /\ DOMAIN owed' = DOMAIN owed \ Gone /\ open' = open
      /\ readerDead' = (readerDead \/ (broker = "kafka" /\ cache # <<>>))
  BY <1>0, CreateFailsEffect
<1>2. \/ /\ name \notin DOMAIN subs
         /\ DOMAIN subs' = DOMAIN subs \cup {name}
         /\ \A n \in DOMAIN subs : subs'[n] = subs[n]
         /\ subs'[name] = [topics |-> {}, queue |-> << >>, ends |-> T!Ends(o)]
      \/ /\ DOMAIN subs' = DOMAIN subs \ T!Replaced
         /\ \A n \in DOMAIN subs' : subs'[n] = subs[n]
         /\ toDelete' = toDelete
  BY <1>0, CreateFailsEffect
<1>3. /\ broker \in Brokers /\ calls \in Nat /\ sessions \in Nat
      /\ IsFiniteSet(DOMAIN subs) /\ DOMAIN subs \subseteq Names
      /\ \A n \in DOMAIN subs : subs[n] \in Subs /\ SubInv(n)
      /\ toDelete \subseteq DOMAIN subs /\ DeleteInv
      /\ faults \in 0..MaxFaults /\ MaxFaults \in Nat
  BY MCServicesAssumption DEF TopicInv, TopicTypes
<1>4. /\ name \in Names /\ T!Ends(o) \in {"never", "deleted", "session", "call"}
      /\ T!Ends(o) = "deleted" => broker \in Deleting /\ name[1] \in {"random", "adapter"}
      /\ name[1] \in {"random", "call", "link"} => name[2] = calls
      /\ name[1] = "adapter" => name[2] = sessions
      /\ T!Ends(o) = "session" => name[1] = "adapter"
      /\ broker = "mqtt" \/ (broker = "kafka" /\ name[1] = "adapter") => T!Ends(o) = "session"
      /\ broker = "nats" => name[1] = "call"
  BY <1>0, <1>3, AskedFacts
<1>5. ASSUME NEW n \in DOMAIN subs, subs'[n] = subs[n]
      PROVE  subs'[n] \in Subs /\ SubInv(n)'
  <2>1. n \in Names /\ SubInv(n) /\ subs[n] \in Subs
    BY <1>3
  <2>2. QED
    BY <1>1, <1>3, <1>5, <2>1 DEF SubInv, Names
<1>6. ASSUME subs'[name] = [topics |-> {}, queue |-> << >>, ends |-> T!Ends(o)]
      PROVE  subs'[name] \in Subs /\ SubInv(name)'
  <2>1. /\ subs'[name].topics = {} /\ subs'[name].queue = << >> /\ subs'[name].ends = T!Ends(o)
    BY <1>6
  <2>2. << >> \in Seq(Messages)
    OBVIOUS
  <2>3. subs'[name] \in Subs
    BY <1>4, <1>6, <2>2 DEF Subs
  <2>4. DOMAIN << >> = {}
    OBVIOUS
  <2>5. /\ name[1] \in {"random", "call", "link"} => name[2] < calls'
        /\ name[1] = "adapter" => name[2] <= sessions'
    BY <1>1, <1>3, <1>4
  <2>6. QED
    BY <1>1, <1>4, <2>1, <2>3, <2>4, <2>5 DEF SubInv
<1>7. \A n \in DOMAIN subs' : subs'[n] \in Subs /\ SubInv(n)'
  BY <1>2, <1>5, <1>6
<1>8. TopicTypes'
  <2>1. IsFiniteSet(DOMAIN subs') /\ DOMAIN subs' \subseteq Names
    <3>1. IsFiniteSet(DOMAIN subs \cup {name})
      BY <1>3, FS_AddElement
    <3>2. DOMAIN subs' \subseteq DOMAIN subs \cup {name}
      BY <1>2
    <3>3. IsFiniteSet(DOMAIN subs')
      BY <3>1, <3>2, FS_Subset
    <3>4. QED
      BY <1>3, <1>4, <3>2, <3>3
  <2>2. toDelete' \subseteq DOMAIN subs'
    <3>1. broker = "kafka" => toDelete = {}
      BY <1>3 DEF DeleteInv, Deleting
    <3>2. QED
      BY <1>1, <1>2, <1>3, <3>1, ReplacedOnes
  <2>3. /\ DOMAIN owed' \subseteq Whos /\ published' \in [Topics -> Seq(Messages)]
        /\ open' \in BOOLEAN
    BY <1>1 DEF TopicInv, TopicTypes
  <2>4. readerDead' \in BOOLEAN
    BY <1>1, Zenon DEF TopicInv, TopicTypes
  <2>5. broker' \in Brokers /\ sessions' \in Nat /\ calls' \in Nat /\ faults' \in 0..MaxFaults
    BY <1>1, <1>3
  <2>6. call' = T!NoCall \/ call' \in [active : {TRUE}, opts : T!Options, name : Names]
    BY <1>1, Zenon DEF TopicInv, TopicTypes
  <2>7. \A n \in DOMAIN subs' : subs'[n] \in Subs
    BY <1>7
  <2>8. QED
    BY <2>1, <2>2, <2>3, <2>4, <2>5, <2>6, <2>7 DEF TopicTypes
<1>9. DeleteInv'
  BY <1>1, <1>3, <1>4 DEF DeleteInv
<1>10. LooseInv'
  <2>1. Loose' \subseteq Loose \cup {name}
    BY <1>1, <1>2 DEF Loose
  <2>2. IsFiniteSet(Loose) /\ Cardinality(Loose) \in Nat
    BY <1>3, FS_Subset, FS_CardinalityType DEF Loose
  <2>3. /\ IsFiniteSet(Loose \cup {name})
        /\ Cardinality(Loose \cup {name}) <= Cardinality(Loose) + 1
        /\ Cardinality(Loose \cup {name}) \in Nat
    BY <2>2, FS_AddElement, FS_CardinalityType
  <2>4. Cardinality(Loose') <= Cardinality(Loose) + 1 /\ Cardinality(Loose') \in Nat
    BY <2>1, <2>2, <2>3, FS_Subset, FS_CardinalityType
  <2>5. QED
    BY <1>1, <1>3, <2>2, <2>4 DEF TopicInv, LooseInv
<1>11. QED
  BY <1>7, <1>8, <1>9, <1>10

(* A call that fails to create its subscription keeps the invariant. *)
LEMMA CreateFailsStep ==
    ASSUME TopicInv, NEW o \in T!Options, T!CreateFails(o)
    PROVE  TopicInv'
<1>0. PICK name : name = T!NameFor(o)
  OBVIOUS
<1>1. /\ broker' = broker /\ open' = open /\ sessions' = sessions /\ published' = published
      /\ last' = last /\ cache' = cache /\ call' = call /\ open /\ ~call.active
      /\ readerDead' = (readerDead \/ (broker = "kafka" /\ cache # <<>>))
      /\ DOMAIN owed' = DOMAIN owed \ Gone /\ \A w \in DOMAIN owed' : owed'[w] = owed[w]
  BY <1>0, CreateFailsEffect
<1>2. \/ /\ broker \in {"rabbitmq", "awssqs"} /\ name \notin DOMAIN subs
         /\ DOMAIN subs' = DOMAIN subs \cup {name}
         /\ \A n \in DOMAIN subs : subs'[n] = subs[n]
         /\ subs'[name] = [topics |-> {}, queue |-> << >>, ends |-> T!Ends(o)]
      \/ /\ DOMAIN subs' = DOMAIN subs \ T!Replaced
         /\ \A n \in DOMAIN subs' : subs'[n] = subs[n]
  BY <1>0, CreateFailsEffect
<1>3. /\ broker \in Brokers /\ calls \in Nat /\ sessions \in Nat /\ CacheInv
      /\ DOMAIN owed \subseteq Whos
  BY DEF TopicInv, TopicTypes
<1>4. \A v : /\ PerCall(v)' = PerCall(v) /\ Unnamed(v)' = Unnamed(v) /\ Fixed(v)' = Fixed(v)
             /\ T!Confused(v)' = T!Confused(v) /\ ~Calling(v) /\ ~Calling(v)'
  BY <1>1 DEF PerCall, Unnamed, Fixed, T!Confused, Calling
<1>5. \A v \in Whos : Home(v)' = Home(v)
  BY <1>1, HomeStays
<1>6. FeedInv'
  <2> SUFFICES ASSUME NEW v \in DOMAIN owed'
               PROVE  /\ ~(PerCall(v) /\ ~Unnamed(v))
                      /\ ~T!Confused(v) /\ ~PerCall(v) => Feed(v)'
    BY <1>4 DEF FeedInv
  <2>1. v \in DOMAIN owed /\ v \notin Gone /\ v \in Whos /\ owed'[v] = owed[v]
    BY <1>1, <1>3
  <2>2. ~(PerCall(v) /\ ~Unnamed(v))
    BY <1>4, <2>1 DEF TopicInv, FeedInv
  <2>3. ASSUME ~T!Confused(v), ~PerCall(v)
        PROVE  Feed(v)'
    <3>1. Feed(v)
      BY <2>1, <2>3 DEF TopicInv, FeedInv
    <3>2. broker = "kafka" => Home(v)[1] # "adapter"
      BY <1>3, <2>1, <2>3, <3>1, HomeKinds, ReplacedOnes DEF Feed
    <3>3. Home(v) \in DOMAIN subs' /\ subs'[Home(v)] = subs[Home(v)]
      BY <1>2, <3>1, <3>2, ReplacedOnes DEF Feed
    <3>4. QED
      BY <1>1, <1>4, <1>5, <2>1, <3>1, <3>3 DEF Feed, OwnKey
  <2>4. QED
    BY <2>2, <2>3
<1>7. UnaskedInv'
  <2> SUFFICES ASSUME NEW v \in Whos, v \notin DOMAIN owed', Fixed(v), ~T!Confused(v),
                      Home(v) \in DOMAIN subs'
               PROVE  /\ broker \in {"rabbitmq", "awssqs"}
                      /\ subs'[Home(v)].topics = {} /\ subs'[Home(v)].queue = << >>
    BY <1>1, <1>4, <1>5 DEF UnaskedInv, Unasked
  <2>1. v \notin DOMAIN owed
    <3> SUFFICES ASSUME v \in Gone PROVE FALSE
      BY <1>1
    <3>1. broker = "kafka" /\ v[2] = "own"
      BY DEF Gone
    <3>2. Home(v)[1] = "adapter"
      BY <3>1, MCServicesAssumption DEF Home, PerCall, Unnamed
    <3>3. QED
      BY <1>2, <3>1, <3>2, ReplacedOnes
  <2>2. Unasked(v)
    BY <2>1 DEF TopicInv, UnaskedInv
  <2>3. QED
    BY <1>1, <1>2, <2>2 DEF Unasked
<1>8. \A p \in T!Options : T!Who(p)' = T!Who(p) /\ T!CacheKey(p)' = T!CacheKey(p)
                           /\ T!Who(p) \in Whos
  BY <1>1, <1>3, AskedStays, AskedFacts
<1>9. CacheInv'
  <2>1. cache # << >> /\ ~readerDead' => broker # "kafka"
    BY <1>1
  <2>2. broker # "kafka" => DOMAIN owed' = DOMAIN owed
    BY <1>1, ReplacedOnes
  <2>3. \A p \in T!Options : T!Cached(p)' => T!Cached(p) /\ cache # << >>
    BY <1>1, <1>8 DEF T!Cached
  <2>4. ~readerDead' => ~readerDead
    BY <1>1
  <2>5. QED
    BY <1>1, <1>3, <1>4, <1>5, <1>8, <2>1, <2>2, <2>3, <2>4 DEF CacheInv
<1>10. SessionInv'
  <2>1. broker = "kafka" => \A w \in DOMAIN owed' : w[2] # "own"
    BY <1>1, ReplacedOnes
  <2>2. readerDead => broker = "kafka"
    BY DEF TopicInv, SessionInv
  <2>3. readerDead' => broker = "kafka"
    BY <1>1, <2>2
  <2>4. QED
    BY <1>1, <2>1, <2>3 DEF SessionInv
<1>11. CallInv' /\ LogInv' /\ LastInv'
  BY <1>1, <1>4 DEF TopicInv, CallInv, LogInv, LastInv, T!OwnTopic
<1>12. QED
  BY <1>6, <1>7, <1>9, <1>10, <1>11, CreateFailsSubs DEF TopicInv

(* The end of a call, with a message or without one. *)
Ended == IF T!Ends(call.opts) = "call" THEN {call.name} ELSE {}

EndsCall(w) ==
    /\ broker' = broker /\ cache' = cache /\ toDelete' = toDelete /\ readerDead' = readerDead
    /\ open' = open /\ sessions' = sessions /\ calls' = calls /\ published' = published
    /\ faults' = faults /\ call.active /\ call' = T!NoCall
    /\ DOMAIN subs' = DOMAIN subs \ Ended
    /\ \A n \in DOMAIN subs' :
           \/ subs'[n] = subs[n]
           \/ /\ n = call.name /\ subs[n].queue # << >> /\ ~readerDead
              /\ subs'[n] = [subs[n] EXCEPT !.queue = Tail(@)]
    /\ DOMAIN owed' \subseteq DOMAIN owed \cup {w}
    /\ readerDead => DOMAIN owed' \subseteq DOMAIN owed
    /\ \A v \in DOMAIN owed : v # w => v \in DOMAIN owed' /\ owed'[v] = owed[v]
    /\ IF T!Ends(call.opts) = "call" THEN w \notin DOMAIN owed'
       ELSE w \in DOMAIN owed => w \in DOMAIN owed'

(* A queue without its first message holds what it held, in its order.      *)
LEMMA ShorterQueue ==
    ASSUME NEW q \in Seq(Messages), q # << >>
    PROVE  /\ Tail(q) \in Seq(Messages) /\ 1 \in DOMAIN q /\ Head(q) = q[1]
           /\ \A k \in DOMAIN Tail(q) : k + 1 \in DOMAIN q /\ Tail(q)[k] = q[k + 1]
           /\ \A k \in DOMAIN q : k # 1 => k - 1 \in DOMAIN Tail(q) /\ Tail(q)[k - 1] = q[k]
<1>1. /\ Tail(q) \in Seq(Messages) /\ Head(q) = q[1] /\ Len(q) \in Nat /\ Len(q) # 0
      /\ Len(Tail(q)) = Len(q) - 1 /\ DOMAIN q = 1..Len(q)
  OBVIOUS
<1>2. DOMAIN Tail(q) = 1..(Len(q) - 1)
  BY <1>1
<1>3. \A k \in 1..(Len(q) - 1) : Tail(q)[k] = q[k + 1]
  BY <1>1
<1>4. QED
  BY <1>1, <1>2, <1>3

(* What the end of a call leaves at the broker is in order. *)
LEMMA EndsCallSubs ==
    ASSUME TopicInv, NEW w, w = T!Who(call.opts), EndsCall(w)
    PROVE  TopicTypes' /\ DeleteInv' /\ LooseInv' /\ \A n \in DOMAIN subs' : SubInv(n)'
<1>1. /\ broker' = broker /\ toDelete' = toDelete /\ sessions' = sessions /\ calls' = calls
      /\ published' = published /\ faults' = faults /\ call.active /\ call' = T!NoCall
      /\ open' = open /\ readerDead' = readerDead
      /\ DOMAIN subs' = DOMAIN subs \ Ended /\ DOMAIN owed' \subseteq DOMAIN owed \cup {w}
      /\ \A n \in DOMAIN subs' :
            \/ subs'[n] = subs[n]
            \/ /\ n = call.name /\ subs[n].queue # << >> /\ ~readerDead
               /\ subs'[n] = [subs[n] EXCEPT !.queue = Tail(@)]
  BY DEF EndsCall
<1>2. /\ broker \in Brokers /\ calls \in Nat /\ sessions \in Nat /\ faults \in 0..MaxFaults
      /\ IsFiniteSet(DOMAIN subs) /\ DOMAIN subs \subseteq Names
      /\ \A n \in DOMAIN subs : subs[n] \in Subs /\ SubInv(n)
      /\ toDelete \subseteq DOMAIN subs /\ DeleteInv /\ DOMAIN owed \subseteq Whos
      /\ published \in [Topics -> Seq(Messages)] /\ open \in BOOLEAN /\ readerDead \in BOOLEAN
  BY DEF TopicInv, TopicTypes
<1>3. call.opts \in T!Options
  <2>1. call # T!NoCall
    <3>1. T!NoCall.active = FALSE
      BY DEF T!NoCall
    <3>2. QED
      BY <1>1, <3>1
  <2>2. call \in [active : {TRUE}, opts : T!Options, name : Names]
    BY <2>1, Zenon DEF TopicInv, TopicTypes
  <2>3. QED
    BY <2>2
<1>4. w \in Whos /\ (T!Ends(call.opts) = "call" => PerCall(w))
  BY <1>2, <1>3, AskedFacts
<1>5. toDelete \subseteq DOMAIN subs'
  <2>1. T!Ends(call.opts) = "call" => call.name[1] \in {"call", "link"}
    BY <1>1, <1>4 DEF TopicInv, CallInv
  <2>2. QED
    BY <1>1, <1>2, <2>1 DEF DeleteInv, Ended
<1>6. ASSUME NEW n \in DOMAIN subs'
      PROVE  /\ n \in DOMAIN subs /\ subs'[n] \in Subs /\ SubInv(n)'
             /\ subs'[n].ends = subs[n].ends
  <2>1. n \in DOMAIN subs /\ subs[n] \in Subs /\ SubInv(n)
    BY <1>1, <1>2
  <2>2. CASE subs'[n] = subs[n]
    BY <1>1, <2>1, <2>2 DEF SubInv
  <2>3. CASE subs[n].queue # << >> /\ subs'[n] = [subs[n] EXCEPT !.queue = Tail(@)]
    <3>1. subs[n].queue \in Seq(Messages)
      BY <2>1 DEF Subs
    <3>2. /\ subs'[n].topics = subs[n].topics /\ subs'[n].ends = subs[n].ends
          /\ subs'[n].queue = Tail(subs[n].queue)
      BY <2>1, <2>3 DEF Subs
    <3>3. subs'[n] \in Subs
      BY <2>1, <2>3, <3>1, ShorterQueue DEF Subs
    <3>4. \A k \in DOMAIN subs'[n].queue :
              /\ k + 1 \in DOMAIN subs[n].queue /\ subs'[n].queue[k] = subs[n].queue[k + 1]
              /\ k \in Nat
      BY <2>3, <3>1, <3>2, ShorterQueue
    <3>5. \A k \in DOMAIN subs'[n].queue :
              /\ subs'[n].queue[k][1] \in subs'[n].topics
              /\ subs'[n].queue[k][2] \in 1..Len(published'[subs'[n].queue[k][1]])
      BY <1>1, <2>1, <3>2, <3>4 DEF SubInv
    <3>6. broker # "mqtt" => \A j, k \in DOMAIN subs'[n].queue :
              subs'[n].queue[j] = subs'[n].queue[k] => j = k
      BY <2>1, <3>4 DEF SubInv
    <3>7. QED
      BY <1>1, <2>1, <3>2, <3>3, <3>5, <3>6 DEF SubInv
  <2>4. QED
    BY <1>1, <2>2, <2>3
<1>7. TopicTypes'
  <2>1. IsFiniteSet(DOMAIN subs') /\ DOMAIN subs' \subseteq Names
    BY <1>1, <1>2, FS_Subset
  <2>2. call' = T!NoCall /\ DOMAIN owed' \subseteq Whos
    BY <1>1, <1>2, <1>4
  <2>3. /\ broker' \in Brokers /\ faults' \in 0..MaxFaults /\ sessions' \in Nat /\ calls' \in Nat
        /\ published' \in [Topics -> Seq(Messages)] /\ open' \in BOOLEAN
        /\ readerDead' \in BOOLEAN /\ toDelete' \subseteq DOMAIN subs'
    BY <1>1, <1>2, <1>5
  <2>4. QED
    BY <1>6, <2>1, <2>2, <2>3 DEF TopicTypes
<1>8. DeleteInv'
  BY <1>1, <1>2 DEF DeleteInv
<1>9. LooseInv'
  <2>1. Loose' \subseteq Loose
    BY <1>1, <1>6 DEF Loose
  <2>2. IsFiniteSet(Loose)
    BY <1>2, FS_Subset DEF Loose
  <2>3. /\ Cardinality(Loose') <= Cardinality(Loose) /\ Cardinality(Loose') \in Nat
        /\ Cardinality(Loose) \in Nat
    BY <2>1, <2>2, FS_Subset, FS_CardinalityType
  <2>4. QED
    BY <1>1, <1>2, <2>3 DEF TopicInv, LooseInv
<1>10. QED
  BY <1>6, <1>7, <1>8, <1>9

(* A call that ends keeps the invariant, if its subscriber's feed is in     *)
(* order and the message it has been given was its own.                     *)
LEMMA EndsCallStep ==
    ASSUME TopicInv, NEW w, w = T!Who(call.opts), EndsCall(w), LastInv',
           w \in DOMAIN owed' /\ ~T!Confused(w) /\ ~PerCall(w) => Feed(w)'
    PROVE  TopicInv'
<1>1. /\ broker' = broker /\ cache' = cache /\ toDelete' = toDelete /\ readerDead' = readerDead
      /\ open' = open /\ sessions' = sessions /\ calls' = calls /\ published' = published
      /\ call.active /\ call' = T!NoCall
      /\ DOMAIN subs' = DOMAIN subs \ Ended
      /\ \A n \in DOMAIN subs' :
            \/ subs'[n] = subs[n]
            \/ /\ n = call.name /\ subs[n].queue # << >> /\ ~readerDead
               /\ subs'[n] = [subs[n] EXCEPT !.queue = Tail(@)]
      /\ DOMAIN owed' \subseteq DOMAIN owed \cup {w}
      /\ readerDead => DOMAIN owed' \subseteq DOMAIN owed
      /\ \A v \in DOMAIN owed : v # w => v \in DOMAIN owed' /\ owed'[v] = owed[v]
      /\ IF T!Ends(call.opts) = "call" THEN w \notin DOMAIN owed'
         ELSE w \in DOMAIN owed => w \in DOMAIN owed'
  BY DEF EndsCall
<1>2. /\ broker \in Brokers /\ calls \in Nat /\ sessions \in Nat /\ CacheInv
      /\ DOMAIN owed \subseteq Whos
  BY DEF TopicInv, TopicTypes
<1>3. call.opts \in T!Options /\ call' = [active |-> FALSE] /\ ~call'.active
  <2>1. T!NoCall = [active |-> FALSE] /\ T!NoCall.active = FALSE
    BY DEF T!NoCall
  <2>2. call \in [active : {TRUE}, opts : T!Options, name : Names]
    BY <1>1, <2>1, Zenon DEF TopicInv, TopicTypes
  <2>3. call.opts \in T!Options
    BY <2>2
  <2>4. QED
    BY <1>1, <2>1, <2>3
<1>4. /\ w \in Whos /\ (T!Ends(call.opts) = "call" <=> PerCall(w) /\ ~Unnamed(w))
      /\ PerCall(w) => \A p \in T!Options : T!CacheKey(p) = << >>
  BY <1>2, <1>3, AskedFacts DEF PerCall, Unnamed
<1>5. \A v : /\ PerCall(v)' = PerCall(v) /\ Unnamed(v)' = Unnamed(v) /\ Fixed(v)' = Fixed(v)
             /\ T!Confused(v)' = T!Confused(v) /\ ~Calling(v)' /\ (Calling(v) <=> v = w)
  BY <1>1, <1>3 DEF PerCall, Unnamed, Fixed, T!Confused, Calling
<1>6. \A v \in Whos : ~PerCall(v) => Home(v)' = Home(v)
  BY <1>1, HomeStays
<1>7. T!Confused(w) => call.name[1] # "group"
  BY <1>1 DEF TopicInv, CallInv
<1>8. ASSUME NEW v \in DOMAIN owed, v # w, ~T!Confused(v), ~PerCall(v), Feed(v), ~readerDead
      PROVE  Home(v) # call.name
  <2>1. CASE T!Confused(w)
    <3>1. v \in Whos
      BY <1>2
    <3>2. v[2] \in Groups /\ broker # "mqtt" /\ v[2] \notin {"own", "durable"}
      BY <1>8, <2>1, MCServicesAssumption DEF T!Confused
    <3>3. Home(v)[1] = "group"
      BY <1>8, <3>2 DEF Home
    <3>4. QED
      BY <1>7, <2>1, <3>3
  <2>2. CASE ~T!Confused(w)
    <3>1. w \in DOMAIN owed /\ call.name = Home(w)
      BY <1>1, <1>8, <2>2 DEF TopicInv, CallInv
    <3>2. QED
      BY <1>5, <1>8, <2>2, <3>1, HomesDiffer
  <2>3. QED
    BY <2>1, <2>2
<1>9. ASSUME NEW v \in DOMAIN owed, v # w, ~T!Confused(v), ~PerCall(v), Feed(v)
      PROVE  Home(v) \in DOMAIN subs' /\ subs'[Home(v)] = subs[Home(v)]
  <2>1. CASE ~readerDead
    BY <1>1, <1>8, <1>9, <2>1 DEF Feed, Ended
  <2>2. CASE readerDead
    <3>1. broker = "kafka" /\ T!Ends(call.opts) # "call"
      BY <1>4, <2>2 DEF TopicInv, SessionInv, PerCall, Unnamed
    <3>2. QED
      BY <1>1, <1>9, <2>2, <3>1 DEF Feed, Ended
  <2>3. QED
    BY <2>1, <2>2
<1>10. FeedInv'
  <2> SUFFICES ASSUME NEW v \in DOMAIN owed'
               PROVE  /\ ~(PerCall(v) /\ ~Unnamed(v))
                      /\ ~T!Confused(v) /\ ~PerCall(v) => Feed(v)'
    BY <1>5 DEF FeedInv
  <2>1. CASE v = w
    BY <1>1, <1>4, <2>1
  <2>2. CASE v # w
    <3>1. v \in DOMAIN owed /\ v \in Whos /\ owed'[v] = owed[v]
      BY <1>1, <1>2, <2>2
    <3>2. ~(PerCall(v) /\ ~Unnamed(v))
      BY <1>5, <2>2, <3>1 DEF TopicInv, FeedInv
    <3>3. ASSUME ~T!Confused(v), ~PerCall(v)
          PROVE  Feed(v)'
      <4>1. Feed(v)
        BY <3>1, <3>3 DEF TopicInv, FeedInv
      <4>2. Home(v) \in DOMAIN subs' /\ subs'[Home(v)] = subs[Home(v)]
        BY <1>9, <2>2, <3>1, <3>3, <4>1
      <4>3. Home(v)' = Home(v)
        BY <1>6, <3>1, <3>3
      <4>4. QED
        BY <1>1, <1>5, <3>1, <4>1, <4>2, <4>3 DEF Feed, OwnKey
    <3>4. QED
      BY <3>2, <3>3
  <2>3. QED
    BY <2>1, <2>2
<1>11. UnaskedInv'
  <2> SUFFICES ASSUME NEW v \in Whos, v \notin DOMAIN owed', Fixed(v), ~T!Confused(v),
                      Home(v)' \in DOMAIN subs', open \/ Home(v)'[1] # "adapter"
               PROVE  /\ broker \in {"rabbitmq", "awssqs"}
                      /\ subs'[Home(v)'].topics = {} /\ subs'[Home(v)'].queue = << >>
    BY <1>1, <1>5 DEF UnaskedInv, Unasked
  <2>1. v \notin DOMAIN owed /\ Home(v)' = Home(v)
    BY <1>1, <1>4, <1>6 DEF Fixed
  <2>2. Unasked(v)
    BY <2>1 DEF TopicInv, UnaskedInv
  <2>3. Home(v) \in DOMAIN subs /\ subs[Home(v)].queue = << >>
    BY <1>1, <2>1, <2>2 DEF Unasked
  <2>4. subs'[Home(v)] = subs[Home(v)]
    BY <1>1, <2>1, <2>3
  <2>5. QED
    BY <2>1, <2>2, <2>3, <2>4 DEF Unasked
<1>12. CacheInv'
  <2>1. \A p \in T!Options : /\ T!Who(p)' = T!Who(p) /\ T!CacheKey(p)' = T!CacheKey(p)
                            /\ T!Who(p) \in Whos
    BY <1>1, <1>2, AskedStays, AskedFacts
  <2>2. \A p \in T!Options : T!Cached(p)' => T!Cached(p) /\ broker \notin {"nats", "artemis"}
    BY <1>1, <1>2, <2>1, AskedFacts DEF T!Cached
  <2>3. broker \notin {"nats", "artemis"} => /\ \A v : ~PerCall(v)
                                             /\ DOMAIN owed \subseteq DOMAIN owed'
    BY <1>1, <1>4 DEF PerCall, Unnamed
  <2>4. QED
    BY <1>1, <1>2, <1>5, <1>6, <2>1, <2>2, <2>3 DEF CacheInv
<1>13. SessionInv'
  <2>1. open
    BY <1>1 DEF TopicInv, SessionInv
  <2>2. QED
    BY <1>1, <2>1 DEF TopicInv, SessionInv
<1>14. CallInv' /\ LogInv'
  BY <1>1, <1>3 DEF TopicInv, CallInv, LogInv
<1>15. QED
  BY <1>10, <1>11, <1>12, <1>13, <1>14, EndsCallSubs DEF TopicInv

(* A message is given: the first of the subscription the call reads.        *)
LEMMA GiveStep ==
    ASSUME TopicInv, T!Give
    PROVE  TopicInv'
<1> DEFINE sub == subs[call.name]
           msg == Head(sub.queue)
           due == IF T!Who(call.opts) \in DOMAIN owed THEN owed[T!Who(call.opts)] ELSE {}
           rest == T!With(subs, call.name, [sub EXCEPT !.queue = Tail(@)])
           paid == T!With(owed, T!Who(call.opts), due \ {msg})
<1>0. PICK w : w = T!Who(call.opts)
  OBVIOUS
<1>1. /\ broker' = broker /\ cache' = cache /\ toDelete' = toDelete /\ readerDead' = readerDead
      /\ open' = open /\ sessions' = sessions /\ calls' = calls /\ published' = published
      /\ faults' = faults /\ call.active /\ call' = T!NoCall
      /\ ~readerDead /\ call.name \in DOMAIN subs /\ sub.queue # << >>
      /\ subs' = T!AfterCall(rest)
      /\ last' = [who |-> w, msg |-> msg, due |-> msg \in due]
      /\ owed' = T!Without(paid, T!OwnsCall(call.opts))
  BY <1>0 DEF T!Give, T!Readable
<1>2. /\ broker \in Brokers /\ calls \in Nat /\ sessions \in Nat /\ CacheInv
      /\ DOMAIN owed \subseteq Whos /\ sub \in Subs /\ SubInv(call.name)
  BY <1>1 DEF TopicInv, TopicTypes
<1>3. call.opts \in T!Options /\ ~call'.active
  <2>1. T!NoCall.active = FALSE
    BY DEF T!NoCall
  <2>2. call \in [active : {TRUE}, opts : T!Options, name : Names]
    BY <1>1, <2>1, Zenon DEF TopicInv, TopicTypes
  <2>3. QED
    BY <1>1, <2>1, <2>2
<1>4. w \in Whos /\ (T!Ends(call.opts) = "call" <=> PerCall(w) /\ ~Unnamed(w))
  BY <1>0, <1>2, <1>3, AskedFacts
<1>5. /\ sub.queue \in Seq(Messages) /\ 1 \in DOMAIN sub.queue /\ msg = sub.queue[1]
      /\ \A k \in DOMAIN Tail(sub.queue) : k + 1 \in DOMAIN sub.queue
                                          /\ Tail(sub.queue)[k] = sub.queue[k + 1] /\ k \in Nat
      /\ \A k \in DOMAIN sub.queue : k # 1 => k - 1 \in DOMAIN Tail(sub.queue)
                                          /\ Tail(sub.queue)[k - 1] = sub.queue[k]
  BY <1>1, <1>2, ShorterQueue DEF Subs
<1>6. /\ DOMAIN subs' = DOMAIN subs \ Ended
      /\ \A n \in DOMAIN subs' : n # call.name => subs'[n] = subs[n]
      /\ call.name \in DOMAIN subs' => subs'[call.name] = [sub EXCEPT !.queue = Tail(@)]
  <2>1. /\ DOMAIN rest = DOMAIN subs /\ rest[call.name] = [sub EXCEPT !.queue = Tail(@)]
        /\ \A n \in DOMAIN subs : n # call.name => rest[n] = subs[n]
    BY <1>1 DEF T!With
  <2> HIDE DEF rest, sub
  <2>2. CASE T!Ends(call.opts) = "call"
    <3>1. subs' = T!Without(rest, {call.name}) /\ Ended = {call.name}
      BY <1>1, <2>2 DEF T!AfterCall, Ended
    <3>2. DOMAIN T!Without(rest, {call.name}) = DOMAIN rest \ {call.name}
      BY WithoutSome
    <3>3. \A n \in DOMAIN rest \ {call.name} : T!Without(rest, {call.name})[n] = rest[n]
      BY WithoutSome
    <3>4. QED
      BY <2>1, <3>1, <3>2, <3>3
  <2>3. CASE T!Ends(call.opts) # "call"
    BY <1>1, <2>1, <2>3 DEF T!AfterCall, Ended
  <2>4. QED
    BY <2>2, <2>3
<1>7. /\ DOMAIN owed' = (DOMAIN owed \cup {w})
                          \ (IF T!Ends(call.opts) = "call" THEN {w} ELSE {})
      /\ \A v \in DOMAIN owed : v # w => owed'[v] = owed[v]
      /\ w \in DOMAIN owed' => owed'[w] = due \ {msg}
  <2>1. /\ DOMAIN paid = DOMAIN owed \cup {w} /\ paid[w] = due \ {msg}
        /\ \A v \in DOMAIN owed : v # w => paid[v] = owed[v]
    BY <1>0 DEF T!With
  <2>2. T!OwnsCall(call.opts) = IF T!Ends(call.opts) = "call" THEN {w} ELSE {}
    BY <1>0 DEF T!OwnsCall
  <2> HIDE DEF paid, due, msg
  <2>3. DOMAIN T!Without(paid, T!OwnsCall(call.opts)) = DOMAIN paid \ T!OwnsCall(call.opts)
    BY WithoutSome
  <2>4. \A v \in DOMAIN paid \ T!OwnsCall(call.opts) :
            T!Without(paid, T!OwnsCall(call.opts))[v] = paid[v]
    BY WithoutSome
  <2>5. QED
    BY <1>1, <2>1, <2>2, <2>3, <2>4
<1> HIDE DEF rest, paid
<1>8. EndsCall(w)
  BY <1>1, <1>6, <1>7 DEF EndsCall
<1>9. ~T!Confused(w) => w \in DOMAIN owed /\ call.name = Home(w) /\ Feed(w)
  <2> SUFFICES ASSUME ~T!Confused(w) PROVE w \in DOMAIN owed /\ call.name = Home(w) /\ Feed(w)
    OBVIOUS
  <2>1. w \in DOMAIN owed /\ call.name = Home(w)
    BY <1>0, <1>1 DEF TopicInv, CallInv
  <2>2. Calling(w)
    BY <1>0, <1>1 DEF Calling
  <2>3. QED
    BY <2>1, <2>2 DEF TopicInv, FeedInv
<1>10. T!Confused(w)' = T!Confused(w)
  BY <1>1 DEF T!Confused
<1>11. LastInv'
  <2>1. last'.who = w /\ last'.msg = msg /\ (last'.due <=> msg \in due)
    BY <1>1
  <2>2. CASE T!Confused(w)
    BY <1>1, <1>10, <2>1, <2>2 DEF LastInv
  <2>3. CASE ~T!Confused(w)
    <3>1. msg[1] \in sub.topics /\ sub.topics = {w[1]}
      BY <1>2, <1>5, <1>9, <2>3 DEF SubInv, Feed
    <3>2. broker # "mqtt" => msg \in due
      BY <1>0, <1>5, <1>9, <2>3 DEF Feed, T!Range
    <3>3. QED
      BY <1>1, <2>1, <3>1, <3>2 DEF LastInv, T!OwnTopic
  <2>4. QED
    BY <2>2, <2>3
<1>12. ASSUME w \in DOMAIN owed', ~T!Confused(w), ~PerCall(w)
       PROVE  Feed(w)'
  <2>1. T!Ends(call.opts) # "call" /\ Home(w)' = Home(w)
    BY <1>1, <1>4, <1>12, HomeStays
  <2>2. /\ call.name \in DOMAIN subs' /\ subs'[call.name].topics = sub.topics
        /\ subs'[call.name].queue = Tail(sub.queue)
    BY <1>1, <1>2, <1>6, <2>1 DEF Subs, Ended
  <2>3. owed'[w] = owed[w] \ {msg}
    BY <1>0, <1>7, <1>9, <1>12
  <2>4. broker # "mqtt" => T!Range(Tail(sub.queue)) \subseteq owed[w] \ {msg}
    <3> SUFFICES ASSUME broker # "mqtt", NEW k \in DOMAIN Tail(sub.queue)
                 PROVE  Tail(sub.queue)[k] \in owed[w] /\ Tail(sub.queue)[k] # msg
      BY DEF T!Range
    <3>1. Tail(sub.queue)[k] = sub.queue[k + 1] /\ k + 1 \in DOMAIN sub.queue /\ k + 1 # 1
      <4>1. DOMAIN Tail(sub.queue) = 1..Len(Tail(sub.queue)) /\ Len(Tail(sub.queue)) \in Nat
        BY <1>1, <1>2, ShorterQueue DEF Subs
      <4>2. QED
        BY <1>5, <4>1
    <3>2. sub.queue[k + 1] \in owed[w]
      BY <1>9, <1>12, <3>1 DEF Feed, T!Range
    <3>3. sub.queue[k + 1] # sub.queue[1]
      BY <1>2, <1>5, <3>1 DEF SubInv
    <3>4. QED
      BY <1>5, <3>1, <3>2, <3>3
  <2>5. owed[w] \ {msg} \subseteq T!Range(Tail(sub.queue))
    <3> SUFFICES ASSUME NEW m \in owed[w], m # msg
                 PROVE  m \in T!Range(Tail(sub.queue))
      OBVIOUS
    <3>1. ~Unnamed(w)
      BY <1>12 DEF PerCall
    <3>2. PICK k \in DOMAIN sub.queue : m = sub.queue[k]
      BY <1>9, <1>12, <3>1 DEF Feed, T!Range
    <3>3. k # 1
      BY <1>5, <3>2
    <3>4. QED
      BY <1>5, <3>2, <3>3 DEF T!Range
  <2>6. \A v : Unnamed(v)' = Unnamed(v)
    BY <1>1 DEF Unnamed
  <2>7. QED
    BY <1>1, <1>9, <1>12, <2>1, <2>2, <2>3, <2>4, <2>5, <2>6 DEF Feed, OwnKey
<1>13. QED
  BY <1>0, <1>8, <1>11, <1>12, EndsCallStep

(* A call that is given nothing keeps the invariant. *)
LEMMA GiveNothingStep ==
    ASSUME TopicInv, T!GiveNothing
    PROVE  TopicInv'
<1>0. PICK w : w = T!Who(call.opts)
  OBVIOUS
<1>1. /\ broker' = broker /\ cache' = cache /\ toDelete' = toDelete /\ readerDead' = readerDead
      /\ open' = open /\ sessions' = sessions /\ calls' = calls /\ published' = published
      /\ faults' = faults /\ last' = last /\ call.active /\ call' = T!NoCall
      /\ subs' = T!AfterCall(subs) /\ owed' = T!Without(owed, T!OwnsCall(call.opts))
  BY DEF T!GiveNothing
<1>2. /\ DOMAIN subs' = DOMAIN subs \ Ended /\ \A n \in DOMAIN subs' : subs'[n] = subs[n]
  <2>1. CASE T!Ends(call.opts) = "call"
    <3>1. subs' = T!Without(subs, {call.name}) /\ Ended = {call.name}
      BY <1>1, <2>1 DEF T!AfterCall, Ended
    <3>2. DOMAIN T!Without(subs, {call.name}) = DOMAIN subs \ {call.name}
      BY WithoutSome
    <3>3. \A n \in DOMAIN subs \ {call.name} : T!Without(subs, {call.name})[n] = subs[n]
      BY WithoutSome
    <3>4. QED
      BY <3>1, <3>2, <3>3
  <2>2. CASE T!Ends(call.opts) # "call"
    BY <1>1, <2>2 DEF T!AfterCall, Ended
  <2>3. QED
    BY <2>1, <2>2
<1>3. /\ DOMAIN owed' = DOMAIN owed \ (IF T!Ends(call.opts) = "call" THEN {w} ELSE {})
      /\ \A v \in DOMAIN owed' : owed'[v] = owed[v]
  <2>1. T!OwnsCall(call.opts) = IF T!Ends(call.opts) = "call" THEN {w} ELSE {}
    BY <1>0 DEF T!OwnsCall
  <2>2. DOMAIN T!Without(owed, T!OwnsCall(call.opts)) = DOMAIN owed \ T!OwnsCall(call.opts)
    BY WithoutSome
  <2>3. \A v \in DOMAIN owed \ T!OwnsCall(call.opts) :
            T!Without(owed, T!OwnsCall(call.opts))[v] = owed[v]
    BY WithoutSome
  <2>4. QED
    BY <1>1, <2>1, <2>2, <2>3
<1>4. EndsCall(w)
  BY <1>1, <1>2, <1>3 DEF EndsCall
<1>5. LastInv'
  <2>1. \A v : T!Confused(v)' = T!Confused(v)
    BY <1>1 DEF T!Confused
  <2>2. QED
    BY <1>1, <2>1 DEF TopicInv, LastInv, T!OwnTopic
<1>6. ASSUME w \in DOMAIN owed', ~T!Confused(w), ~PerCall(w)
      PROVE  Feed(w)'
  <2>1. Feed(w) /\ w \in Whos
    BY <1>3, <1>6 DEF TopicInv, TopicTypes, FeedInv
  <2>2. Home(w)' = Home(w)
    BY <1>1, <1>6, <2>1, HomeStays
  <2>3. T!Ends(call.opts) # "call"
    BY <1>3, <1>6
  <2>4. Home(w) \in DOMAIN subs' /\ subs'[Home(w)] = subs[Home(w)]
    BY <1>2, <2>1, <2>3 DEF Feed, Ended
  <2>5. \A v : Unnamed(v)' = Unnamed(v)
    BY <1>1 DEF Unnamed
  <2>6. QED
    BY <1>1, <1>3, <1>6, <2>1, <2>2, <2>4, <2>5 DEF Feed, OwnKey
<1>7. QED
  BY <1>0, <1>4, <1>5, <1>6, EndsCallStep

(* Two sequences, one after the other. *)
LEMMA Joined ==
    ASSUME NEW q \in Seq(Messages), NEW p \in Seq(Messages), NEW r, r = q \o p
    PROVE  /\ r \in Seq(Messages) /\ Len(r) = Len(q) + Len(p) /\ Len(q) \in Nat /\ Len(p) \in Nat
           /\ \A k \in 1..Len(q) : r[k] = q[k]
           /\ \A k \in (Len(q) + 1)..(Len(q) + Len(p)) :
                  r[k] = p[k - Len(q)] /\ k - Len(q) \in DOMAIN p
OBVIOUS

(* A queue with copies of a message more.                                   *)
LEMMA LongerQueue ==
    ASSUME NEW q \in Seq(Messages), NEW m \in Messages,
           NEW p \in Seq(Messages), T!Range(p) \subseteq {m}
    PROVE  /\ q \o p \in Seq(Messages) /\ Len(q \o p) = Len(q) + Len(p)
           /\ \A k \in DOMAIN (q \o p) :
                 \/ k \in DOMAIN q /\ (q \o p)[k] = q[k]
                 \/ (q \o p)[k] = m /\ k \in (Len(q) + 1)..(Len(q) + Len(p))
           /\ T!Range(q \o p) = T!Range(q) \cup (IF Len(p) = 0 THEN {} ELSE {m})
<1>1. PICK r : r = q \o p
  OBVIOUS
<1>2. r \in Seq(Messages) /\ Len(r) = Len(q) + Len(p) /\ Len(q) \in Nat /\ Len(p) \in Nat
  BY <1>1, Joined
<1>3. DOMAIN q = 1..Len(q) /\ DOMAIN r = 1..(Len(q) + Len(p))
  BY <1>2
<1>4. /\ \A k \in 1..Len(q) : r[k] = q[k]
      /\ \A k \in (Len(q) + 1)..(Len(q) + Len(p)) :
             r[k] = p[k - Len(q)] /\ k - Len(q) \in DOMAIN p
  BY <1>1, Joined
<1>5. \A k \in DOMAIN q : k \in DOMAIN r /\ r[k] = q[k]
  BY <1>2, <1>3, <1>4
<1>6. \A k \in (Len(q) + 1)..(Len(q) + Len(p)) : r[k] = m
  BY <1>4 DEF T!Range
<1>7. \A k \in DOMAIN r : \/ k \in DOMAIN q /\ r[k] = q[k]
                          \/ r[k] = m /\ k \in (Len(q) + 1)..(Len(q) + Len(p))
  BY <1>2, <1>3, <1>5, <1>6
<1>8. T!Range(r) = T!Range(q) \cup (IF Len(p) = 0 THEN {} ELSE {m})
  <2>1. T!Range(r) \subseteq T!Range(q) \cup (IF Len(p) = 0 THEN {} ELSE {m})
    BY <1>2, <1>7 DEF T!Range
  <2>2. T!Range(q) \subseteq T!Range(r)
    BY <1>5 DEF T!Range
  <2>3. Len(p) # 0 => m \in T!Range(r)
    <3> SUFFICES ASSUME Len(p) # 0 PROVE m \in T!Range(r)
      OBVIOUS
    <3>1. Len(q) + 1 \in DOMAIN r /\ r[Len(q) + 1] = m
      BY <1>2, <1>3, <1>6
    <3>2. QED
      BY <3>1 DEF T!Range
  <2>4. QED
    BY <2>1, <2>2, <2>3
<1>9. QED
  BY <1>1, <1>2, <1>7, <1>8

(* The instance counts as everybody does. *)
LEMMA SameCount ==
    ASSUME NEW A
    PROVE  T!Cardinality(A) = Cardinality(A)
BY DEF T!Cardinality, Cardinality

(* Each subscription bound to the topic gets the message, and no other one. *)
LEMMA CopiesReach ==
    ASSUME TopicInv, NEW t \in Topics, NEW name \in DOMAIN subs
    PROVE  /\ T!Copies(name, t) \in Nat /\ (T!Copies(name, t) = 0 <=> t \notin subs[name].topics)
           /\ broker # "mqtt" => T!Copies(name, t) <= 1
<1> DEFINE bound == {n \in DOMAIN subs : t \in subs[n].topics}
<1>1. IsFiniteSet(bound)
  BY FS_Subset DEF TopicInv, TopicTypes
<1>2. Cardinality(bound) \in Nat /\ (Cardinality(bound) = 0 <=> bound = {})
  BY <1>1, FS_CardinalityType, FS_EmptySet
<1>3. t \in subs[name].topics => bound # {}
  OBVIOUS
<1>4. T!Copies(name, t) = IF t \notin subs[name].topics THEN 0
                      ELSE IF broker = "mqtt" THEN Cardinality(bound) ELSE 1
  BY SameCount DEF T!Copies
<1> HIDE DEF bound
<1>5. QED
  BY <1>2, <1>3, <1>4

(* A message published keeps the invariant. *)
LEMMA PublishStep ==
    ASSUME TopicInv, NEW t \in Topics, T!Publish(t)
    PROVE  TopicInv'
<1>0. PICK msg : msg = <<t, Len(published[t]) + 1>>
  OBVIOUS
<1>1. /\ broker' = broker /\ cache' = cache /\ toDelete' = toDelete /\ readerDead' = readerDead
      /\ open' = open /\ sessions' = sessions /\ calls' = calls /\ faults' = faults
      /\ call' = call /\ last' = last
      /\ published' = [published EXCEPT ![t] = Append(@, msg)]
      /\ DOMAIN subs' = DOMAIN subs /\ DOMAIN owed' = DOMAIN owed
      /\ \A n \in DOMAIN subs :
            subs'[n] = [subs[n] EXCEPT !.queue = @ \o [k \in 1..T!Copies(n, t) |-> msg]]
      /\ \A w \in DOMAIN owed : owed'[w] = IF w[1] = t THEN owed[w] \cup {msg} ELSE owed[w]
  BY <1>0 DEF T!Publish
<1>2. /\ broker \in Brokers /\ calls \in Nat /\ sessions \in Nat /\ faults \in 0..MaxFaults
      /\ IsFiniteSet(DOMAIN subs) /\ DOMAIN subs \subseteq Names
      /\ \A n \in DOMAIN subs : subs[n] \in Subs /\ SubInv(n)
      /\ toDelete \subseteq DOMAIN subs /\ DOMAIN owed \subseteq Whos
      /\ published \in [Topics -> Seq(Messages)] /\ open \in BOOLEAN /\ readerDead \in BOOLEAN
  BY DEF TopicInv, TopicTypes
<1>3. /\ published[t] \in Seq(Messages) /\ Len(published[t]) \in Nat
      /\ msg \in Messages /\ msg[1] = t /\ msg[2] = Len(published[t]) + 1
  BY <1>0, <1>2 DEF Messages
<1>4. /\ published' \in [Topics -> Seq(Messages)]
      /\ Len(published'[t]) = Len(published[t]) + 1
      /\ \A u \in Topics : u # t => published'[u] = published[u]
  BY <1>1, <1>2, <1>3
<1>5. LogInv'
  <2> SUFFICES ASSUME NEW u \in Topics, NEW k \in DOMAIN published'[u]
               PROVE  published'[u][k] = <<u, k>>
    BY DEF LogInv
  <2>1. \A j \in DOMAIN published[u] : published[u][j] = <<u, j>>
    BY DEF TopicInv, LogInv
  <2>2. CASE u # t
    BY <1>4, <2>1, <2>2
  <2>3. CASE u = t
    <3>1. published'[u] = Append(published[t], msg)
      BY <1>1, <1>2, <2>3
    <3>2. k \in 1..(Len(published[t]) + 1)
      BY <1>3, <3>1
    <3>3. CASE k = Len(published[t]) + 1
      BY <1>0, <1>3, <2>3, <3>1, <3>3
    <3>4. CASE k \in 1..Len(published[t])
      BY <1>3, <2>1, <2>3, <3>1, <3>4
    <3>5. QED
      BY <1>3, <3>2, <3>3, <3>4
  <2>4. QED
    BY <2>2, <2>3
<1>6. ASSUME NEW n \in DOMAIN subs
      PROVE  /\ subs'[n] \in Subs /\ subs'[n].topics = subs[n].topics /\ subs'[n].ends = subs[n].ends
             /\ Len(subs'[n].queue) = Len(subs[n].queue) + T!Copies(n, t)
             /\ \A k \in DOMAIN subs'[n].queue :
                   \/ k \in DOMAIN subs[n].queue /\ subs'[n].queue[k] = subs[n].queue[k]
                   \/ /\ subs'[n].queue[k] = msg
                      /\ k \in (Len(subs[n].queue) + 1)..(Len(subs[n].queue) + T!Copies(n, t))
             /\ T!Range(subs'[n].queue) =
                    T!Range(subs[n].queue) \cup (IF t \in subs[n].topics THEN {msg} ELSE {})
  <2>1. subs[n] \in Subs /\ subs[n].queue \in Seq(Messages)
    BY <1>2 DEF Subs
  <2>2. PICK q : q = subs[n].queue \o [k \in 1..T!Copies(n, t) |-> msg]
    OBVIOUS
  <2>3. subs'[n] = [subs[n] EXCEPT !.queue = q]
    BY <1>1, <2>2
  <2>4. /\ q \in Seq(Messages) /\ Len(q) = Len(subs[n].queue) + T!Copies(n, t)
        /\ \A k \in DOMAIN q :
              \/ k \in DOMAIN subs[n].queue /\ q[k] = subs[n].queue[k]
              \/ q[k] = msg /\ k \in (Len(subs[n].queue) + 1)..(Len(subs[n].queue) + T!Copies(n, t))
        /\ T!Range(q) = T!Range(subs[n].queue) \cup (IF T!Copies(n, t) = 0 THEN {} ELSE {msg})
    <3>1. T!Copies(n, t) \in Nat
      BY CopiesReach
    <3>2. PICK c, old : c = T!Copies(n, t) /\ old = subs[n].queue
      OBVIOUS
    <3>3. c \in Nat /\ old \in Seq(Messages) /\ msg \in Messages /\ q = old \o [k \in 1..c |-> msg]
      BY <1>3, <2>1, <2>2, <3>1, <3>2
    <3>4. PICK p : p = [k \in 1..c |-> msg]
      OBVIOUS
    <3>5. p \in Seq(Messages) /\ Len(p) = c /\ q = old \o p
      <4>1. p \in [1..c -> Messages]
        BY <3>3, <3>4
      <4>2. p \in Seq(Messages)
        BY <3>3, <4>1
      <4>3. QED
        BY <3>3, <3>4, <4>1, <4>2
    <3>6. T!Range(p) \subseteq {msg}
      BY <3>4 DEF T!Range
    <3>7. /\ q \in Seq(Messages) /\ Len(q) = Len(old) + Len(p)
          /\ \A k \in DOMAIN q :
                \/ k \in DOMAIN old /\ q[k] = old[k]
                \/ q[k] = msg /\ k \in (Len(old) + 1)..(Len(old) + Len(p))
          /\ T!Range(q) = T!Range(old) \cup (IF Len(p) = 0 THEN {} ELSE {msg})
      <4>1. old \in Seq(Messages) /\ msg \in Messages /\ p \in Seq(Messages) /\ q = old \o p
        BY <3>3, <3>5
      <4>2. QED
        BY <3>6, <4>1, LongerQueue
    <3>8. QED
      BY <3>2, <3>5, <3>7
  <2>5. /\ subs'[n] \in Subs /\ subs'[n].topics = subs[n].topics /\ subs'[n].ends = subs[n].ends
        /\ subs'[n].queue = q
    BY <2>1, <2>3, <2>4 DEF Subs
  <2>6. QED
    BY <2>4, <2>5, CopiesReach
<1>7. ASSUME NEW n \in DOMAIN subs
      PROVE  SubInv(n)'
  <2>1. SubInv(n) /\ subs[n].queue \in Seq(Messages) /\ subs[n].topics \subseteq Topics
    BY <1>2 DEF Subs
  <2>2. /\ T!Copies(n, t) \in Nat /\ (T!Copies(n, t) = 0 <=> t \notin subs[n].topics)
        /\ broker # "mqtt" => T!Copies(n, t) <= 1
    BY CopiesReach
  <2>3. /\ subs'[n].topics = subs[n].topics /\ subs'[n].ends = subs[n].ends
        /\ \A k \in DOMAIN subs'[n].queue :
              \/ k \in DOMAIN subs[n].queue /\ subs'[n].queue[k] = subs[n].queue[k]
              \/ /\ subs'[n].queue[k] = msg
                 /\ k \in (Len(subs[n].queue) + 1)..(Len(subs[n].queue) + T!Copies(n, t))
    BY <1>6
  <2>4. Len(subs[n].queue) \in Nat /\ DOMAIN subs[n].queue = 1..Len(subs[n].queue)
    BY <2>1
  <2>5. ASSUME NEW k \in DOMAIN subs'[n].queue
        PROVE  /\ subs'[n].queue[k][1] \in subs'[n].topics
               /\ subs'[n].queue[k][2] \in 1..Len(published'[subs'[n].queue[k][1]])
    <3>1. CASE k \in DOMAIN subs[n].queue /\ subs'[n].queue[k] = subs[n].queue[k]
      <4>1. PICK m : m = subs[n].queue[k]
        OBVIOUS
      <4>2. m[1] \in subs[n].topics /\ m[2] \in 1..Len(published[m[1]]) /\ m[1] \in Topics
        BY <2>1, <3>1, <4>1 DEF SubInv
      <4>3. m[2] \in 1..Len(published'[m[1]])
        BY <1>3, <1>4, <4>2
      <4>4. QED
        BY <2>3, <3>1, <4>1, <4>2, <4>3
    <3>2. CASE /\ subs'[n].queue[k] = msg
               /\ k \in (Len(subs[n].queue) + 1)..(Len(subs[n].queue) + T!Copies(n, t))
      <4>1. t \in subs[n].topics
        BY <2>2, <2>4, <3>2
      <4>2. QED
        BY <1>3, <1>4, <2>3, <3>2, <4>1
    <3>3. QED
      BY <2>3, <3>1, <3>2
  <2>6. ASSUME broker # "mqtt", NEW j \in DOMAIN subs'[n].queue, NEW k \in DOMAIN subs'[n].queue,
               subs'[n].queue[j] = subs'[n].queue[k]
        PROVE  j = k
    <3>1. \A i \in DOMAIN subs[n].queue : subs[n].queue[i] # msg
      <4> SUFFICES ASSUME NEW i \in DOMAIN subs[n].queue, subs[n].queue[i] = msg PROVE FALSE
        OBVIOUS
      <4>1. msg[2] \in 1..Len(published[msg[1]])
        BY <2>1 DEF SubInv
      <4>2. QED
        BY <1>3, <4>1
    <3>2. \A i \in (Len(subs[n].queue) + 1)..(Len(subs[n].queue) + T!Copies(n, t)) :
              i = Len(subs[n].queue) + 1
      BY <2>2, <2>4, <2>6
    <3>3. QED
      BY <2>1, <2>3, <2>6, <3>1, <3>2 DEF SubInv
  <2>7. QED
    BY <1>1, <2>1, <2>3, <2>5, <2>6 DEF SubInv
<1>8. TopicTypes'
  <2>1. call' = T!NoCall \/ call' \in [active : {TRUE}, opts : T!Options, name : Names]
    BY <1>1, Zenon DEF TopicInv, TopicTypes
  <2>2. /\ broker' \in Brokers /\ faults' \in 0..MaxFaults /\ sessions' \in Nat /\ calls' \in Nat
        /\ open' \in BOOLEAN /\ readerDead' \in BOOLEAN /\ toDelete' \subseteq DOMAIN subs'
        /\ IsFiniteSet(DOMAIN subs') /\ DOMAIN subs' \subseteq Names /\ DOMAIN owed' \subseteq Whos
        /\ \A n \in DOMAIN subs' : subs'[n] \in Subs
    BY <1>1, <1>2, <1>6
  <2>3. QED
    BY <1>4, <2>1, <2>2 DEF TopicTypes
<1>9. DeleteInv' /\ LooseInv' /\ LastInv' /\ SessionInv'
  <2>1. Loose' = Loose
    BY <1>1, <1>6 DEF Loose
  <2>2. \A v : T!Confused(v)' = T!Confused(v)
    BY <1>1 DEF T!Confused
  <2>3. QED
    BY <1>1, <2>1, <2>2 DEF TopicInv, DeleteInv, LooseInv, LastInv, SessionInv, T!OwnTopic
<1>10. /\ \A p \in T!Options : /\ T!Who(p)' = T!Who(p) /\ T!CacheKey(p)' = T!CacheKey(p)
                              /\ T!Who(p) \in Whos
       /\ T!Who(call.opts)' = T!Who(call.opts) \/ ~call.active
  <2>1. \A p \in T!Options : /\ T!Who(p)' = T!Who(p) /\ T!CacheKey(p)' = T!CacheKey(p)
                            /\ T!Who(p) \in Whos
    BY <1>1, <1>2, AskedStays, AskedFacts
  <2>2. T!NoCall.active = FALSE
    BY DEF T!NoCall
  <2>3. ~call.active \/ call \in [active : {TRUE}, opts : T!Options, name : Names]
    BY <2>2, Zenon DEF TopicInv, TopicTypes
  <2>4. ~call.active \/ call.opts \in T!Options
    BY <2>3
  <2>5. QED
    BY <1>1, <2>1, <2>4
<1>11. \A v : /\ PerCall(v)' = PerCall(v) /\ Unnamed(v)' = Unnamed(v) /\ Fixed(v)' = Fixed(v)
              /\ T!Confused(v)' = T!Confused(v) /\ (Calling(v)' <=> Calling(v))
  BY <1>1, <1>10 DEF PerCall, Unnamed, Fixed, T!Confused, Calling
<1>12. \A v \in Whos : Home(v)' = Home(v)
  BY <1>1, HomeStays
<1>13. ASSUME NEW v \in DOMAIN owed, Feed(v)
       PROVE  Feed(v)'
  <2>1. v \in Whos /\ Home(v)' = Home(v) /\ Home(v) \in DOMAIN subs
    BY <1>2, <1>12, <1>13 DEF Feed
  <2>2. /\ subs'[Home(v)].topics = {v[1]}
        /\ T!Range(subs'[Home(v)].queue) =
               T!Range(subs[Home(v)].queue) \cup (IF v[1] = t THEN {msg} ELSE {})
    BY <1>6, <1>13, <2>1 DEF Feed
  <2>3. owed'[v] = owed[v] \cup (IF v[1] = t THEN {msg} ELSE {})
    BY <1>1
  <2>4. QED
    BY <1>1, <1>11, <1>13, <2>1, <2>2, <2>3 DEF Feed, OwnKey
<1>14. FeedInv'
  BY <1>1, <1>11, <1>13 DEF TopicInv, FeedInv
<1>15. UnaskedInv'
  <2> SUFFICES ASSUME NEW v \in Whos, v \notin DOMAIN owed, Fixed(v), ~T!Confused(v),
                      Home(v) \in DOMAIN subs, open \/ Home(v)[1] # "adapter"
               PROVE  /\ broker \in {"rabbitmq", "awssqs"}
                      /\ subs'[Home(v)].topics = {} /\ subs'[Home(v)].queue = << >>
    BY <1>1, <1>11, <1>12 DEF UnaskedInv, Unasked
  <2>1. /\ broker \in {"rabbitmq", "awssqs"}
        /\ subs[Home(v)].topics = {} /\ subs[Home(v)].queue = << >>
    BY DEF TopicInv, UnaskedInv, Unasked
  <2>2. T!Copies(Home(v), t) = 0
    BY <2>1, CopiesReach
  <2>3. /\ subs'[Home(v)].topics = {} /\ Len(subs'[Home(v)].queue) = 0
        /\ subs'[Home(v)].queue \in Seq(Messages)
    BY <1>6, <2>1, <2>2 DEF Subs
  <2>4. QED
    BY <2>1, <2>3
<1>16. CacheInv'
  <2>1. \A p \in T!Options : T!Cached(p)' => T!Cached(p)
    BY <1>1, <1>10 DEF T!Cached
  <2>2. QED
    BY <1>1, <1>10, <1>11, <1>12, <2>1 DEF TopicInv, CacheInv
<1>17. CallInv'
  <2>1. call.active => T!Who(call.opts) \in Whos
    <3>1. T!NoCall.active = FALSE
      BY DEF T!NoCall
    <3>2. call.active => call \in [active : {TRUE}, opts : T!Options, name : Names]
      BY <3>1, Zenon DEF TopicInv, TopicTypes
    <3>3. call.active => call.opts \in T!Options
      BY <3>2
    <3>4. QED
      BY <1>10, <3>3
  <2>2. QED
    BY <1>1, <1>10, <1>11, <1>12, <2>1 DEF TopicInv, CallInv
<1>18. QED
  BY <1>1, <1>5, <1>7, <1>8, <1>9, <1>14, <1>15, <1>16, <1>17 DEF TopicInv

(* A subscription that outlives the session has a name of its own in every  *)
(* session.                                                                 *)
LEMMA LastingHomes ==
    ASSUME broker \in Brokers, calls \in Nat, sessions \in Nat, CacheInv,
           NEW v \in Whos, ~PerCall(v), v[2] # "own", broker # "mqtt"
    PROVE  Home(v)[1] \in {"group", "durable"}
<1>1. Home(v)[1] \in {"random", "adapter", "durable", "group"}
  BY HomeKinds
<1>2. QED
  BY <1>1, HomeKinds

(* A session that is closed keeps the invariant. *)
LEMMA CloseStep ==
    ASSUME TopicInv, T!Close
    PROVE  TopicInv'
<1> DEFINE mine == {n \in DOMAIN subs : subs[n].ends = "session"}
           left == {w \in DOMAIN owed : w[2] = "own" \/ broker \in {"mqtt", "nats"}}
<1>0. PICK failing \in SUBSET toDelete :
          /\ T!Cardinality(failing) = Cardinality(failing)
          /\ faults + T!Cardinality(failing) <= MaxFaults
          /\ faults' = faults + T!Cardinality(failing)
          /\ subs' = T!Without(subs, (toDelete \ failing) \cup mine)
  BY SameCount DEF T!Close, T!DeletedByClose
<1>1. /\ broker' = broker /\ cache' = << >> /\ toDelete' = {} /\ readerDead' = FALSE
      /\ open /\ ~call.active /\ open' = FALSE /\ sessions' = sessions /\ calls' = calls
      /\ published' = published /\ call' = call /\ last' = last
      /\ owed' = T!Without(owed, left)
  BY DEF T!Close
<1>2. /\ broker \in Brokers /\ calls \in Nat /\ sessions \in Nat /\ faults \in 0..MaxFaults
      /\ IsFiniteSet(DOMAIN subs) /\ DOMAIN subs \subseteq Names /\ CacheInv
      /\ \A n \in DOMAIN subs : subs[n] \in Subs /\ SubInv(n)
      /\ toDelete \subseteq DOMAIN subs /\ DeleteInv /\ DOMAIN owed \subseteq Whos
      /\ published \in [Topics -> Seq(Messages)]
  BY DEF TopicInv, TopicTypes
<1>3. /\ DOMAIN subs' = DOMAIN subs \ ((toDelete \ failing) \cup mine)
      /\ \A n \in DOMAIN subs' : subs'[n] = subs[n]
  <2> DEFINE E == (toDelete \ failing) \cup mine
  <2> HIDE DEF E
  <2>1. DOMAIN T!Without(subs, E) = DOMAIN subs \ E
    BY WithoutSome
  <2>2. \A n \in DOMAIN subs \ E : T!Without(subs, E)[n] = subs[n]
    BY WithoutSome
  <2>3. subs' = T!Without(subs, E)
    BY <1>0 DEF E
  <2>4. QED
    BY <2>1, <2>2, <2>3 DEF E
<1>4. /\ DOMAIN owed' = DOMAIN owed \ left
      /\ \A w \in DOMAIN owed' : owed'[w] = owed[w]
  <2> HIDE DEF left
  <2>1. DOMAIN T!Without(owed, left) = DOMAIN owed \ left
    BY WithoutSome
  <2>2. \A w \in DOMAIN owed \ left : T!Without(owed, left)[w] = owed[w]
    BY WithoutSome
  <2>3. QED
    BY <1>1, <2>1, <2>2
<1>5. /\ IsFiniteSet(failing) /\ Cardinality(failing) \in Nat
      /\ faults' = faults + Cardinality(failing) /\ faults' \in 0..MaxFaults
  <2>1. IsFiniteSet(failing)
    BY <1>2, FS_Subset
  <2>2. Cardinality(failing) \in Nat /\ MaxFaults \in Nat
    BY <2>1, FS_CardinalityType, MCServicesAssumption
  <2>3. QED
    BY <1>0, <1>2, <2>1, <2>2
<1>6. \A n \in DOMAIN subs' : /\ n \in DOMAIN subs /\ subs'[n] = subs[n] /\ SubInv(n)'
                             /\ subs'[n] \in Subs /\ subs[n].ends # "session"
  BY <1>1, <1>2, <1>3 DEF SubInv
<1>7. TopicTypes'
  <2>1. call' = T!NoCall \/ call' \in [active : {TRUE}, opts : T!Options, name : Names]
    BY <1>1, Zenon DEF TopicInv, TopicTypes
  <2>2. IsFiniteSet(DOMAIN subs') /\ DOMAIN subs' \subseteq Names
    BY <1>2, <1>3, FS_Subset
  <2>3. /\ broker' \in Brokers /\ faults' \in 0..MaxFaults /\ sessions' \in Nat /\ calls' \in Nat
        /\ open' \in BOOLEAN /\ readerDead' \in BOOLEAN /\ toDelete' \subseteq DOMAIN subs'
        /\ DOMAIN owed' \subseteq Whos /\ published' \in [Topics -> Seq(Messages)]
    BY <1>1, <1>2, <1>4, <1>5
  <2>4. \A n \in DOMAIN subs' : subs'[n] \in Subs
    BY <1>6
  <2>5. QED
    BY <2>1, <2>2, <2>3, <2>4 DEF TopicTypes
<1>8. DeleteInv' /\ LogInv'
  BY <1>1 DEF TopicInv, DeleteInv, LogInv
<1>9. LooseInv'
  <2>1. Loose' \subseteq Loose \cup failing
    BY <1>1, <1>2, <1>3 DEF Loose
  <2>2. IsFiniteSet(Loose) /\ Cardinality(Loose) \in Nat
    BY <1>2, FS_Subset, FS_CardinalityType DEF Loose
  <2>3. /\ IsFiniteSet(Loose \cup failing) /\ Cardinality(Loose \cup failing) \in Nat
        /\ Cardinality(Loose \cup failing) <= Cardinality(Loose) + Cardinality(failing)
    <3>1. IsFiniteSet(Loose \cap failing) /\ Cardinality(Loose \cap failing) \in Nat
      BY <2>2, FS_Subset, FS_CardinalityType
    <3>2. /\ IsFiniteSet(Loose \cup failing)
          /\ Cardinality(Loose \cup failing) =
                 Cardinality(Loose) + Cardinality(failing) - Cardinality(Loose \cap failing)
      BY <1>5, <2>2, FS_Union
    <3>3. Cardinality(Loose \cup failing) \in Nat
      BY <3>2, FS_CardinalityType
    <3>4. PICK a, b, c, d : /\ a = Cardinality(Loose) /\ b = Cardinality(failing)
                            /\ c = Cardinality(Loose \cap failing)
                            /\ d = Cardinality(Loose \cup failing)
      OBVIOUS
    <3>5. a \in Nat /\ b \in Nat /\ c \in Nat /\ d = a + b - c
      BY <1>5, <2>2, <3>1, <3>2, <3>4
    <3>6. d <= a + b
      BY <3>5
    <3>7. QED
      BY <3>2, <3>3, <3>4, <3>6
  <2>4. Cardinality(Loose') <= Cardinality(Loose \cup failing) /\ Cardinality(Loose') \in Nat
    BY <2>1, <2>3, FS_Subset, FS_CardinalityType
  <2>5. QED
    BY <1>2, <1>5, <2>2, <2>3, <2>4 DEF TopicInv, LooseInv
<1>10. \A v : /\ PerCall(v)' = PerCall(v) /\ Unnamed(v)' = Unnamed(v) /\ Fixed(v)' = Fixed(v)
              /\ T!Confused(v)' = T!Confused(v) /\ ~Calling(v) /\ ~Calling(v)'
  BY <1>1 DEF PerCall, Unnamed, Fixed, T!Confused, Calling
<1>11. FeedInv'
  <2> SUFFICES ASSUME NEW v \in DOMAIN owed'
               PROVE  /\ ~(PerCall(v) /\ ~Unnamed(v))
                      /\ ~T!Confused(v) /\ ~PerCall(v) => Feed(v)'
    BY <1>10 DEF FeedInv
  <2>1. /\ v \in DOMAIN owed /\ v \in Whos /\ owed'[v] = owed[v]
        /\ v[2] # "own" /\ broker \notin {"mqtt", "nats"}
    BY <1>2, <1>4
  <2>2. ~(PerCall(v) /\ ~Unnamed(v))
    BY <1>10, <2>1 DEF TopicInv, FeedInv
  <2>3. ASSUME ~T!Confused(v), ~PerCall(v)
        PROVE  Feed(v)'
    <3>1. Feed(v)
      BY <2>1, <2>3 DEF TopicInv, FeedInv
    <3>2. Home(v)' = Home(v) /\ Home(v)[1] \in {"group", "durable"}
      BY <1>1, <1>2, <2>1, <2>3, HomeStays, LastingHomes
    <3>3. Home(v) \in DOMAIN subs'
      <4>1. Home(v) \notin toDelete
        BY <1>2, <3>2 DEF DeleteInv
      <4>2. Home(v) \notin mine
        BY <1>2, <3>1, <3>2 DEF SubInv, Feed
      <4>3. QED
        BY <1>3, <3>1, <4>1, <4>2 DEF Feed
    <3>4. QED
      BY <1>1, <1>3, <1>10, <2>1, <3>1, <3>2, <3>3 DEF Feed
  <2>4. QED
    BY <2>2, <2>3
<1>12. UnaskedInv'
  <2> SUFFICES ASSUME NEW v \in Whos, v \notin DOMAIN owed', Fixed(v), ~T!Confused(v),
                      Home(v) \in DOMAIN subs', Home(v)[1] # "adapter"
               PROVE  /\ broker \in {"rabbitmq", "awssqs"}
                      /\ subs'[Home(v)].topics = {} /\ subs'[Home(v)].queue = << >>
    <3>1. \A v \in Whos : Fixed(v) => Home(v)' = Home(v)
      BY <1>1, HomeStays DEF Fixed
    <3>2. QED
      BY <1>1, <1>10, <3>1 DEF UnaskedInv, Unasked
  <2>1. v \notin DOMAIN owed
    <3> SUFFICES ASSUME v \in left PROVE FALSE
      BY <1>4
    <3>1. v[2] # "own"
      BY MCServicesAssumption DEF Home, Fixed
    <3>2. CASE broker = "mqtt"
      BY <1>2, <1>6, <3>2 DEF SubInv
    <3>3. CASE broker = "nats"
      <4>1. Home(v)[1] = "call"
        BY <1>2, <1>6, <3>3 DEF SubInv
      <4>2. Home(v)[1] \in {"group", "durable"}
        BY <1>2, <3>1, <3>3, LastingHomes DEF Fixed
      <4>3. QED
        BY <4>1, <4>2
    <3>4. QED
      BY <3>1, <3>2, <3>3
  <2>2. Unasked(v)
    BY <2>1 DEF TopicInv, UnaskedInv
  <2>3. QED
    BY <1>1, <1>6, <2>2 DEF Unasked
<1>13. CacheInv'
  BY <1>1 DEF CacheInv, T!Cached
<1>14. SessionInv'
  BY <1>1, <1>4 DEF SessionInv
<1>15. CallInv' /\ LastInv'
  BY <1>1, <1>10 DEF TopicInv, CallInv, LastInv, T!OwnTopic
<1>16. QED
  BY <1>6, <1>7, <1>8, <1>9, <1>11, <1>12, <1>13, <1>14, <1>15 DEF TopicInv

(* The next session keeps the invariant. *)
LEMMA ReopenStep ==
    ASSUME TopicInv, T!Reopen
    PROVE  TopicInv'
<1>1. /\ broker' = broker /\ subs' = subs /\ cache' = cache /\ toDelete' = toDelete
      /\ readerDead' = readerDead /\ calls' = calls /\ published' = published /\ faults' = faults
      /\ call' = call /\ owed' = owed /\ last' = last
      /\ ~open /\ open' = TRUE /\ sessions' = sessions + 1
  BY DEF T!Reopen
<1>2. /\ broker \in Brokers /\ calls \in Nat /\ sessions \in Nat /\ CacheInv
      /\ \A n \in DOMAIN subs : subs[n] \in Subs /\ SubInv(n)
      /\ DOMAIN owed \subseteq Whos /\ DOMAIN subs \subseteq Names
  BY DEF TopicInv, TopicTypes
<1>3. /\ cache = << >> /\ toDelete = {} /\ ~call.active /\ ~readerDead
      /\ \A w \in DOMAIN owed : w[2] # "own" /\ broker # "mqtt"
  BY <1>1 DEF TopicInv, SessionInv
<1>4. \A v : /\ PerCall(v)' = PerCall(v) /\ Unnamed(v)' = Unnamed(v) /\ Fixed(v)' = Fixed(v)
             /\ T!Confused(v)' = T!Confused(v) /\ ~Calling(v) /\ ~Calling(v)'
  BY <1>1, <1>3 DEF PerCall, Unnamed, Fixed, T!Confused, Calling
<1>5. TopicTypes'
  <2>1. call' = T!NoCall \/ call' \in [active : {TRUE}, opts : T!Options, name : Names]
    BY <1>1, Zenon DEF TopicInv, TopicTypes
  <2>2. open' \in BOOLEAN /\ sessions' \in Nat
    BY <1>1, <1>2
  <2>3. QED
    BY <1>1, <2>1, <2>2 DEF TopicInv, TopicTypes
<1>6. LogInv' /\ DeleteInv' /\ LooseInv' /\ LastInv'
  BY <1>1, <1>4 DEF TopicInv, LogInv, DeleteInv, LooseInv, Loose, LastInv, T!OwnTopic
<1>7. \A n \in DOMAIN subs' : SubInv(n)'
  BY <1>1, <1>2 DEF SubInv, Names
<1>8. FeedInv'
  <2> SUFFICES ASSUME NEW v \in DOMAIN owed
               PROVE  /\ ~(PerCall(v) /\ ~Unnamed(v))
                      /\ ~T!Confused(v) /\ ~PerCall(v) => Feed(v)'
    BY <1>1, <1>4 DEF FeedInv
  <2>1. ~(PerCall(v) /\ ~Unnamed(v))
    BY <1>4 DEF TopicInv, FeedInv
  <2>2. ASSUME ~T!Confused(v), ~PerCall(v)
        PROVE  Feed(v)'
    <3>1. Feed(v) /\ v \in Whos
      BY <1>2, <2>2 DEF TopicInv, FeedInv
    <3>2. Home(v)' = Home(v)
      BY <1>1, <1>2, <1>3, <2>2, <3>1, HomeStays, LastingHomes
    <3>3. QED
      BY <1>1, <1>3, <1>4, <3>1, <3>2 DEF Feed
  <2>3. QED
    BY <2>1, <2>2
<1>9. UnaskedInv'
  <2> SUFFICES ASSUME NEW v \in Whos, v \notin DOMAIN owed, Fixed(v), ~T!Confused(v),
                      Home(v)' \in DOMAIN subs
               PROVE  /\ broker \in {"rabbitmq", "awssqs"}
                      /\ subs[Home(v)'].topics = {} /\ subs[Home(v)'].queue = << >>
    BY <1>1, <1>4 DEF UnaskedInv, Unasked
  <2>1. Home(v)[1] # "adapter"
    <3> SUFFICES ASSUME Home(v)[1] = "adapter" PROVE FALSE
      OBVIOUS
    <3>1. v[2] = "own" \/ broker = "mqtt"
      BY <1>2, LastingHomes DEF Fixed
    <3>2. v[2] \in Groups \cup {"own"} \/ broker # "mqtt"
      BY HomeKinds, <1>2 DEF Whos, Fixed, Home
    <3>3. Home(v)'[1] = "adapter" /\ Home(v)'[2] = sessions + 1
      BY <1>1, <3>1, <3>2, MCServicesAssumption DEF Home, Fixed, PerCall, Unnamed
    <3>4. QED
      BY <1>2, <3>3 DEF SubInv
  <2>2. Home(v)' = Home(v)
    BY <1>1, <2>1, HomeStays DEF Fixed
  <2>3. Unasked(v)
    BY DEF TopicInv, UnaskedInv
  <2>4. QED
    BY <2>1, <2>2, <2>3 DEF Unasked
<1>10. CacheInv'
  BY <1>1, <1>3 DEF CacheInv, T!Cached
<1>11. SessionInv' /\ CallInv'
  BY <1>1, <1>3 DEF TopicInv, SessionInv, CallInv
<1>12. QED
  BY <1>5, <1>6, <1>7, <1>8, <1>9, <1>10, <1>11 DEF TopicInv

(* Every step keeps the invariant. *)
LEMMA TopicStep == TopicInv /\ [T!Next]_(T!vars) => TopicInv'
<1> SUFFICES ASSUME TopicInv, [T!Next]_(T!vars) PROVE TopicInv'
  OBVIOUS
<1>1. CASE UNCHANGED T!vars
  <2>1. /\ broker' = broker /\ subs' = subs /\ cache' = cache /\ toDelete' = toDelete
        /\ readerDead' = readerDead /\ open' = open /\ sessions' = sessions /\ calls' = calls
        /\ published' = published /\ faults' = faults /\ call' = call /\ owed' = owed
        /\ last' = last
    BY <1>1 DEF T!vars
  <2>2. broker \in Brokers
    BY DEF TopicInv, TopicTypes
  <2>3. \A o \in T!Options : /\ T!Who(o)' = T!Who(o) /\ T!CacheKey(o)' = T!CacheKey(o)
                             /\ T!Cached(o)' = T!Cached(o)
    BY <2>1, <2>2, AskedStays DEF T!Cached
  <2>4. \A v : /\ PerCall(v)' = PerCall(v) /\ Unnamed(v)' = Unnamed(v) /\ Fixed(v)' = Fixed(v)
               /\ T!Confused(v)' = T!Confused(v) /\ Home(v)' = Home(v)
    BY <2>1 DEF PerCall, Unnamed, Fixed, T!Confused, Home, OwnKey
  <2>5. call.active => call.opts \in T!Options
    <3>1. T!NoCall.active = FALSE
      BY DEF T!NoCall
    <3>2. QED
      BY <3>1 DEF TopicInv, TopicTypes
  <2>6. \A v : Calling(v)' = Calling(v)
    BY <2>1, <2>3, <2>5 DEF Calling
  <2>7. TopicTypes'
    BY <2>1 DEF TopicInv, TopicTypes, T!NoCall
  <2>8. LogInv' /\ DeleteInv' /\ LooseInv' /\ LastInv' /\ SessionInv'
    BY <2>1, <2>4 DEF TopicInv, LogInv, DeleteInv, LooseInv, Loose, LastInv, T!OwnTopic, SessionInv
  <2>9. \A n \in DOMAIN subs' : SubInv(n)'
    BY <2>1 DEF TopicInv, SubInv
  <2>10. FeedInv' /\ UnaskedInv'
    BY <2>1, <2>4, <2>6 DEF TopicInv, FeedInv, Feed, UnaskedInv, Unasked, OwnKey
  <2>11. CacheInv'
    BY <2>1, <2>3, <2>4 DEF TopicInv, CacheInv
  <2>12. CallInv'
    BY <2>1, <2>3, <2>4, <2>5 DEF TopicInv, CallInv
  <2>13. QED
    BY <2>7, <2>8, <2>9, <2>10, <2>11, <2>12 DEF TopicInv
<1>2. ASSUME NEW o \in T!Options, T!UseCached(o) \/ T!Create(o) \/ T!CreateFails(o)
      PROVE  TopicInv'
  BY <1>2, UseCachedStep, CreateStep, CreateFailsStep
<1>3. CASE T!Give \/ T!GiveNothing
  BY <1>3, GiveStep, GiveNothingStep
<1>4. ASSUME NEW t \in Topics, T!Publish(t)
      PROVE  TopicInv'
  BY <1>4, PublishStep
<1>5. CASE T!Close \/ T!Reopen
  BY <1>5, CloseStep, ReopenStep
<1>6. QED
  BY <1>1, <1>2, <1>3, <1>4, <1>5 DEF T!Next

(* What the invariant says of a closed session: all that Close was to       *)
(* delete is gone, but what a failed call has cost it.                      *)
LEMMA TopicInvCleans == TopicInv => T!NoLeftovers
<1> SUFFICES ASSUME TopicInv, ~open
             PROVE  T!Cardinality({n \in DOMAIN subs : subs[n].ends = "deleted"}) <= faults
  BY DEF T!NoLeftovers
<1>1. Loose = {n \in DOMAIN subs : subs[n].ends = "deleted"}
  BY DEF TopicInv, SessionInv, Loose
<1>2. T!Cardinality(Loose) = Cardinality(Loose)
  BY SameCount
<1>3. QED
  BY <1>1, <1>2 DEF TopicInv, LooseInv

(* The subscription that a call with these options reads, or will read, is  *)
(* that of who asks.                                                        *)
LEMMA ReadsHome ==
    ASSUME TopicInv, NEW o \in T!Options, T!Who(o) \in DOMAIN owed, ~T!Confused(T!Who(o)),
           ~readerDead, ~Unnamed(T!Who(o))
    PROVE  T!ReadBy(o) = Home(T!Who(o)) /\ Feed(T!Who(o))
<1>1. PICK w : w = T!Who(o)
  OBVIOUS
<1>2. /\ broker \in Brokers /\ calls \in Nat /\ sessions \in Nat /\ w \in Whos
  BY <1>1 DEF TopicInv, TopicTypes
<1>3. PerCall(w) => Calling(w)
  BY <1>1 DEF TopicInv, FeedInv
<1>4. Feed(w)
  BY <1>1, <1>3 DEF TopicInv, FeedInv
<1>5. CASE Calling(w)
  <2>1. T!ReadBy(o) = call.name
    BY <1>1, <1>5 DEF T!ReadBy, Calling
  <2>2. call.name = Home(w)
    BY <1>1, <1>5 DEF TopicInv, CallInv, Calling
  <2>3. QED
    BY <1>1, <1>4, <2>1, <2>2
<1>6. CASE ~Calling(w) /\ T!Cached(o)
  <2>1. T!ReadBy(o) = cache[T!CacheKey(o)]
    BY <1>1, <1>6 DEF T!ReadBy, Calling
  <2>2. cache[T!CacheKey(o)] = Home(w)
    BY <1>1, <1>6 DEF TopicInv, CacheInv
  <2>3. QED
    BY <1>1, <1>4, <2>1, <2>2
<1>7. CASE ~Calling(w) /\ ~T!Cached(o)
  <2>1. T!ReadBy(o) = T!NameFor(o)
    BY <1>1, <1>7 DEF T!ReadBy, Calling
  <2>2. Fixed(w)
    <3>1. ~PerCall(w)
      BY <1>3, <1>7
    <3>2. ~(broker = "rabbitmq" /\ w[2] = "own")
      <4> SUFFICES ASSUME broker = "rabbitmq" /\ w[2] = "own" PROVE FALSE
        OBVIOUS
      <4>1. T!CacheKey(o) = OwnKey(w)
        BY <1>1, <1>2, AskedFacts
      <4>2. T!CacheKey(o) # << >>
        BY <4>1 DEF OwnKey
      <4>3. OwnKey(w) \in DOMAIN cache
        BY <1>4 DEF Feed
      <4>4. QED
        BY <1>7, <4>1, <4>2, <4>3 DEF T!Cached
    <3>3. QED
      BY <3>1, <3>2 DEF Fixed
  <2>3. T!NameFor(o) = Home(w)
    BY <1>1, <1>2, <2>2, AskedFacts
  <2>4. QED
    BY <1>1, <1>4, <2>1, <2>3
<1>8. QED
  BY <1>5, <1>6, <1>7

(* What the invariant says of what subscribers are given. *)
LEMMA TopicInvFeeds == TopicInv => T!OwnFeed
<1> SUFFICES ASSUME TopicInv PROVE T!OwnFeed
  OBVIOUS
<1>1. T!TypeOK
  BY DEF TopicInv, TopicTypes, T!TypeOK, Subs
<1>2. T!ReadsItsOwn
  BY <1>1 DEF TopicInv, LastInv, T!ReadsItsOwn
<1>3. T!NothingMissed
  <2> SUFFICES ASSUME NEW o \in T!Options, T!Who(o) \in DOMAIN owed, ~T!Confused(T!Who(o)),
                      ~readerDead, ~(broker = "artemis" /\ ~T!Grouped(o))
               PROVE  /\ T!ReadBy(o) \in DOMAIN subs
                      /\ owed[T!Who(o)] \subseteq T!Range(subs[T!ReadBy(o)].queue)
    BY DEF T!NothingMissed
  <2>1. ~Unnamed(T!Who(o))
    <3> SUFFICES ASSUME broker = "artemis" PROVE T!Who(o)[2] # "durable"
      BY DEF Unnamed
    <3>1. o.group # "none" /\ o.group \in Groups
      BY DEF T!Grouped, T!Options
    <3>2. T!Who(o)[2] \in {o.group, "own"} \/ T!Ends(o) = "call"
      BY DEF T!Who, T!Grouped
    <3>3. T!Ends(o) = "call" => T!Who(o)[2] = "own"
      BY DEF T!Who
    <3>4. QED
      BY <3>1, <3>2, <3>3, MCServicesAssumption
  <2>2. T!ReadBy(o) = Home(T!Who(o)) /\ Feed(T!Who(o))
    BY <2>1, ReadsHome
  <2>3. QED
    BY <2>1, <2>2 DEF Feed
<1>4. QED
  BY <1>2, <1>3 DEF T!OwnFeed

(* The topic adapters (broker/*/topic_adapter.go): a subscriber is given    *)
(* what was published to its topic since it first asked, nothing else and   *)
(* nothing twice, and what it is still owed is in the subscription that it  *)
(* reads next.                                                              *)
THEOREM FeedsAreOwn == T!Spec => []OwnFeed
<1>1. TopicInv => OwnFeed
  BY TopicInvFeeds DEF OwnFeed
<1>2. QED
  BY <1>1, TopicInit, TopicStep, PTL DEF T!Spec

(* Close (broker/*/topic_adapter.go): a closed session leaves no more       *)
(* ephemeral subscriptions behind than calls to the broker have failed.     *)
THEOREM SessionsCleanUp == T!Spec => []NoLeftovers
<1>1. TopicInv => NoLeftovers
  BY TopicInvCleans DEF NoLeftovers
<1>2. QED
  BY <1>1, TopicInit, TopicStep, PTL DEF T!Spec
----------------------------------------------------------------------------
(* The management commands.                                                  *)
(*                                                                           *)
(* That a command which reports success has done what it says rests on how   *)
(* its requests are ordered: all but the last only read, so that nothing has *)
(* been changed as long as there is more than one left, and the last is what *)
(* the command says.  Four commands make or undo two things, one after the   *)
(* other, and each has a shape of its own.  A failure that is ignored is     *)
(* only ever that of a request that reads.                                   *)

(* The commands whose requests only read, but for the last, which does what *)
(* the command says.  The others make two changes, or look before each one. *)
Stepwise ==
    {<<"gcp", "create_queue">>, <<"gcp", "delete_queue">>, <<"gcp", "create_topic">>,
     <<"kafka", "update_topic">>}

(* A request that changes nothing.                                          *)
Reads(r) == r.do \in {"find", "see"}

(* The settings of any broker's objects.                                    *)
SettingKeys == {"filter", "limit", "partitions", "config", "dispatch"}

(* What a command may ask for.                                              *)
Requests ==
    [do : {"find", "see", "check", "add", "ensure", "remove", "drop", "clear", "drain",
           "set", "grow"},
     part : {"queue", "topic", "binding", "sub", "address", "group", "none"} \cup SettingKeys,
     lax : BOOLEAN, trusts : BOOLEAN]

(* Request r is what the command says, and no more.                         *)
DoesIt(v, r) ==
    /\ r.do \in {"find", "see", "add", "ensure", "remove", "drop", "clear", "set"}
    /\ r.lax => Reads(r)
    /\ Reads(r) => ~M!Creates(v) /\ M!About(v) = {}
    /\ r.do \in {"add", "ensure"} => M!Creates(v) /\ M!About(v) = M!With(r.part)
    /\ r.do \in {"remove", "drop"} => ~M!Creates(v) /\ M!About(v) = M!With(r.part)
    /\ r.do \in {"clear", "set"} => ~M!Creates(v) /\ M!About(v) = {}
    /\ M!Emptied(v) = IF r.do = "clear" THEN {r.part} ELSE {}
    /\ M!SetBy(v) = IF r.do = "set" THEN {r.part} ELSE {}
    /\ r.do = "clear" => r.part \in M!Parts[managed]
    /\ r.do = "set" => r.part \in SettingKeys
    /\ r.do = "set" /\ r.part = "limit" => v = "update_limit"

(* Requests that read come first.  A purge that counts asks for the queue   *)
(* it empties, and update-queue reads the filter.                           *)
InOrder(v, todo) ==
    /\ \A i \in 1..(Len(todo) - 1) : Reads(todo[i])
    /\ DoesIt(v, todo[Len(todo)])
    /\ v \in {"purge", "purge_subscription"} /\ managed # "gcp" =>
           /\ M!Emptied(v) = {"queue"}
           /\ \A i \in 1..(Len(todo) - 1) : todo[i].part = "queue"
    /\ v = "update_limit" =>
           /\ Len(todo) <= 3
           /\ \A i \in 1..(Len(todo) - 1) :
                  todo[i] \in {M!Find("queue"), M!Trusting(M!Find("queue"))}

(* A request adds only what the broker has.                                 *)
Known(r) == r.do \in {"check", "add", "ensure"} => M!With(r.part) \subseteq M!Parts[managed]

(* The plan of command v is what v says.                                    *)
PlanFits(v, plan) ==
    /\ plan \in Seq(Requests) /\ plan # <<>>
    /\ \A i \in DOMAIN plan : Known(plan[i])
    /\ <<managed, v>> \notin M!KnownDeviations \cup Stepwise => InOrder(v, plan)
    /\ <<managed, v>> = <<"gcp", "create_queue">> =>
           plan = <<M!AddUnlessThere("topic"), M!AddUnlessThere("sub")>>
    /\ <<managed, v>> = <<"gcp", "delete_queue">> => plan = <<M!Remove("sub"), M!Remove("topic")>>
    /\ <<managed, v>> = <<"gcp", "create_topic">> => plan = <<M!AddUnlessThere("topic")>>
    /\ <<managed, v>> = <<"kafka", "update_topic">> =>
           plan = <<M!Grow("partitions"), M!Set("config")>>
    /\ v = "update_limit" => Len(plan) = 3

(* A request whose answer is trusted is that request.                       *)
LEMMA Trusted ==
    ASSUME NEW r \in Requests
    PROVE  /\ M!Trusting(r) \in Requests
           /\ M!Trusting(r).do = r.do /\ M!Trusting(r).part = r.part
           /\ M!Trusting(r).lax = r.lax
  BY DEF M!Trusting, Requests

(* What rabbitmq's commands ask for is what they say. *)
LEMMA RabbitmqFits ==
    ASSUME managed = "rabbitmq", NEW v \in DOMAIN M!RabbitmqPlan
    PROVE  PlanFits(v, M!RabbitmqPlan[v])
<1> USE DEF M!RabbitmqPlan, PlanFits, InOrder, DoesIt, Known, Reads, Requests, SettingKeys,
    M!Request, M!Find, M!Glimpse, M!See, M!AddUnlessThere, M!Add, M!Ensure, M!Remove, M!Drop,
    M!Clear, M!Drain, M!Set, M!Grow, M!With, M!Parts, M!QueueParts, M!About, M!Emptied, M!SetBy,
    M!Creates, Stepwise, M!KnownDeviations
<1>1. CASE v = "create_queue"
  BY <1>1
<1>2. CASE v = "delete_queue"
  BY <1>2
<1>3. CASE v = "purge"
  BY <1>3
<1>4. CASE v = "stats"
  BY <1>4
<1>5. CASE v = "create_topic"
  BY <1>5
<1>6. CASE v = "delete_topic"
  BY <1>6
<1>7. CASE v = "bind"
  BY <1>7
<1>8. CASE v = "unbind"
  BY <1>8
<1>9. CASE v = "list"
  BY <1>9
<1>10. QED
  BY <1>1, <1>2, <1>3, <1>4, <1>5, <1>6, <1>7, <1>8, <1>9

(* What redis's commands ask for is what they say. *)
LEMMA RedisFits ==
    ASSUME managed = "redis", NEW v \in DOMAIN M!RedisPlan
    PROVE  PlanFits(v, M!RedisPlan[v])
<1>1. CASE v \in {"create_queue", "delete_queue", "create_topic", "delete_topic"}
  <2> USE DEF M!RedisPlan, PlanFits, InOrder, DoesIt, Known, Reads, Requests, SettingKeys,
      M!Request, M!Find, M!Glimpse, M!See, M!AddUnlessThere, M!Add, M!Ensure, M!Remove, M!Drop,
      M!Clear, M!Drain, M!Set, M!Grow, M!With, M!Parts, M!QueueParts, M!About, M!Emptied,
      M!SetBy, M!Creates, Stepwise, M!KnownDeviations
  <2>1. CASE v = "create_queue"
    BY <2>1
  <2>2. CASE v = "delete_queue"
    BY <2>2
  <2>3. CASE v = "create_topic"
    BY <2>3
  <2>4. CASE v = "delete_topic"
    BY <2>4
  <2>5. QED
    BY <1>1, <2>1, <2>2, <2>3, <2>4
<1>2. CASE v = "purge"
  <2> DEFINE plan == <<M!Count("queue"), M!Drop("queue")>>
  <2>1. M!RedisPlan[v] = plan /\ Len(plan) = 2 /\ DOMAIN plan = 1..2
    BY <1>2 DEF M!RedisPlan
  <2>2. plan[1] = M!Count("queue") /\ plan[2] = M!Drop("queue")
    OBVIOUS
  <2>3. M!Drop("queue") \in Requests /\ M!Count("queue") \in Requests
    BY DEF M!Drop, M!Count, M!Request, Requests, SettingKeys
  <2>4. plan \in Seq(Requests) /\ plan # <<>>
    BY <2>3
  <2>5. \A r \in {M!Drop("queue"), M!Count("queue")} : Known(r)
    BY DEF M!Drop, M!Count, M!Request, Known, M!With, M!Parts
  <2> HIDE DEF plan
  <2>6. \A i \in DOMAIN plan : Known(plan[i])
    BY <2>1, <2>2, <2>5
  <2>7. QED
    BY <1>2, <2>1, <2>4, <2>6 DEF PlanFits, Stepwise, M!KnownDeviations, plan
<1>3. CASE v = "stats"
  <2> DEFINE plan == <<M!Count("queue"), M!Glimpse("queue")>>
  <2>1. M!RedisPlan[v] = plan /\ Len(plan) = 2 /\ DOMAIN plan = 1..2
    BY <1>3 DEF M!RedisPlan
  <2>2. plan[1] = M!Count("queue") /\ plan[2] = M!Glimpse("queue")
    OBVIOUS
  <2>3. M!Count("queue") \in Requests /\ M!Glimpse("queue") \in Requests
    BY DEF M!Glimpse, M!Find, M!Request, M!Count, Requests, SettingKeys
  <2>4. plan \in Seq(Requests) /\ plan # <<>>
    BY <2>3
  <2>5. \A r \in {M!Count("queue"), M!Glimpse("queue")} : Known(r)
    BY DEF M!Glimpse, M!Find, M!Request, M!Count, Known, M!With, M!Parts
  <2> HIDE DEF plan
  <2>6. \A i \in DOMAIN plan : Known(plan[i])
    BY <2>1, <2>2, <2>5
  <2>7. DoesIt(v, M!Glimpse("queue"))
    BY <1>3
    DEF M!Glimpse, M!Find, M!Request, M!Count, DoesIt, Reads, M!About, M!Emptied, M!SetBy, M!Creates,
        M!QueueParts, M!Parts, SettingKeys
  <2>8. InOrder(v, plan)
    BY <1>3, <2>1, <2>2, <2>7 DEF InOrder, M!Glimpse, M!Find, M!Request, M!Count, Reads, M!Emptied
  <2>9. QED
    BY <1>3, <2>1, <2>4, <2>6, <2>8 DEF PlanFits
<1>4. CASE v = "list"
  <2> DEFINE plan == <<M!See, M!Glimpse("queue")>>
  <2>1. M!RedisPlan[v] = plan /\ Len(plan) = 2 /\ DOMAIN plan = 1..2
    BY <1>4 DEF M!RedisPlan
  <2>2. plan[1] = M!See /\ plan[2] = M!Glimpse("queue")
    OBVIOUS
  <2>3. M!Glimpse("queue") \in Requests /\ M!See \in Requests
    BY DEF M!Glimpse, M!Find, M!Request, M!See, Requests, SettingKeys
  <2>4. plan \in Seq(Requests) /\ plan # <<>>
    BY <2>3
  <2>5. \A r \in {M!Glimpse("queue"), M!See} : Known(r)
    BY DEF M!Glimpse, M!Find, M!Request, M!See, Known, M!With, M!Parts
  <2> HIDE DEF plan
  <2>6. \A i \in DOMAIN plan : Known(plan[i])
    BY <2>1, <2>2, <2>5
  <2>7. DoesIt(v, M!Glimpse("queue"))
    BY <1>4
    DEF M!Glimpse, M!Find, M!Request, M!See, DoesIt, Reads, M!About, M!Emptied, M!SetBy, M!Creates,
        M!QueueParts, M!Parts, SettingKeys
  <2>8. InOrder(v, plan)
    BY <1>4, <2>1, <2>2, <2>7 DEF InOrder, M!Glimpse, M!Find, M!Request, M!See, Reads, M!Emptied
  <2>9. QED
    BY <1>4, <2>1, <2>4, <2>6, <2>8 DEF PlanFits
<1>5. QED
  BY <1>1, <1>2, <1>3, <1>4 DEF M!RedisPlan

(* What awssqs's commands ask for is what they say. *)
LEMMA AwsFits ==
    ASSUME managed = "awssqs", NEW v \in DOMAIN M!AwsPlan
    PROVE  PlanFits(v, M!AwsPlan[v])
<1>1. CASE v \in {"create_queue", "delete_queue", "stats", "create_topic", "delete_topic"}
  <2> USE DEF M!AwsPlan, PlanFits, InOrder, DoesIt, Known, Reads, Requests, SettingKeys,
      M!Request, M!Find, M!Glimpse, M!See, M!AddUnlessThere, M!Add, M!Ensure, M!Remove, M!Drop,
      M!Clear, M!Drain, M!Set, M!Grow, M!With, M!Parts, M!QueueParts, M!About, M!Emptied,
      M!SetBy, M!Creates, Stepwise, M!KnownDeviations
  <2>1. CASE v = "create_queue"
    BY <2>1
  <2>2. CASE v = "delete_queue"
    BY <2>2
  <2>3. CASE v = "stats"
    BY <2>3
  <2>4. CASE v = "create_topic"
    BY <2>4
  <2>5. CASE v = "delete_topic"
    BY <2>5
  <2>6. QED
    BY <1>1, <2>1, <2>2, <2>3, <2>4, <2>5
<1>2. CASE v = "purge"
  <2> DEFINE plan == <<M!Ensure("queue"), M!Glimpse("queue"), M!Clear("queue")>>
  <2>1. M!AwsPlan[v] = plan /\ Len(plan) = 3 /\ DOMAIN plan = 1..3
    BY <1>2 DEF M!AwsPlan
  <2>2. /\ plan[1] = M!Ensure("queue")
        /\ plan[2] = M!Glimpse("queue")
        /\ plan[3] = M!Clear("queue")
    OBVIOUS
  <2>3. /\ M!Clear("queue") \in Requests
        /\ M!Ensure("queue") \in Requests
        /\ M!Glimpse("queue") \in Requests
    BY DEF M!Clear, M!Ensure, M!Glimpse, M!Find, M!Request, Requests, SettingKeys
  <2>4. plan \in Seq(Requests) /\ plan # <<>>
    BY <2>3
  <2>5. \A r \in {M!Clear("queue"), M!Ensure("queue"), M!Glimpse("queue")} : Known(r)
    BY DEF M!Clear, M!Ensure, M!Glimpse, M!Find, M!Request, Known, M!With, M!Parts
  <2> HIDE DEF plan
  <2>6. \A i \in DOMAIN plan : Known(plan[i])
    BY <2>1, <2>2, <2>5
  <2>7. QED
    BY <1>2, <2>1, <2>4, <2>6 DEF PlanFits, Stepwise, M!KnownDeviations, plan
<1>3. CASE v = "list"
  <2> DEFINE plan == <<M!See, M!Glimpse("queue"), M!See, M!Glimpse("topic")>>
  <2>1. M!AwsPlan[v] = plan /\ Len(plan) = 4 /\ DOMAIN plan = 1..4
    BY <1>3 DEF M!AwsPlan
  <2>2. /\ plan[1] = M!See
        /\ plan[2] = M!Glimpse("queue")
        /\ plan[3] = M!See
        /\ plan[4] = M!Glimpse("topic")
    OBVIOUS
  <2>3. /\ M!Glimpse("queue") \in Requests
        /\ M!Glimpse("topic") \in Requests
        /\ M!See \in Requests
    BY DEF M!Glimpse, M!Find, M!Request, M!See, Requests, SettingKeys
  <2>4. plan \in Seq(Requests) /\ plan # <<>>
    BY <2>3
  <2>5. \A r \in {M!Glimpse("queue"), M!Glimpse("topic"), M!See} : Known(r)
    BY DEF M!Glimpse, M!Find, M!Request, M!See, Known, M!With, M!Parts
  <2> HIDE DEF plan
  <2>6. \A i \in DOMAIN plan : Known(plan[i])
    BY <2>1, <2>2, <2>5
  <2>7. DoesIt(v, M!Glimpse("topic"))
    BY <1>3
    DEF M!Glimpse, M!Find, M!Request, M!See, DoesIt, Reads, M!About, M!Emptied, M!SetBy, M!Creates,
        M!QueueParts, M!Parts, SettingKeys
  <2>8. InOrder(v, plan)
    BY <1>3, <2>1, <2>2, <2>7 DEF InOrder, M!Glimpse, M!Find, M!Request, M!See, Reads, M!Emptied
  <2>9. QED
    BY <1>3, <2>1, <2>4, <2>6, <2>8 DEF PlanFits
<1>4. QED
  BY <1>1, <1>2, <1>3 DEF M!AwsPlan

(* What azuresb's commands ask for is what they say. *)
LEMMA AzureFits ==
    ASSUME managed = "azuresb", NEW v \in DOMAIN M!AzurePlan
    PROVE  PlanFits(v, M!AzurePlan[v])
<1>1. CASE v \in {"create_queue", "delete_queue", "create_topic", "delete_topic", "stats"}
  <2> USE DEF M!AzurePlan, PlanFits, InOrder, DoesIt, Known, Reads, Requests, SettingKeys,
      M!Request, M!Find, M!Glimpse, M!See, M!AddUnlessThere, M!Add, M!Ensure, M!Remove, M!Drop,
      M!Clear, M!Drain, M!Set, M!Grow, M!With, M!Parts, M!QueueParts, M!About, M!Emptied,
      M!SetBy, M!Creates, Stepwise, M!KnownDeviations
  <2>1. CASE v = "create_queue"
    BY <2>1
  <2>2. CASE v = "delete_queue"
    BY <2>2
  <2>3. CASE v = "create_topic"
    BY <2>3
  <2>4. CASE v = "delete_topic"
    BY <2>4
  <2>5. CASE v = "stats"
    BY <2>5
  <2>6. QED
    BY <1>1, <2>1, <2>2, <2>3, <2>4, <2>5
<1>2. CASE v = "purge"
  <2> DEFINE plan == <<M!Glimpse("queue"), M!Drain("queue")>>
  <2>1. M!AzurePlan[v] = plan /\ Len(plan) = 2 /\ DOMAIN plan = 1..2
    BY <1>2 DEF M!AzurePlan
  <2>2. plan[1] = M!Glimpse("queue") /\ plan[2] = M!Drain("queue")
    OBVIOUS
  <2>3. M!Drain("queue") \in Requests /\ M!Glimpse("queue") \in Requests
    BY DEF M!Drain, M!Glimpse, M!Find, M!Request, Requests, SettingKeys
  <2>4. plan \in Seq(Requests) /\ plan # <<>>
    BY <2>3
  <2>5. \A r \in {M!Drain("queue"), M!Glimpse("queue")} : Known(r)
    BY DEF M!Drain, M!Glimpse, M!Find, M!Request, Known, M!With, M!Parts
  <2> HIDE DEF plan
  <2>6. \A i \in DOMAIN plan : Known(plan[i])
    BY <2>1, <2>2, <2>5
  <2>7. QED
    BY <1>2, <2>1, <2>4, <2>6 DEF PlanFits, Stepwise, M!KnownDeviations, plan
<1>3. CASE v = "purge_subscription"
  <2> DEFINE plan == <<M!Glimpse("sub"), M!Drain("sub")>>
  <2>1. M!AzurePlan[v] = plan /\ Len(plan) = 2 /\ DOMAIN plan = 1..2
    BY <1>3 DEF M!AzurePlan
  <2>2. plan[1] = M!Glimpse("sub") /\ plan[2] = M!Drain("sub")
    OBVIOUS
  <2>3. M!Drain("sub") \in Requests /\ M!Glimpse("sub") \in Requests
    BY DEF M!Drain, M!Glimpse, M!Find, M!Request, Requests, SettingKeys
  <2>4. plan \in Seq(Requests) /\ plan # <<>>
    BY <2>3
  <2>5. \A r \in {M!Drain("sub"), M!Glimpse("sub")} : Known(r)
    BY DEF M!Drain, M!Glimpse, M!Find, M!Request, Known, M!With, M!Parts
  <2> HIDE DEF plan
  <2>6. \A i \in DOMAIN plan : Known(plan[i])
    BY <2>1, <2>2, <2>5
  <2>7. QED
    BY <1>3, <2>1, <2>4, <2>6 DEF PlanFits, Stepwise, M!KnownDeviations, plan
<1>4. CASE v = "list"
  <2> DEFINE plan == <<M!See, M!Glimpse("queue"), M!See, M!Glimpse("topic")>>
  <2>1. M!AzurePlan[v] = plan /\ Len(plan) = 4 /\ DOMAIN plan = 1..4
    BY <1>4 DEF M!AzurePlan
  <2>2. /\ plan[1] = M!See
        /\ plan[2] = M!Glimpse("queue")
        /\ plan[3] = M!See
        /\ plan[4] = M!Glimpse("topic")
    OBVIOUS
  <2>3. /\ M!Glimpse("queue") \in Requests
        /\ M!Glimpse("topic") \in Requests
        /\ M!See \in Requests
    BY DEF M!Glimpse, M!Find, M!Request, M!See, Requests, SettingKeys
  <2>4. plan \in Seq(Requests) /\ plan # <<>>
    BY <2>3
  <2>5. \A r \in {M!Glimpse("queue"), M!Glimpse("topic"), M!See} : Known(r)
    BY DEF M!Glimpse, M!Find, M!Request, M!See, Known, M!With, M!Parts
  <2> HIDE DEF plan
  <2>6. \A i \in DOMAIN plan : Known(plan[i])
    BY <2>1, <2>2, <2>5
  <2>7. DoesIt(v, M!Glimpse("topic"))
    BY <1>4
    DEF M!Glimpse, M!Find, M!Request, M!See, DoesIt, Reads, M!About, M!Emptied, M!SetBy, M!Creates,
        M!QueueParts, M!Parts, SettingKeys
  <2>8. InOrder(v, plan)
    BY <1>4, <2>1, <2>2, <2>7 DEF InOrder, M!Glimpse, M!Find, M!Request, M!See, Reads, M!Emptied
  <2>9. QED
    BY <1>4, <2>1, <2>4, <2>6, <2>8 DEF PlanFits
<1>5. QED
  BY <1>1, <1>2, <1>3, <1>4 DEF M!AzurePlan

(* What gcp's commands ask for is what they say. *)
LEMMA GcpFits ==
    ASSUME managed = "gcp", NEW v \in DOMAIN M!GcpPlan
    PROVE  PlanFits(v, M!GcpPlan[v])
<1>1. CASE v \in {"delete_topic", "purge_subscription"}
  <2> USE DEF M!GcpPlan, PlanFits, InOrder, DoesIt, Known, Reads, Requests, SettingKeys,
      M!Request, M!Find, M!Glimpse, M!See, M!AddUnlessThere, M!Add, M!Ensure, M!Remove, M!Drop,
      M!Clear, M!Drain, M!Set, M!Grow, M!With, M!Parts, M!QueueParts, M!About, M!Emptied,
      M!SetBy, M!Creates, Stepwise, M!KnownDeviations
  <2>1. CASE v = "delete_topic"
    BY <2>1
  <2>2. CASE v = "purge_subscription"
    BY <2>2
  <2>3. QED
    BY <1>1, <2>1, <2>2
<1>2. CASE v = "create_queue"
  <2> DEFINE plan == <<M!AddUnlessThere("topic"), M!AddUnlessThere("sub")>>
  <2>1. M!GcpPlan[v] = plan /\ Len(plan) = 2 /\ DOMAIN plan = 1..2
    BY <1>2 DEF M!GcpPlan
  <2>2. plan[1] = M!AddUnlessThere("topic") /\ plan[2] = M!AddUnlessThere("sub")
    OBVIOUS
  <2>3. /\ M!AddUnlessThere("sub") \in Requests
        /\ M!AddUnlessThere("topic") \in Requests
    BY DEF M!AddUnlessThere, M!Request, Requests, SettingKeys
  <2>4. plan \in Seq(Requests) /\ plan # <<>>
    BY <2>3
  <2>5. \A r \in {M!AddUnlessThere("sub"), M!AddUnlessThere("topic")} : Known(r)
    BY DEF M!AddUnlessThere, M!Request, Known, M!With, M!Parts
  <2> HIDE DEF plan
  <2>6. \A i \in DOMAIN plan : Known(plan[i])
    BY <2>1, <2>2, <2>5
  <2>7. QED
    BY <1>2, <2>1, <2>4, <2>6 DEF PlanFits, Stepwise, M!KnownDeviations, plan
<1>3. CASE v = "delete_queue"
  <2> DEFINE plan == <<M!Remove("sub"), M!Remove("topic")>>
  <2>1. M!GcpPlan[v] = plan /\ Len(plan) = 2 /\ DOMAIN plan = 1..2
    BY <1>3 DEF M!GcpPlan
  <2>2. plan[1] = M!Remove("sub") /\ plan[2] = M!Remove("topic")
    OBVIOUS
  <2>3. M!Remove("sub") \in Requests /\ M!Remove("topic") \in Requests
    BY DEF M!Remove, M!Request, Requests, SettingKeys
  <2>4. plan \in Seq(Requests) /\ plan # <<>>
    BY <2>3
  <2>5. \A r \in {M!Remove("sub"), M!Remove("topic")} : Known(r)
    BY DEF M!Remove, M!Request, Known, M!With, M!Parts
  <2> HIDE DEF plan
  <2>6. \A i \in DOMAIN plan : Known(plan[i])
    BY <2>1, <2>2, <2>5
  <2>7. QED
    BY <1>3, <2>1, <2>4, <2>6 DEF PlanFits, Stepwise, M!KnownDeviations, plan
<1>4. CASE v = "create_topic"
  <2> DEFINE plan == <<M!AddUnlessThere("topic")>>
  <2>1. M!GcpPlan[v] = plan /\ Len(plan) = 1 /\ DOMAIN plan = 1..1
    BY <1>4 DEF M!GcpPlan
  <2>2. plan[1] = M!AddUnlessThere("topic")
    OBVIOUS
  <2>3. M!AddUnlessThere("topic") \in Requests
    BY DEF M!AddUnlessThere, M!Request, Requests, SettingKeys
  <2>4. plan \in Seq(Requests) /\ plan # <<>>
    BY <2>3
  <2>5. \A r \in {M!AddUnlessThere("topic")} : Known(r)
    BY DEF M!AddUnlessThere, M!Request, Known, M!With, M!Parts
  <2> HIDE DEF plan
  <2>6. \A i \in DOMAIN plan : Known(plan[i])
    BY <2>1, <2>2, <2>5
  <2>7. QED
    BY <1>4, <2>1, <2>4, <2>6 DEF PlanFits, Stepwise, M!KnownDeviations, plan
<1>5. CASE v = "purge"
  <2> DEFINE plan == <<M!Clear("sub")>>
  <2>1. M!GcpPlan[v] = plan /\ Len(plan) = 1 /\ DOMAIN plan = 1..1
    BY <1>5 DEF M!GcpPlan
  <2>2. plan[1] = M!Clear("sub")
    OBVIOUS
  <2>3. M!Clear("sub") \in Requests
    BY DEF M!Clear, M!Request, Requests, SettingKeys
  <2>4. plan \in Seq(Requests) /\ plan # <<>>
    BY <2>3
  <2>5. \A r \in {M!Clear("sub")} : Known(r)
    BY DEF M!Clear, M!Request, Known, M!With, M!Parts
  <2> HIDE DEF plan
  <2>6. \A i \in DOMAIN plan : Known(plan[i])
    BY <2>1, <2>2, <2>5
  <2>7. DoesIt(v, M!Clear("sub"))
    BY <1>5
    DEF M!Clear, M!Request, DoesIt, Reads, M!About, M!Emptied, M!SetBy, M!Creates, M!QueueParts,
        M!Parts, SettingKeys
  <2>8. InOrder(v, plan)
    BY <1>5, <2>1, <2>2, <2>7 DEF InOrder, M!Clear, M!Request, Reads, M!Emptied
  <2>9. QED
    BY <1>5, <2>1, <2>4, <2>6, <2>8 DEF PlanFits
<1>6. CASE v = "list"
  <2> DEFINE plan == <<M!See, M!Glimpse("topic"), M!See>>
  <2>1. M!GcpPlan[v] = plan /\ Len(plan) = 3 /\ DOMAIN plan = 1..3
    BY <1>6 DEF M!GcpPlan
  <2>2. plan[1] = M!See /\ plan[2] = M!Glimpse("topic") /\ plan[3] = M!See
    OBVIOUS
  <2>3. M!Glimpse("topic") \in Requests /\ M!See \in Requests
    BY DEF M!Glimpse, M!Find, M!Request, M!See, Requests, SettingKeys
  <2>4. plan \in Seq(Requests) /\ plan # <<>>
    BY <2>3
  <2>5. \A r \in {M!Glimpse("topic"), M!See} : Known(r)
    BY DEF M!Glimpse, M!Find, M!Request, M!See, Known, M!With, M!Parts
  <2> HIDE DEF plan
  <2>6. \A i \in DOMAIN plan : Known(plan[i])
    BY <2>1, <2>2, <2>5
  <2>7. DoesIt(v, M!See)
    BY <1>6
    DEF M!Glimpse, M!Find, M!Request, M!See, DoesIt, Reads, M!About, M!Emptied, M!SetBy, M!Creates,
        M!QueueParts, M!Parts, SettingKeys
  <2>8. InOrder(v, plan)
    BY <1>6, <2>1, <2>2, <2>7 DEF InOrder, M!Glimpse, M!Find, M!Request, M!See, Reads, M!Emptied
  <2>9. QED
    BY <1>6, <2>1, <2>4, <2>6, <2>8 DEF PlanFits
<1>7. QED
  BY <1>1, <1>2, <1>3, <1>4, <1>5, <1>6 DEF M!GcpPlan

(* What nats's commands ask for is what they say. *)
LEMMA NatsFits ==
    ASSUME managed = "nats", NEW v \in DOMAIN M!NatsPlan
    PROVE  PlanFits(v, M!NatsPlan[v])
<1> USE DEF M!NatsPlan, PlanFits, InOrder, DoesIt, Known, Reads, Requests, SettingKeys,
    M!Request, M!Find, M!Glimpse, M!See, M!AddUnlessThere, M!Add, M!Ensure, M!Remove, M!Drop,
    M!Clear, M!Drain, M!Set, M!Grow, M!With, M!Parts, M!QueueParts, M!About, M!Emptied, M!SetBy,
    M!Creates, Stepwise, M!KnownDeviations
<1>1. CASE v = "create_queue"
  BY <1>1
<1>2. CASE v = "delete_queue"
  BY <1>2
<1>3. CASE v = "purge"
  BY <1>3
<1>4. CASE v = "stats"
  BY <1>4
<1>5. CASE v = "list"
  BY <1>5
<1>6. QED
  BY <1>1, <1>2, <1>3, <1>4, <1>5

(* What artemis's commands ask for is what they say. *)
LEMMA ArtemisFits ==
    ASSUME managed = "artemis", NEW v \in DOMAIN M!ArtemisPlan
    PROVE  PlanFits(v, M!ArtemisPlan[v])
<1>1. CASE v \in {"create_queue", "bind", "delete_queue", "purge", "stats", "enable",
                    "update_filter", "create_address", "delete_address"}
  <2> USE DEF M!ArtemisPlan, M!UpdateQueuePlan, PlanFits, InOrder, DoesIt, Known, Reads,
      Requests, SettingKeys, M!Request, M!Find, M!Glimpse, M!See, M!AddUnlessThere, M!Add,
      M!Ensure, M!Remove, M!Drop, M!Clear, M!Drain, M!Set, M!Grow, M!With, M!Parts,
      M!QueueParts, M!About, M!Emptied, M!SetBy, M!Creates, Stepwise, M!KnownDeviations
  <2>1. CASE v = "create_queue"
    BY <2>1
  <2>2. CASE v = "bind"
    BY <2>2
  <2>3. CASE v = "delete_queue"
    BY <2>3
  <2>4. CASE v = "purge"
    BY <2>4
  <2>5. CASE v = "stats"
    <3> DEFINE find == M!Find("queue")
               again == M!Trusting(find)
    <3>1. M!ArtemisPlan[v] = <<find, again>>
      BY <2>5
    <3>2. find \in Requests /\ find.do = "find" /\ find.part = "queue" /\ find.lax = FALSE
      OBVIOUS
    <3>3. /\ again \in Requests /\ again.do = "find" /\ again.part = "queue"
          /\ again.lax = FALSE
      <4> HIDE DEF find
      <4>1. QED
        BY <3>2, Trusted
    <3> HIDE DEF find, again
    <3>4. QED
      BY <2>5, <3>1, <3>2, <3>3
  <2>6. CASE v = "enable"
    BY <2>6
  <2>7. CASE v = "update_filter"
    BY <2>7
  <2>8. CASE v = "create_address"
    BY <2>8
  <2>9. CASE v = "delete_address"
    BY <2>9
  <2>10. QED
    BY <1>1, <2>1, <2>2, <2>3, <2>4, <2>5, <2>6, <2>7, <2>8, <2>9
<1>2. CASE v = "update_limit"
  <2> DEFINE plan == <<M!Find("queue"), M!Trusting(M!Find("queue")), M!Set("limit")>>
  <2>1. M!ArtemisPlan[v] = plan /\ Len(plan) = 3 /\ DOMAIN plan = 1..3
    BY <1>2 DEF M!ArtemisPlan, M!UpdateQueuePlan
  <2>2. /\ plan[1] = M!Find("queue")
        /\ plan[2] = M!Trusting(M!Find("queue"))
        /\ plan[3] = M!Set("limit")
    OBVIOUS
  <2>3. /\ M!Find("queue") \in Requests /\ M!Trusting(M!Find("queue")) \in Requests
        /\ M!Set("limit") \in Requests
    BY DEF M!Find, M!Trusting, M!Request, M!Set, Requests, SettingKeys
  <2>4. plan \in Seq(Requests) /\ plan # <<>>
    BY <2>3
  <2>5. \A r \in {M!Find("queue"), M!Trusting(M!Find("queue")), M!Set("limit")} : Known(r)
    BY DEF M!Find, M!Trusting, M!Request, M!Set, Known, M!With, M!Parts
  <2> HIDE DEF plan
  <2>6. \A i \in DOMAIN plan : Known(plan[i])
    BY <2>1, <2>2, <2>5
  <2>7. DoesIt(v, M!Set("limit"))
    BY <1>2
    DEF M!Find, M!Trusting, M!Request, M!Set, DoesIt, Reads, M!About, M!Emptied, M!SetBy, M!Creates,
        M!QueueParts, M!Parts, SettingKeys
  <2>8. InOrder(v, plan)
    BY <1>2, <2>1, <2>2, <2>7 DEF InOrder, M!Find, M!Trusting, M!Request, M!Set, Reads, M!Emptied
  <2>9. QED
    BY <1>2, <2>1, <2>4, <2>6, <2>8 DEF PlanFits
<1>3. CASE v = "list"
  <2> DEFINE plan == <<M!Glimpse("queue"), M!See, M!Glimpse("address"), M!See>>
  <2>1. M!ArtemisPlan[v] = plan /\ Len(plan) = 4 /\ DOMAIN plan = 1..4
    BY <1>3 DEF M!ArtemisPlan, M!UpdateQueuePlan
  <2>2. /\ plan[1] = M!Glimpse("queue")
        /\ plan[2] = M!See
        /\ plan[3] = M!Glimpse("address")
        /\ plan[4] = M!See
    OBVIOUS
  <2>3. /\ M!Glimpse("address") \in Requests
        /\ M!Glimpse("queue") \in Requests
        /\ M!See \in Requests
    BY DEF M!Glimpse, M!Find, M!Request, M!See, Requests, SettingKeys
  <2>4. plan \in Seq(Requests) /\ plan # <<>>
    BY <2>3
  <2>5. \A r \in {M!Glimpse("address"), M!Glimpse("queue"), M!See} : Known(r)
    BY DEF M!Glimpse, M!Find, M!Request, M!See, Known, M!With, M!Parts
  <2> HIDE DEF plan
  <2>6. \A i \in DOMAIN plan : Known(plan[i])
    BY <2>1, <2>2, <2>5
  <2>7. DoesIt(v, M!See)
    BY <1>3
    DEF M!Glimpse, M!Find, M!Request, M!See, DoesIt, Reads, M!About, M!Emptied, M!SetBy, M!Creates,
        M!QueueParts, M!Parts, SettingKeys
  <2>8. InOrder(v, plan)
    BY <1>3, <2>1, <2>2, <2>7 DEF InOrder, M!Glimpse, M!Find, M!Request, M!See, Reads, M!Emptied
  <2>9. QED
    BY <1>3, <2>1, <2>4, <2>6, <2>8 DEF PlanFits
<1>4. QED
  BY <1>1, <1>2, <1>3 DEF M!ArtemisPlan

(* What pulsar's commands ask for is what they say. *)
LEMMA PulsarFits ==
    ASSUME managed = "pulsar", NEW v \in DOMAIN M!PulsarPlan
    PROVE  PlanFits(v, M!PulsarPlan[v])
<1> USE DEF M!PulsarPlan, PlanFits, InOrder, DoesIt, Known, Reads, Requests, SettingKeys,
    M!Request, M!Find, M!Glimpse, M!See, M!AddUnlessThere, M!Add, M!Ensure, M!Remove, M!Drop,
    M!Clear, M!Drain, M!Set, M!Grow, M!With, M!Parts, M!QueueParts, M!About, M!Emptied, M!SetBy,
    M!Creates, Stepwise, M!KnownDeviations
<1>1. CASE v = "create_topic"
  BY <1>1
<1>2. CASE v = "delete_topic"
  <2> DEFINE remove == M!Remove("topic")
             trusted == M!Trusting(remove)
  <2>1. M!PulsarPlan[v] = <<trusted>>
    BY <1>2
  <2>2. remove \in Requests /\ remove.do = "remove" /\ remove.part = "topic" /\ remove.lax = FALSE
    OBVIOUS
  <2>3. /\ trusted \in Requests /\ trusted.do = "remove" /\ trusted.part = "topic"
        /\ trusted.lax = FALSE
    <3> HIDE DEF remove
    <3>1. QED
      BY <2>2, Trusted
  <2> HIDE DEF remove, trusted
  <2>4. QED
    BY <1>2, <2>1, <2>3
<1>3. CASE v = "list"
  BY <1>3
<1>4. QED
  BY <1>1, <1>2, <1>3

(* What kafka's commands ask for is what they say. *)
LEMMA KafkaFits ==
    ASSUME managed = "kafka", NEW v \in DOMAIN M!KafkaPlan
    PROVE  PlanFits(v, M!KafkaPlan[v])
<1>1. CASE v \in {"create_topic", "delete_topic", "stats", "delete_group", "list"}
  <2> USE DEF M!KafkaPlan, M!UpdateTopicPlan, M!TopicStatsPlan, PlanFits, InOrder, DoesIt,
      Known, Reads, Requests, SettingKeys, M!Request, M!Find, M!Glimpse, M!See,
      M!AddUnlessThere, M!Add, M!Ensure, M!Remove, M!Drop, M!Clear, M!Drain, M!Set, M!Grow,
      M!With, M!Parts, M!QueueParts, M!About, M!Emptied, M!SetBy, M!Creates, Stepwise,
      M!KnownDeviations
  <2>1. CASE v = "create_topic"
    BY <2>1
  <2>2. CASE v = "delete_topic"
    BY <2>2
  <2>3. CASE v = "stats"
    BY <2>3
  <2>4. CASE v = "delete_group"
    BY <2>4
  <2>5. CASE v = "list"
    BY <2>5
  <2>6. QED
    BY <1>1, <2>1, <2>2, <2>3, <2>4, <2>5
<1>2. CASE v = "update_topic"
  <2> DEFINE plan == <<M!Grow("partitions"), M!Set("config")>>
  <2>1. M!KafkaPlan[v] = plan /\ Len(plan) = 2 /\ DOMAIN plan = 1..2
    BY <1>2 DEF M!KafkaPlan, M!UpdateTopicPlan, M!TopicStatsPlan
  <2>2. plan[1] = M!Grow("partitions") /\ plan[2] = M!Set("config")
    OBVIOUS
  <2>3. M!Grow("partitions") \in Requests /\ M!Set("config") \in Requests
    BY DEF M!Grow, M!Request, M!Set, Requests, SettingKeys
  <2>4. plan \in Seq(Requests) /\ plan # <<>>
    BY <2>3
  <2>5. \A r \in {M!Grow("partitions"), M!Set("config")} : Known(r)
    BY DEF M!Grow, M!Request, M!Set, Known, M!With, M!Parts
  <2> HIDE DEF plan
  <2>6. \A i \in DOMAIN plan : Known(plan[i])
    BY <2>1, <2>2, <2>5
  <2>7. QED
    BY <1>2, <2>1, <2>4, <2>6 DEF PlanFits, Stepwise, M!KnownDeviations, plan
<1>3. QED
  BY <1>1, <1>2 DEF M!KafkaPlan

(* Every command's plan is what it says.                                    *)
LEMMA PlansFit ==
    ASSUME managed \in Managed, NEW v \in DOMAIN M!Plan[managed]
    PROVE  PlanFits(v, M!Plan[managed][v])
<1>1. managed \in {"rabbitmq", "redis", "awssqs", "azuresb", "gcp", "nats", "artemis", "pulsar",
                   "kafka"}
  BY MCServicesAssumption
<1>2. CASE managed = "rabbitmq"
  BY <1>2, RabbitmqFits DEF M!Plan
<1>3. CASE managed = "redis"
  BY <1>3, RedisFits DEF M!Plan
<1>4. CASE managed = "awssqs"
  BY <1>4, AwsFits DEF M!Plan
<1>5. CASE managed = "azuresb"
  BY <1>5, AzureFits DEF M!Plan
<1>6. CASE managed = "gcp"
  BY <1>6, GcpFits DEF M!Plan
<1>7. CASE managed = "nats"
  BY <1>7, NatsFits DEF M!Plan
<1>8. CASE managed = "artemis"
  BY <1>8, ArtemisFits DEF M!Plan
<1>9. CASE managed = "pulsar"
  BY <1>9, PulsarFits DEF M!Plan
<1>10. CASE managed = "kafka"
  BY <1>10, KafkaFits DEF M!Plan
<1>11. QED
  BY <1>1, <1>2, <1>3, <1>4, <1>5, <1>6, <1>7, <1>8, <1>9, <1>10

----------------------------------------------------------------------------

(* An object: what there is of it, the messages it holds and its settings.  *)
Objects == (SUBSET M!Parts[managed]) \X [M!Parts[managed] -> Nat] \X [SettingKeys -> Nat]

(* A command under way.                                                     *)
Commands ==
    [active : {TRUE}, verb : DOMAIN M!Plan[managed], todo : Seq(Requests), count : Nat,
     removed : Nat, filter : Nat, touched : BOOLEAN, misled : BOOLEAN,
     before : Objects]

(* What the parts of the state are, and that a command under way has        *)
(* requests to make and nothing to report.                                  *)
CommandTypes ==
    /\ managed \in Managed
    /\ M!object \in Objects
    /\ report.ok \in BOOLEAN
    /\ job = M!NotNow \/ job \in Commands
    /\ job # M!NotNow =>
           /\ ~report.ok
           /\ job.todo # <<>>
           /\ \A i \in DOMAIN job.todo : Known(job.todo[i])

(* A command that has had the object to itself, has taken no "no" for a     *)
(* "yes" and is no known deviation.                                         *)
Alone ==
    /\ job # M!NotNow /\ ~job.touched /\ ~job.misled
    /\ <<managed, job.verb>> \notin M!KnownDeviations

(* A command that reads first: nothing has been changed yet.                *)
ReadsFirst ==
    /\ M!object = job.before
    /\ InOrder(job.verb, job.todo)
    /\ job.removed = 0
    /\ job.verb \in {"purge", "purge_subscription"} /\ managed # "gcp" =>
           job.count \in {0, held["queue"]}
    /\ job.verb = "update_limit" => Len(job.todo) = 3 \/ job.filter = settings.filter

(* gcp's create-topic: its look, then its addition.                         *)
LooksForTopic ==
    M!object = job.before /\ job.todo \in {<<M!AddUnlessThere("topic")>>, <<M!Add("topic")>>}

(* gcp's create-queue: the subscription comes after its topic.              *)
AddsTopicThenSub ==
    /\ held = job.before[2] /\ settings = job.before[3]
    /\ \/ job.todo \in {<<M!AddUnlessThere("topic"), M!AddUnlessThere("sub")>>,
                        <<M!Add("topic"), M!AddUnlessThere("sub")>>}
       \/ job.todo \in {<<M!AddUnlessThere("sub")>>, <<M!Add("sub")>>} /\ "topic" \in has

(* gcp's delete-queue: the subscription goes before its topic.              *)
RemovesSubThenTopic ==
    \/ M!object = job.before /\ job.todo = <<M!Remove("sub"), M!Remove("topic")>>
    \/ job.todo = <<M!Remove("topic")>> /\ "sub" \notin has /\ settings = job.before[3]

(* kafka's update-topic: the partitions, then the configuration.            *)
GrowsThenSets ==
    \/ M!object = job.before /\ job.todo = <<M!Grow("partitions"), M!Set("config")>>
    \/ /\ job.todo = <<M!Set("config")>>
       /\ has = job.before[1] /\ held = job.before[2]
       /\ settings = [job.before[3] EXCEPT !.partitions = 2]

(* The inductive invariant: how far a command that has had the object to    *)
(* itself has come, and what it has done so far.                            *)
CommandInv ==
    /\ CommandTypes
    /\ Alone =>
           /\ <<managed, job.verb>> \notin Stepwise => ReadsFirst
           /\ <<managed, job.verb>> = <<"gcp", "create_topic">> => LooksForTopic
           /\ <<managed, job.verb>> = <<"gcp", "create_queue">> => AddsTopicThenSub
           /\ <<managed, job.verb>> = <<"gcp", "delete_queue">> => RemovesSubThenTopic
           /\ <<managed, job.verb>> = <<"kafka", "update_topic">> => GrowsThenSets

(* A request keeps the object's type.                                       *)
LEMMA EffectTypes ==
    ASSUME CommandTypes, job # M!NotNow, NEW r \in Requests, Known(r), M!Effect(r), managed' = managed
    PROVE  (M!object \in Objects)'
<1>1. /\ has \subseteq M!Parts[managed] /\ held \in [M!Parts[managed] -> Nat]
      /\ settings \in [SettingKeys -> Nat]
  BY DEF CommandTypes, Objects, M!object
<1>2. job.filter \in Nat
  BY DEF CommandTypes, Commands
<1>3. has' \subseteq M!Parts[managed]
  BY <1>1 DEF M!Effect, M!Without, Known, M!Keeps, M!object
<1>4. held' \in [M!Parts[managed] -> Nat]
  BY <1>1 DEF M!Effect, M!Held, M!Keeps, M!object
<1>5. settings' \in [SettingKeys -> Nat]
  <2>1. \/ settings' = settings
        \/ settings' = [settings EXCEPT !.filter = 2]
        \/ settings' = [settings EXCEPT !.limit = 2, !.filter = job.filter]
        \/ settings' = [settings EXCEPT ![r.part] = 2]
    BY DEF M!Effect, M!Keeps, M!object
  <2>2. CASE settings' = [settings EXCEPT !.limit = 2, !.filter = job.filter]
    <3> DEFINE f == job.filter
    <3>1. f \in Nat /\ settings' = [settings EXCEPT !.limit = 2, !.filter = f]
      BY <1>2, <2>2
    <3> HIDE DEF f
    <3>2. QED
      BY <1>1, <3>1
  <2>3. QED
    BY <1>1, <2>1, <2>2
<1>6. QED
  BY <1>3, <1>4, <1>5 DEF Objects, M!object

(* What the operators of the broker are after a step that keeps the broker. *)
LEMMA SameBroker ==
    managed' = managed =>
        /\ Objects' = Objects /\ Commands' = Commands
        /\ \A v : M!About(v)' = M!About(v) /\ M!Emptied(v)' = M!Emptied(v)
        /\ \A r : Known(r)' <=> Known(r)
        /\ \A p : M!NeedsOf(p)' = M!NeedsOf(p)
  BY DEF Objects, Commands, M!About, M!QueueParts, M!Emptied, Known, M!With, M!NeedsOf

(* A request that does what the command says, when nothing else has been    *)
(* done: the command has done it and nothing else.                          *)
LEMMA DoneAsSaid ==
    ASSUME CommandTypes, managed' = managed, NEW v, NEW before, before = M!object,
           NEW r \in Requests, DoesIt(v, r), M!Effect(r),
           v = "update_limit" => job.filter = settings.filter
    PROVE  M!IsAchieved(v)' /\ M!NothingElse(v, before)'
<1>1. /\ has \subseteq M!Parts[managed] /\ held \in [M!Parts[managed] -> Nat]
      /\ settings \in [SettingKeys -> Nat]
      /\ before[1] = has /\ before[2] = held /\ before[3] = settings
  BY DEF CommandTypes, Objects, M!object
<1>2. /\ M!About(v)' = M!About(v) /\ M!Emptied(v)' = M!Emptied(v) /\ M!SetBy(v)' = M!SetBy(v)
      /\ \A p : M!NeedsOf(p)' = M!NeedsOf(p)
      /\ M!Parts[managed]' = M!Parts[managed]
  BY SameBroker
<1>3. CASE r.do \in {"find", "see"}
  <2>1. UNCHANGED M!object /\ M!About(v) = {} /\ ~M!Creates(v) /\ M!Emptied(v) = {} /\ M!SetBy(v) = {}
    BY <1>3 DEF M!Effect, M!Keeps, DoesIt, Reads
  <2>2. M!IsAchieved(v)'
    BY <1>2, <2>1 DEF M!IsAchieved, M!Creates
  <2>3. M!NothingElse(v, before)'
    BY <1>1, <1>2, <2>1 DEF M!NothingElse, M!object
  <2>4. QED
    BY <2>2, <2>3
<1>4. CASE r.do \in {"add", "ensure"}
  <2>1. /\ has' = has \cup M!With(r.part) /\ held' = held /\ settings' = settings
        /\ M!About(v) = M!With(r.part) /\ M!Creates(v) /\ M!Emptied(v) = {} /\ M!SetBy(v) = {}
    BY <1>4 DEF M!Effect, DoesIt
  <2>2. M!IsAchieved(v)'
    BY <1>2, <2>1 DEF M!IsAchieved, M!Creates
  <2>3. M!NothingElse(v, before)'
    <3>1. \A p \in M!Parts[managed] \ M!About(v) : p \in has' <=> p \in before[1]
      BY <1>1, <2>1
    <3>2. has' \ M!Emptied(v) \subseteq has \cup M!About(v)
      BY <2>1
    <3>3. QED
      BY <1>1, <1>2, <2>1, <3>1, <3>2 DEF M!NothingElse, M!Creates
  <2>4. QED
    BY <2>2, <2>3
<1>5. CASE r.do \in {"remove", "drop"}
  <2>1. /\ has' = M!Without(M!With(r.part)) /\ held' = M!Held(M!Without(M!With(r.part)))
        /\ settings' = settings
        /\ M!About(v) = M!With(r.part) /\ ~M!Creates(v) /\ M!Emptied(v) = {} /\ M!SetBy(v) = {}
    BY <1>5 DEF M!Effect, DoesIt
  <2>2. /\ \A p : p \in has' <=> p \in has /\ p \notin M!About(v) /\ M!NeedsOf(p) \cap M!About(v) = {}
        /\ \A p \in has' : held'[p] = held[p]
    BY <1>1, <2>1 DEF M!Without, M!Held
  <2>3. M!IsAchieved(v)'
    BY <1>2, <2>1, <2>2 DEF M!IsAchieved, M!Creates
  <2>4. M!NothingElse(v, before)'
    BY <1>1, <1>2, <2>1, <2>2 DEF M!NothingElse, M!Creates
  <2>5. QED
    BY <2>3, <2>4
<1>6. CASE r.do = "clear"
  <2>1. /\ held' = [held EXCEPT ![r.part] = 0] /\ has' = has /\ settings' = settings
        /\ M!About(v) = {} /\ ~M!Creates(v) /\ M!Emptied(v) = {r.part} /\ M!SetBy(v) = {}
        /\ r.part \in M!Parts[managed]
    BY <1>6 DEF M!Effect, DoesIt
  <2>2. M!IsAchieved(v)'
    BY <1>1, <1>2, <2>1 DEF M!IsAchieved, M!Creates
  <2>3. M!NothingElse(v, before)'
    BY <1>1, <1>2, <2>1 DEF M!NothingElse
  <2>4. QED
    BY <2>2, <2>3
<1>7. CASE r.do = "set"
  <2>1. /\ has' = has /\ held' = held
        /\ M!About(v) = {} /\ ~M!Creates(v) /\ M!Emptied(v) = {} /\ M!SetBy(v) = {r.part}
        /\ r.part \in SettingKeys
    BY <1>7 DEF M!Effect, DoesIt
  <2>2. settings'[r.part] = 2 /\ DOMAIN settings' = SettingKeys
        /\ \A key \in SettingKeys \ {r.part} : settings'[key] = settings[key]
    <3>1. CASE r.part = "limit"
      <4>1. job.filter = settings.filter
        BY <1>7, <3>1 DEF DoesIt
      <4>2. settings' = [settings EXCEPT !.limit = 2, !.filter = settings.filter]
        BY <1>7, <3>1, <4>1 DEF M!Effect
      <4>3. QED
        BY <1>1, <3>1, <4>2 DEF SettingKeys
    <3>2. CASE r.part # "limit"
      <4>1. settings' = [settings EXCEPT ![r.part] = 2]
        BY <1>7, <3>2 DEF M!Effect
      <4>2. QED
        BY <1>1, <2>1, <4>1 DEF SettingKeys
    <3>3. QED
      BY <3>1, <3>2
  <2>3. M!IsAchieved(v)'
    BY <1>2, <2>1, <2>2 DEF M!IsAchieved, M!Creates
  <2>4. M!NothingElse(v, before)'
    BY <1>1, <1>2, <2>1, <2>2 DEF M!NothingElse
  <2>5. QED
    BY <2>3, <2>4
<1>8. QED
  BY <1>3, <1>4, <1>5, <1>6, <1>7 DEF DoesIt

(* What is left of a plan that reads first reads first.                     *)
LEMMA InOrderTail ==
    ASSUME NEW v, NEW s \in Seq(Requests), InOrder(v, s), Len(s) > 1
    PROVE  InOrder(v, Tail(s)) /\ Len(Tail(s)) = Len(s) - 1 /\ Reads(s[1])
<1>1. Len(s) \in Nat /\ Len(Tail(s)) = Len(s) - 1
  OBVIOUS
<1>2. \A i \in 1..Len(Tail(s)) : Tail(s)[i] = s[i + 1]
  OBVIOUS
<1>3. Tail(s)[Len(Tail(s))] = s[Len(s)]
  BY <1>1, <1>2
<1>4. \A i \in 1..(Len(Tail(s)) - 1) : Tail(s)[i] = s[i + 1] /\ i + 1 \in 1..(Len(s) - 1)
  BY <1>1, <1>2
<1>5. Reads(s[1])
  BY <1>1 DEF InOrder
<1>6. QED
  BY <1>1, <1>3, <1>4, <1>5 DEF InOrder

(* The plan after its first request.                                        *)
LEMMA TodoTypes ==
    ASSUME CommandTypes, job # M!NotNow
    PROVE  /\ job \in Commands /\ M!Current \in Requests /\ Known(M!Current)
           /\ Len(job.todo) >= 1 /\ Len(job.todo) \in Nat /\ M!Current = job.todo[1]
           /\ Tail(job.todo) \in Seq(Requests)
           /\ \A i \in DOMAIN Tail(job.todo) : Known(Tail(job.todo)[i])
<1>1. job \in Commands /\ job.todo # <<>> /\ \A i \in DOMAIN job.todo : Known(job.todo[i])
  BY DEF CommandTypes
<1>2. job.todo \in Seq(Requests)
  BY <1>1 DEF Commands
<1> DEFINE s == job.todo
<1>3. s \in Seq(Requests) /\ s # <<>> /\ \A i \in DOMAIN s : Known(s[i])
  BY <1>1, <1>2
<1> HIDE DEF s
<1>4. Head(s) \in Requests /\ Head(s) = s[1] /\ Len(s) >= 1 /\ Len(s) \in Nat /\ 1 \in DOMAIN s
  BY <1>3
<1>5. Tail(s) \in Seq(Requests) /\ \A i \in DOMAIN Tail(s) : Known(Tail(s)[i])
  <2>1. Tail(s) \in Seq(Requests) /\ Len(Tail(s)) = Len(s) - 1
        /\ DOMAIN Tail(s) = 1..(Len(s) - 1) /\ DOMAIN s = 1..Len(s)
    BY <1>3, <1>4
  <2>2. ASSUME NEW i \in DOMAIN Tail(s) PROVE Known(Tail(s)[i])
    <3>1. Tail(s)[i] = s[i + 1] /\ i + 1 \in DOMAIN s
      BY <1>3, <1>4, <2>1
    <3>2. QED
      BY <3>1, <1>3
  <2>3. QED
    BY <2>1, <2>2
<1>6. QED
  BY <1>1, <1>3, <1>4, <1>5 DEF s, M!Current

(* Going on keeps the types.                                                *)
LEMMA GoOnTypes ==
    ASSUME CommandTypes, managed' = managed, (M!object \in Objects)', NEW j \in Commands, M!GoOn(j),
           ~report.ok, \A i \in DOMAIN j.todo : Known(j.todo[i])
    PROVE  CommandTypes'
<1>1. CASE j.todo # <<>>
  BY <1>1, SameBroker DEF CommandTypes, M!GoOn
<1>2. CASE j.todo = <<>>
  <2>1. job' = M!NotNow /\ report'.ok = TRUE
    BY <1>2 DEF M!GoOn
  <2>2. QED
    BY <2>1, SameBroker DEF CommandTypes
<1>3. QED
  BY <1>1, <1>2

(* A failure that fails the command, or that it goes on after.              *)
LEMMA AfterFailureTypes ==
    ASSUME CommandTypes, job # M!NotNow, managed' = managed, (M!object \in Objects)', M!AfterFailure
    PROVE  CommandTypes'
<1>1. CASE M!GoOn(M!Done)
  <2>1. M!Done \in Commands /\ M!Done.todo = Tail(job.todo) /\ ~report.ok
    BY TodoTypes DEF M!Done, Commands, CommandTypes
  <2> HIDE DEF M!Done
  <2>2. QED
    BY <1>1, <2>1, TodoTypes, GoOnTypes
<1>2. CASE M!Fail
  BY <1>2, SameBroker DEF CommandTypes, M!Fail, M!NoReport
<1>3. QED
  BY <1>1, <1>2 DEF M!AfterFailure

(* A step of the user.                                                      *)
LEMMA StartTypes ==
    ASSUME CommandTypes, NEW v, M!Start(v)
    PROVE  /\ CommandTypes' /\ UNCHANGED <<managed, M!object>>
           /\ v \in DOMAIN M!Plan[managed] /\ PlanFits(v, M!Plan[managed][v])
           /\ job' \in Commands /\ job'.verb = v /\ job'.todo = M!Plan[managed][v]
           /\ job'.count = 0 /\ job'.removed = 0
           /\ job'.before = M!object /\ job'.before = <<has, held, settings>>
<1>1. /\ managed' = managed /\ UNCHANGED M!object /\ v \in DOMAIN M!Plan[managed]
      /\ report' = M!NoReport
      /\ job' = [active |-> TRUE, verb |-> v, todo |-> M!Plan[managed][v], count |-> 0, removed |-> 0,
                 filter |-> 1, touched |-> FALSE, misled |-> FALSE,
                 before |-> <<has, held, settings>>]
  BY DEF M!Start
<1>2. PlanFits(v, M!Plan[managed][v])
  BY <1>1, PlansFit DEF CommandTypes
<1>3. <<has, held, settings>> \in Objects /\ M!Plan[managed][v] \in Seq(Requests)
  BY <1>2 DEF CommandTypes, PlanFits, M!object
<1>4. job' \in Commands
  BY <1>1, <1>3 DEF Commands
<1>5. CommandTypes'
  BY <1>1, <1>2, <1>4, SameBroker DEF CommandTypes, PlanFits, M!NoReport, M!object
<1>6. QED
  BY <1>1, <1>2, <1>4, <1>5 DEF M!object

(* What a look leads to.                                                    *)
LEMMA Added ==
    ASSUME NEW r \in Requests, r.do = "check", Known(r)
    PROVE  M!Add(r.part) \in Requests /\ Known(M!Add(r.part))
  BY DEF Requests, Known, M!Add, M!Request

(* A request before a plan.                                                 *)
LEMMA Prefixed ==
    ASSUME NEW r \in Requests, NEW s \in Seq(Requests), Known(r),
           \A i \in DOMAIN s : Known(s[i])
    PROVE  /\ <<r>> \o s \in Seq(Requests)
           /\ \A i \in DOMAIN (<<r>> \o s) : Known((<<r>> \o s)[i])
<1>1. <<r>> \in Seq(Requests) /\ <<r>> \o s \in Seq(Requests)
      /\ DOMAIN (<<r>> \o s) = 1..(1 + Len(s)) /\ Len(s) \in Nat /\ DOMAIN s = 1..Len(s)
  OBVIOUS
<1>2. (<<r>> \o s)[1] = r
  OBVIOUS
<1>3. \A i \in 2..(1 + Len(s)) : (<<r>> \o s)[i] = s[i - 1] /\ i - 1 \in DOMAIN s
  BY <1>1
<1>4. QED
  BY <1>1, <1>2, <1>3

(* The answer that a request gets.                                          *)
LEMMA AnsweredGoesOn ==
    ASSUME CommandTypes, M!Answered
    PROVE  /\ job # M!NotNow /\ managed' = managed /\ M!Effect(M!Current) /\ (M!object \in Objects)'
           /\ \E j \in Commands :
                  /\ M!GoOn(j)
                  /\ j.verb = job.verb /\ j.touched = job.touched /\ j.misled = job.misled
                  /\ j.before = job.before
                  /\ \A i \in DOMAIN j.todo : Known(j.todo[i])
                  /\ \/ M!Current.do = "drain"
                     \/ /\ M!Current.do = "check" /\ M!Current.part \notin has
                        /\ j.todo = <<M!Add(M!Current.part)>> \o Tail(job.todo)
                     \/ /\ M!Current.do # "check" \/ M!Current.part \in has
                        /\ j.todo = Tail(job.todo)
                  /\ IF M!Current.do = "find"
                     THEN j.count = held[M!Current.part] /\ j.filter = settings.filter
                     ELSE /\ \/ j.count = job.count
                             \/ M!Current.do = "see" /\ j.count = held[M!Current.part]
                          /\ j.filter = job.filter
                  /\ IF M!Current.do = "clear" THEN j.removed = job.removed + held[M!Current.part]
                     ELSE j.removed = job.removed \/ M!Current.do = "drain"
<1>1. job # M!NotNow /\ managed' = managed /\ M!Effect(M!Current) /\ M!Accepts(M!Current)
  BY DEF M!Answered, M!NotNow
<1>2. /\ job \in Commands /\ M!Current \in Requests /\ Known(M!Current)
      /\ Tail(job.todo) \in Seq(Requests)
      /\ \A i \in DOMAIN Tail(job.todo) : Known(Tail(job.todo)[i])
      /\ \A i \in DOMAIN job.todo : Known(job.todo[i])
  BY <1>1, TodoTypes DEF CommandTypes
<1>3. /\ has \subseteq M!Parts[managed] /\ held \in [M!Parts[managed] -> Nat]
      /\ settings \in [SettingKeys -> Nat]
  BY DEF CommandTypes, Objects, M!object
<1>4. M!Done \in Commands /\ M!Done = [job EXCEPT !.todo = Tail(job.todo)]
  BY <1>2 DEF M!Done, Commands
<1>5. (M!object \in Objects)'
  BY <1>1, <1>2, EffectTypes
<1>6. CASE M!Current.do = "find"
  <2> DEFINE j == [M!Done EXCEPT !.count = held[M!Current.part], !.filter = settings.filter]
  <2>1. held[M!Current.part] \in Nat /\ settings.filter \in Nat
    BY <1>1, <1>3, <1>6 DEF M!Accepts, SettingKeys
  <2>2. /\ j \in Commands /\ j.verb = job.verb /\ j.touched = job.touched
        /\ j.misled = job.misled /\ j.before = job.before /\ j.todo = Tail(job.todo) /\ j.removed = job.removed
        /\ j.count = held[M!Current.part] /\ j.filter = settings.filter
    BY <1>2, <1>4, <2>1 DEF Commands
  <2>3. M!GoOn(j)
    BY <1>6 DEF M!Answered
  <2> HIDE DEF j
  <2>4. QED
    BY <1>1, <1>2, <1>5, <1>6, <2>2, <2>3
<1>7. CASE M!Current.do = "check"
  <2> DEFINE more == IF M!Current.part \in has THEN Tail(job.todo)
                     ELSE <<M!Add(M!Current.part)>> \o Tail(job.todo)
             j == [job EXCEPT !.todo = more]
  <2>1. M!Add(M!Current.part) \in Requests /\ Known(M!Add(M!Current.part))
    BY <1>2, <1>7, Added
  <2>2. more \in Seq(Requests) /\ \A i \in DOMAIN more : Known(more[i])
    BY <1>2, <2>1, Prefixed
  <2>3. M!GoOn(j)
    <3>1. CASE M!Current.part \in has
      BY <1>4, <1>7, <3>1 DEF M!Answered
    <3>2. CASE M!Current.part \notin has
      BY <1>2, <1>4, <1>7, <3>2 DEF M!Answered, Commands
    <3>3. QED
      BY <3>1, <3>2
  <2>4. /\ M!Current.part \notin has => more = <<M!Add(M!Current.part)>> \o Tail(job.todo)
        /\ M!Current.part \in has => more = Tail(job.todo)
    OBVIOUS
  <2> HIDE DEF more
  <2>5. /\ j \in Commands /\ j.verb = job.verb /\ j.touched = job.touched
        /\ j.misled = job.misled /\ j.before = job.before /\ j.todo = more /\ j.removed = job.removed
        /\ j.count = job.count /\ j.filter = job.filter
    BY <1>2, <2>2 DEF Commands
  <2> HIDE DEF j
  <2>6. QED
    BY <1>1, <1>5, <1>7, <2>2, <2>3, <2>4, <2>5
<1>8. CASE M!Current.do = "clear"
  <2> DEFINE n == job.removed + held[M!Current.part]
             j == [M!Done EXCEPT !.removed = n]
  <2>1. n \in Nat
    BY <1>1, <1>2, <1>3, <1>8 DEF M!Accepts, Commands
  <2>2. /\ j \in Commands /\ j.verb = job.verb /\ j.touched = job.touched
        /\ j.misled = job.misled /\ j.before = job.before /\ j.todo = Tail(job.todo)
        /\ j.removed = n
        /\ j.count = job.count /\ j.filter = job.filter
    <3> HIDE DEF n
    <3>1. QED
      BY <1>2, <1>4, <2>1 DEF Commands
  <2>3. M!GoOn(j)
    BY <1>2, <1>4, <1>8 DEF M!Answered, Commands
  <2> HIDE DEF j
  <2>4. j.removed = job.removed + held[M!Current.part]
    BY <2>2
  <2>5. QED
    BY <1>1, <1>2, <1>5, <1>8, <2>2, <2>3, <2>4
<1>9. CASE M!Current.do = "drain"
  <2> DEFINE n == job.removed + held[M!Current.part]
             j == [job EXCEPT !.removed = n]
  <2>1. n \in Nat
    BY <1>1, <1>2, <1>3, <1>9 DEF M!Answered, Commands
  <2>2. /\ j \in Commands /\ j.verb = job.verb /\ j.touched = job.touched
        /\ j.misled = job.misled /\ j.before = job.before /\ j.todo = job.todo
        /\ j.count = job.count /\ j.filter = job.filter
    <3> HIDE DEF n
    <3>1. QED
      BY <1>2, <2>1 DEF Commands
  <2>3. M!GoOn(j)
    BY <1>9 DEF M!Answered
  <2> HIDE DEF j
  <2>4. QED
    BY <1>1, <1>2, <1>5, <1>9, <2>2, <2>3
<1>10. CASE M!Current.do = "see"
  <2> DEFINE n == IF M!Current.part \in has THEN held[M!Current.part] ELSE job.count
             j == [M!Done EXCEPT !.count = n]
  <2>1. n \in Nat
    BY <1>2, <1>3 DEF Commands
  <2>2. /\ j \in Commands /\ j.verb = job.verb /\ j.touched = job.touched
        /\ j.misled = job.misled /\ j.before = job.before /\ j.todo = Tail(job.todo)
        /\ j.removed = job.removed /\ j.filter = job.filter /\ j.count = n
    <3> HIDE DEF n
    <3>1. QED
      BY <1>2, <1>4, <2>1 DEF Commands
  <2>3. M!GoOn(j)
    BY <1>2, <1>4, <1>10 DEF M!Answered, Commands
  <2>4. n \in {job.count, held[M!Current.part]}
    OBVIOUS
  <2> HIDE DEF j, n
  <2>5. QED
    BY <1>1, <1>2, <1>5, <1>10, <2>2, <2>3, <2>4
<1>11. CASE M!Current.do \notin {"find", "see", "check", "clear", "drain"}
  <2>1. M!GoOn(M!Done)
    BY <1>11 DEF M!Answered
  <2>2. /\ M!Done.verb = job.verb /\ M!Done.touched = job.touched
        /\ M!Done.misled = job.misled /\ M!Done.before = job.before /\ M!Done.todo = Tail(job.todo) /\ M!Done.removed = job.removed
        /\ M!Done.count = job.count /\ M!Done.filter = job.filter
    BY <1>2, <1>4 DEF Commands
  <2>3. QED
    BY <1>1, <1>2, <1>4, <1>5, <1>11, <2>1, <2>2
<1>12. QED
  BY <1>6, <1>7, <1>8, <1>9, <1>10, <1>11

(* Every step keeps the types.                                              *)
LEMMA CommandTypesStep == CommandTypes /\ [M!Next]_(M!vars) => CommandTypes'
<1> SUFFICES ASSUME CommandTypes, [M!Next]_(M!vars) PROVE CommandTypes'
  OBVIOUS
<1>1. /\ has \subseteq M!Parts[managed] /\ held \in [M!Parts[managed] -> Nat]
      /\ settings \in [SettingKeys -> Nat] /\ M!object \in Objects
  BY DEF CommandTypes, Objects, M!object
<1>2. ASSUME NEW v, M!Start(v) PROVE CommandTypes'
  BY <1>2, StartTypes
<1>3. CASE M!GiveUp \/ UNCHANGED M!vars
  <2>1. UNCHANGED <<managed, has, held, settings, job, report>>
    BY <1>3 DEF M!GiveUp, M!vars, M!object
  <2>2. QED
    BY <2>1, SameBroker DEF CommandTypes, M!object
<1>4. CASE M!Answered
  <2>1. PICK j \in Commands : M!GoOn(j) /\ \A i \in DOMAIN j.todo : Known(j.todo[i])
    BY <1>4, AnsweredGoesOn
  <2>2. QED
    BY <1>4, <2>1, AnsweredGoesOn, GoOnTypes DEF CommandTypes
<1>5. CASE M!Refused \/ M!Fails
  <2>1. job # M!NotNow /\ managed' = managed /\ UNCHANGED M!object /\ M!AfterFailure
    BY <1>5 DEF M!Refused, M!Fails, M!NotNow
  <2>2. QED
    BY <1>1, <2>1, SameBroker, AfterFailureTypes DEF M!object
<1>6. CASE M!AnswerLost
  <2>1. job # M!NotNow /\ managed' = managed /\ M!Effect(M!Current) /\ M!AfterFailure
    BY <1>6 DEF M!AnswerLost, M!NotNow
  <2>2. (M!object \in Objects)'
    BY <2>1, TodoTypes, EffectTypes
  <2>3. QED
    BY <2>1, <2>2, AfterFailureTypes
<1>7. ASSUME M!ByOthers, (M!object \in Objects)' PROVE CommandTypes'
  <2>1. managed' = managed /\ report' = report
        /\ job' = IF job.active THEN [job EXCEPT !.touched = TRUE] ELSE job
    BY <1>7 DEF M!ByOthers
  <2>2. CASE job = M!NotNow
    BY <1>7, <2>1, <2>2, SameBroker DEF CommandTypes, M!NotNow
  <2>3. CASE job # M!NotNow
    <3>1. job \in Commands
      BY <2>3 DEF CommandTypes
    <3>2. job' = [job EXCEPT !.touched = TRUE]
      BY <2>1, <3>1 DEF Commands
    <3>3. job' \in Commands /\ job'.todo = job.todo
      BY <3>1, <3>2 DEF Commands
    <3>4. job' # M!NotNow
      BY <3>3 DEF Commands, M!NotNow
    <3>5. QED
      BY <1>7, <2>1, <2>3, <3>3, <3>4, SameBroker DEF CommandTypes
  <2>4. QED
    BY <2>2, <2>3
<1>8. ASSUME NEW p \in M!Parts[managed], M!OtherSends(p) \/ M!OtherAdds(p) \/ M!OtherRemoves(p)
      PROVE  CommandTypes'
  <2>1. M!ByOthers /\ managed' = managed /\ settings' = settings
    BY <1>8 DEF M!OtherSends, M!OtherAdds, M!OtherRemoves, M!ByOthers
  <2>2. has' \subseteq M!Parts[managed] /\ held' \in [M!Parts[managed] -> Nat]
    BY <1>1, <1>8 DEF M!OtherSends, M!OtherAdds, M!OtherRemoves, M!Held, M!Without
  <2>3. QED
    BY <1>1, <1>7, <2>1, <2>2 DEF Objects, M!object
<1>9. CASE M!OtherSetsFilter
  <2>1. M!ByOthers /\ managed' = managed /\ has' = has /\ held' = held
        /\ settings' \in [SettingKeys -> Nat]
    BY <1>1, <1>9 DEF M!OtherSetsFilter, M!ByOthers
  <2>2. QED
    BY <1>1, <1>7, <2>1 DEF Objects, M!object
<1>10. CASE M!Misled
  <2> DEFINE j == [M!Done EXCEPT !.filter = 0, !.misled = TRUE]
  <2>1. job # M!NotNow /\ managed' = managed /\ UNCHANGED M!object /\ M!GoOn(j)
    BY <1>10 DEF M!Misled, M!NotNow
  <2>2. (M!object \in Objects)'
    BY <1>1, <2>1, SameBroker DEF M!object
  <2>3. /\ job \in Commands /\ Tail(job.todo) \in Seq(Requests) /\ ~report.ok
        /\ \A i \in DOMAIN Tail(job.todo) : Known(Tail(job.todo)[i])
    BY <2>1, TodoTypes DEF CommandTypes
  <2>4. j \in Commands /\ j.todo = Tail(job.todo)
    BY <2>3 DEF M!Done, Commands
  <2> HIDE DEF j
  <2>5. QED
    BY <2>1, <2>2, <2>3, <2>4, GoOnTypes
<1>11. QED
  BY <1>2, <1>3, <1>4, <1>5, <1>6, <1>8, <1>9, <1>10 DEF M!Next, M!Command, M!Repeat

(* A command that has the object to itself, and where it is.                *)
LEMMA AloneWhere ==
    ASSUME CommandInv, Alone, <<managed, job.verb>> \notin Stepwise
    PROVE  /\ ReadsFirst /\ job.before[1] = has /\ job.before[2] = held /\ job.before[3] = settings
           /\ Len(job.todo) = 1 => DoesIt(job.verb, M!Current)
           /\ Len(job.todo) > 1 => Reads(M!Current) /\ InOrder(job.verb, Tail(job.todo))
           /\ M!Current.lax => Reads(M!Current)
           /\ M!Current.do # "drain" /\ M!Current.do # "check"
<1>1. ReadsFirst /\ CommandTypes /\ job # M!NotNow
  BY DEF CommandInv, Alone
<1>2. /\ job \in Commands /\ M!Current \in Requests /\ M!Current = job.todo[1] /\ Len(job.todo) >= 1
      /\ Len(job.todo) \in Nat
  BY <1>1, TodoTypes
<1>3. job.todo \in Seq(Requests) /\ InOrder(job.verb, job.todo)
  BY <1>1, <1>2 DEF Commands, ReadsFirst
<1>4. Len(job.todo) = 1 => DoesIt(job.verb, M!Current)
  BY <1>2, <1>3 DEF InOrder
<1>5. Len(job.todo) > 1 => Reads(M!Current) /\ InOrder(job.verb, Tail(job.todo))
  BY <1>2, <1>3, InOrderTail
<1>6. Len(job.todo) = 1 \/ Len(job.todo) > 1
  <2>1. ASSUME NEW n \in Nat, n >= 1 PROVE n = 1 \/ n > 1
    BY <2>1
  <2>2. QED
    BY <1>2, <2>1
<1>7. M!Current.lax => Reads(M!Current)
  BY <1>4, <1>5, <1>6 DEF DoesIt
<1>8. M!Current.do # "drain" /\ M!Current.do # "check"
  BY <1>4, <1>5, <1>6 DEF DoesIt, Reads
<1>9. job.before[1] = has /\ job.before[2] = held /\ job.before[3] = settings
  BY <1>1 DEF ReadsFirst, M!object
<1>10. QED
  BY <1>1, <1>4, <1>5, <1>7, <1>8, <1>9

(* The order of the requests that are left does not depend on the state.    *)
LEMMA InOrderStays ==
    ASSUME managed' = managed, NEW v, NEW s, InOrder(v, s), job'.verb = v, job'.todo = s
    PROVE  InOrder(job.verb, job.todo)'
<1>1. /\ M!About(v)' = M!About(v) /\ M!Emptied(v)' = M!Emptied(v) /\ M!SetBy(v)' = M!SetBy(v)
      /\ \A p : M!With(p)' = M!With(p)
  BY SameBroker DEF M!SetBy, M!With
<1>2. DoesIt(v, s[Len(s)]) => DoesIt(v, s[Len(s)])'
  BY <1>1 DEF DoesIt, M!Creates, Reads
<1>3. InOrder(v, s)'
  BY <1>1, <1>2 DEF InOrder, Reads, M!Find, M!Trusting, M!Request
<1>4. QED
  BY <1>3
  DEF InOrder, DoesIt, Reads, M!Creates, M!Find, M!Trusting, M!Request, M!About, M!Emptied, M!SetBy, M!With,
              M!QueueParts

(* A request that is not the last of such a command, answered or ignored.   *)
LEMMA ReadOn ==
    ASSUME CommandInv, Alone, <<managed, job.verb>> \notin Stepwise, managed' = managed,
           M!Effect(M!Current), Tail(job.todo) # <<>>,
           job' \in Commands, job'.todo = Tail(job.todo),
           job'.verb = job.verb, job'.before = job.before, job'.removed = job.removed,
           IF M!Current.do = "find" /\ ~M!Current.lax
           THEN job'.count = held[M!Current.part] /\ job'.filter = settings.filter
           ELSE job'.count \in {job.count, held[M!Current.part]}
    PROVE  ReadsFirst'
<1>1. CommandTypes /\ job # M!NotNow /\ ReadsFirst
  BY AloneWhere DEF CommandInv, Alone
<1>2. /\ job \in Commands /\ M!Current = job.todo[1] /\ Len(job.todo) \in Nat
      /\ Len(job.todo) >= 1 /\ job.todo \in Seq(Requests)
  BY <1>1, TodoTypes DEF Commands
<1>3. Len(job.todo) > 1
  BY <1>2
<1>4. Reads(M!Current) /\ InOrder(job.verb, Tail(job.todo)) /\ Len(Tail(job.todo)) = Len(job.todo) - 1
  BY <1>2, <1>3, AloneWhere
<1>5. UNCHANGED <<has, held, settings>>
  BY <1>4 DEF M!Effect, Reads, M!Keeps, M!object
<1>6. InOrder(job.verb, job.todo)
  BY <1>1 DEF ReadsFirst
<1>7. InOrder(job.verb, job.todo)'
  <2>1. PICK v, s : v = job.verb /\ s = Tail(job.todo)
    OBVIOUS
  <2>2. InOrder(v, s) /\ job'.verb = v /\ job'.todo = s
    BY <1>4, <2>1
  <2>3. QED
    BY <2>2, InOrderStays
<1>8. M!object' = job'.before
  BY <1>1, <1>5 DEF ReadsFirst, M!object
<1>9. 1 \in 1..(Len(job.todo) - 1)
  <2>1. ASSUME NEW n \in Nat, n > 1 PROVE 1 \in 1..(n - 1)
    BY <2>1
  <2>2. QED
    BY <1>2, <1>3, <2>1
<1>10. job.verb \in {"purge", "purge_subscription"} /\ managed # "gcp" =>
           job'.count \in {0, held'["queue"]}
  <2>1. HAVE job.verb \in {"purge", "purge_subscription"} /\ managed # "gcp"
  <2>2. M!Current.part = "queue" /\ job.count \in {0, held["queue"]}
    BY <1>1, <1>2, <1>6, <1>9, <2>1 DEF InOrder, ReadsFirst
  <2>3. job'.count \in {job.count, held[M!Current.part]}
    OBVIOUS
  <2>4. QED
    BY <1>5, <2>2, <2>3
<1>11. job.verb = "update_limit" => job'.filter = settings'.filter
  <2>1. HAVE job.verb = "update_limit"
  <2>2. M!Current \in {M!Find("queue"), M!Trusting(M!Find("queue"))}
    BY <1>2, <1>6, <1>9, <2>1 DEF InOrder
  <2>3. M!Current.do = "find" /\ ~M!Current.lax
    BY <2>2 DEF M!Find, M!Trusting, M!Request
  <2>4. QED
    BY <1>5, <2>3
<1>12. QED
  BY <1>1, <1>7, <1>8, <1>10, <1>11 DEF ReadsFirst

(* The stepwise commands, a request at a time.                              *)
LEMMA StepwiseOn ==
    ASSUME CommandInv, Alone, <<managed, job.verb>> \in Stepwise, M!Answered, job' # M!NotNow
    PROVE  /\ job'.verb = job.verb /\ managed' = managed
           /\ <<managed, job.verb>> = <<"gcp", "create_topic">> => LooksForTopic'
           /\ <<managed, job.verb>> = <<"gcp", "create_queue">> => AddsTopicThenSub'
           /\ <<managed, job.verb>> = <<"gcp", "delete_queue">> => RemovesSubThenTopic'
           /\ <<managed, job.verb>> = <<"kafka", "update_topic">> => GrowsThenSets'
<1>1. CommandTypes /\ job # M!NotNow
  BY DEF CommandInv, Alone
<1>2. /\ job \in Commands /\ M!Current = job.todo[1] /\ Len(job.todo) \in Nat
      /\ Len(job.todo) >= 1 /\ job.todo \in Seq(Requests)
  BY <1>1, TodoTypes DEF Commands
<1>3. /\ managed' = managed /\ M!Effect(M!Current)
      /\ \E j \in Commands :
             /\ M!GoOn(j) /\ j.verb = job.verb /\ j.before = job.before
             /\ \/ M!Current.do = "drain"
                \/ /\ M!Current.do = "check" /\ M!Current.part \notin has
                   /\ j.todo = <<M!Add(M!Current.part)>> \o Tail(job.todo)
                \/ /\ M!Current.do # "check" \/ M!Current.part \in has
                   /\ j.todo = Tail(job.todo)
  BY <1>1, AnsweredGoesOn
<1>4. /\ job'.verb = job.verb /\ job'.before = job.before
      /\ \/ M!Current.do = "drain"
         \/ /\ M!Current.do = "check" /\ M!Current.part \notin has
            /\ job'.todo = <<M!Add(M!Current.part)>> \o Tail(job.todo)
         \/ /\ M!Current.do # "check" \/ M!Current.part \in has
            /\ job'.todo = Tail(job.todo)
      /\ job'.todo # <<>>
  BY <1>3 DEF M!GoOn
<1>5. ASSUME M!Current.do \in {"check", "find", "see"} PROVE UNCHANGED <<has, held, settings>>
  BY <1>3, <1>5 DEF M!Effect, M!Keeps, M!object
<1>6. /\ has \subseteq M!Parts[managed] /\ held \in [M!Parts[managed] -> Nat]
      /\ settings \in [SettingKeys -> Nat]
  BY <1>1 DEF CommandTypes, Objects, M!object
<1>a. ASSUME NEW a PROVE <<a>> \o <<>> = <<a>> /\ \A b : <<a>> \o <<b>> = <<a, b>>
  <2>1. <<a>> \in Seq({a}) /\ <<>> \in Seq({a})
    OBVIOUS
  <2>2. <<a>> \o <<>> = <<a>>
    BY <2>1
  <2>3. ASSUME NEW b PROVE <<a>> \o <<b>> = <<a, b>>
    <3>1. <<a>> \in Seq({a, b}) /\ <<b>> \in Seq({a, b}) /\ <<a, b>> \in Seq({a, b})
      OBVIOUS
    <3>2. <<a>> \o <<b>> \in Seq({a, b}) /\ Len(<<a>> \o <<b>>) = 2
          /\ (<<a>> \o <<b>>)[1] = a /\ (<<a>> \o <<b>>)[2] = b
      BY <3>1
    <3>3. ASSUME NEW t \in Seq({a, b}), Len(t) = 2, t[1] = a, t[2] = b PROVE t = <<a, b>>
      <4>1. t \in [1..2 -> {a, b}] /\ <<a, b>> \in [1..2 -> {a, b}]
        BY <3>3
      <4>2. \A i \in 1..2 : t[i] = <<a, b>>[i]
        BY <3>3
      <4>3. QED
        BY <4>1, <4>2
    <3>4. QED
      BY <3>2, <3>3
  <2>4. QED
    BY <2>2, <2>3
<1>7. CASE <<managed, job.verb>> = <<"gcp", "create_topic">>
  <2>1. LooksForTopic
    BY <1>7 DEF CommandInv
  <2>2. CASE job.todo = <<M!AddUnlessThere("topic")>>
    <3>1. M!Current = M!AddUnlessThere("topic") /\ Tail(job.todo) = <<>>
      BY <1>2, <2>2
    <3>2. M!Current.do = "check" /\ M!Current.part = "topic"
      BY <3>1 DEF M!AddUnlessThere, M!Request
    <3>3. job'.todo = <<M!Add("topic")>>
      BY <1>4, <1>a, <3>1, <3>2
    <3>4. LooksForTopic'
      BY <1>4, <1>5, <2>1, <3>2, <3>3 DEF LooksForTopic, M!object
    <3>5. QED
      BY <1>3, <1>4, <1>7, <3>4
  <2>3. CASE job.todo = <<M!Add("topic")>>
    <3>1. M!Current = M!Add("topic") /\ Tail(job.todo) = <<>>
      BY <1>2, <2>3
    <3>2. M!Current.do = "add"
      BY <3>1 DEF M!Add, M!Request
    <3>3. QED
      BY <1>4, <3>1, <3>2
  <2>4. QED
    BY <2>1, <2>2, <2>3 DEF LooksForTopic
<1>8. CASE <<managed, job.verb>> = <<"gcp", "create_queue">>
  <2>1. AddsTopicThenSub
    BY <1>8 DEF CommandInv
  <2>2. CASE job.todo = <<M!AddUnlessThere("topic"), M!AddUnlessThere("sub")>>
    <3>1. M!Current = M!AddUnlessThere("topic") /\ Tail(job.todo) = <<M!AddUnlessThere("sub")>>
      BY <1>2, <2>2
    <3>2. M!Current.do = "check" /\ M!Current.part = "topic"
      BY <3>1 DEF M!AddUnlessThere, M!Request
    <3>3. \/ job'.todo = <<M!Add("topic"), M!AddUnlessThere("sub")>>
          \/ job'.todo = <<M!AddUnlessThere("sub")>> /\ "topic" \in has
      BY <1>4, <1>a, <3>1, <3>2
    <3>4. AddsTopicThenSub'
      BY <1>4, <1>5, <2>1, <3>2, <3>3 DEF AddsTopicThenSub, M!Add, M!AddUnlessThere
    <3>5. QED
      BY <1>3, <1>4, <1>8, <3>4
  <2>3. CASE job.todo = <<M!Add("topic"), M!AddUnlessThere("sub")>>
    <3>1. M!Current = M!Add("topic") /\ Tail(job.todo) = <<M!AddUnlessThere("sub")>>
      BY <1>2, <2>3
    <3>2. M!Current.do = "add" /\ M!Current.part = "topic"
      BY <3>1 DEF M!Add, M!Request
    <3>3. job'.todo = <<M!AddUnlessThere("sub")>>
      BY <1>4, <3>1, <3>2
    <3>4. has' = has \cup {"topic"} /\ held' = held /\ settings' = settings
      BY <1>3, <1>8, <3>2 DEF M!Effect, M!With
    <3>5. AddsTopicThenSub'
      BY <1>4, <2>1, <3>3, <3>4 DEF AddsTopicThenSub, M!Add, M!AddUnlessThere
    <3>6. QED
      BY <1>3, <1>4, <1>8, <3>5
  <2>4. CASE job.todo = <<M!AddUnlessThere("sub")>> /\ "topic" \in has
    <3>1. M!Current = M!AddUnlessThere("sub") /\ Tail(job.todo) = <<>>
      BY <1>2, <2>4
    <3>2. M!Current.do = "check" /\ M!Current.part = "sub"
      BY <3>1 DEF M!AddUnlessThere, M!Request
    <3>3. job'.todo = <<M!Add("sub")>>
      BY <1>4, <1>a, <3>1, <3>2
    <3>4. AddsTopicThenSub'
      BY <1>4, <1>5, <2>1, <2>4, <3>2, <3>3 DEF AddsTopicThenSub, M!Add, M!AddUnlessThere
    <3>5. QED
      BY <1>3, <1>4, <1>8, <3>4
  <2>5. CASE job.todo = <<M!Add("sub")>> /\ "topic" \in has
    <3>1. M!Current = M!Add("sub") /\ Tail(job.todo) = <<>>
      BY <1>2, <2>5
    <3>2. M!Current.do = "add"
      BY <3>1 DEF M!Add, M!Request
    <3>3. QED
      BY <1>4, <3>1, <3>2
  <2>6. QED
    BY <2>1, <2>2, <2>3, <2>4, <2>5 DEF AddsTopicThenSub
<1>9. CASE <<managed, job.verb>> = <<"gcp", "delete_queue">>
  <2>1. RemovesSubThenTopic
    BY <1>9 DEF CommandInv
  <2>2. CASE M!object = job.before /\ job.todo = <<M!Remove("sub"), M!Remove("topic")>>
    <3>1. M!Current = M!Remove("sub") /\ Tail(job.todo) = <<M!Remove("topic")>>
      BY <1>2, <2>2
    <3>2. M!Current.do = "remove" /\ M!Current.part = "sub"
      BY <3>1 DEF M!Remove, M!Request
    <3>3. job'.todo = <<M!Remove("topic")>>
      BY <1>4, <3>1, <3>2
    <3>4. "sub" \notin has' /\ settings' = settings
      BY <1>3, <1>9, <3>2 DEF M!Effect, M!With, M!Without
    <3>5. RemovesSubThenTopic'
      BY <1>4, <2>2, <3>3, <3>4 DEF RemovesSubThenTopic, M!Remove, M!object
    <3>6. QED
      BY <1>3, <1>4, <1>9, <3>5
  <2>3. CASE job.todo = <<M!Remove("topic")>>
    <3>1. M!Current = M!Remove("topic") /\ Tail(job.todo) = <<>>
      BY <1>2, <2>3
    <3>2. M!Current.do = "remove"
      BY <3>1 DEF M!Remove, M!Request
    <3>3. QED
      BY <1>4, <3>1, <3>2
  <2>4. QED
    BY <2>1, <2>2, <2>3 DEF RemovesSubThenTopic
<1>10. CASE <<managed, job.verb>> = <<"kafka", "update_topic">>
  <2>1. GrowsThenSets
    BY <1>10 DEF CommandInv
  <2>2. CASE M!object = job.before /\ job.todo = <<M!Grow("partitions"), M!Set("config")>>
    <3>1. M!Current = M!Grow("partitions") /\ Tail(job.todo) = <<M!Set("config")>>
      BY <1>2, <2>2
    <3>2. M!Current.do = "grow" /\ M!Current.part = "partitions"
      BY <3>1 DEF M!Grow, M!Request
    <3>3. job'.todo = <<M!Set("config")>>
      BY <1>4, <3>1, <3>2
    <3>4. has' = has /\ held' = held /\ settings' = [settings EXCEPT !.partitions = 2]
      BY <1>3, <3>2 DEF M!Effect
    <3>5. GrowsThenSets'
      BY <1>4, <2>2, <3>3, <3>4 DEF GrowsThenSets, M!Set, M!object
    <3>6. QED
      BY <1>3, <1>4, <1>10, <3>5
  <2>3. CASE job.todo = <<M!Set("config")>>
    <3>1. M!Current = M!Set("config") /\ Tail(job.todo) = <<>>
      BY <1>2, <2>3
    <3>2. M!Current.do = "set"
      BY <3>1 DEF M!Set, M!Request
    <3>3. QED
      BY <1>4, <3>1, <3>2
  <2>4. QED
    BY <2>1, <2>2, <2>3 DEF GrowsThenSets
<1>11. QED
  BY <1>7, <1>8, <1>9, <1>10 DEF Stepwise

(* No request of a stepwise command is one whose failure is ignored.        *)
LEMMA StepwiseStrict ==
    ASSUME CommandInv, Alone, <<managed, job.verb>> \in Stepwise
    PROVE  ~M!Current.lax /\ M!Current.do # "drain"
<1>1. CommandTypes /\ job # M!NotNow
  BY DEF CommandInv, Alone
<1>2. M!Current = job.todo[1]
  BY <1>1, TodoTypes
<1>3. LooksForTopic \/ AddsTopicThenSub \/ RemovesSubThenTopic \/ GrowsThenSets
  BY DEF CommandInv, Stepwise
<1>4. \E p : M!Current \in {M!AddUnlessThere(p), M!Add(p), M!Remove(p), M!Grow(p), M!Set(p)}
  <2>1. CASE LooksForTopic
    BY <1>2, <2>1 DEF LooksForTopic
  <2>2. CASE AddsTopicThenSub
    BY <1>2, <2>2 DEF AddsTopicThenSub
  <2>3. CASE RemovesSubThenTopic
    BY <1>2, <2>3 DEF RemovesSubThenTopic
  <2>4. CASE GrowsThenSets
    BY <1>2, <2>4 DEF GrowsThenSets
  <2>5. QED
    BY <1>3, <2>1, <2>2, <2>3, <2>4
<1>5. QED
  BY <1>4 DEF M!AddUnlessThere, M!Add, M!Remove, M!Grow, M!Set, M!Request

(* A command that starts has done nothing.                                  *)
LEMMA StartShapes ==
    ASSUME CommandInv, NEW v, M!Start(v)
    PROVE  CommandInv'
<1>1. /\ CommandTypes' /\ managed' = managed /\ M!object' = M!object
      /\ PlanFits(v, M!Plan[managed][v])
      /\ job'.verb = v /\ job'.todo = M!Plan[managed][v]
      /\ job'.count = 0 /\ job'.removed = 0
     
           /\ job'.before = M!object /\ job'.before = <<has, held, settings>>
  BY StartTypes DEF CommandInv
<1> DEFINE plan == M!Plan[managed][v]
<1>2. PlanFits(v, plan) /\ job'.todo = plan
  BY <1>1
<1> HIDE DEF plan
<1>3. UNCHANGED <<has, held, settings>>
  BY <1>1 DEF M!object
<1>4. ASSUME Alone', <<managed, v>> \notin Stepwise PROVE ReadsFirst'
  <2>1. <<managed, v>> \notin M!KnownDeviations
    BY <1>1, <1>4 DEF Alone, M!KnownDeviations
  <2>2. InOrder(v, plan)
    BY <1>2, <1>4, <2>1 DEF PlanFits
  <2>3. InOrder(job.verb, job.todo)'
    BY <1>1, <1>2, <2>2, InOrderStays
  <2>4. v = "update_limit" => Len(plan) = 3
    BY <1>2 DEF PlanFits
  <2>5. M!object' = job'.before
    BY <1>1
  <2>6. QED
    BY <1>1, <1>2, <2>3, <2>4, <2>5 DEF ReadsFirst
<1>5. <<managed, v>> = <<"gcp", "create_topic">> => LooksForTopic'
  BY <1>1, <1>2 DEF PlanFits, LooksForTopic, M!AddUnlessThere
<1>6. <<managed, v>> = <<"gcp", "create_queue">> => AddsTopicThenSub'
  BY <1>1, <1>2, <1>3 DEF PlanFits, AddsTopicThenSub, M!AddUnlessThere
<1>7. <<managed, v>> = <<"gcp", "delete_queue">> => RemovesSubThenTopic'
  BY <1>1, <1>2 DEF PlanFits, RemovesSubThenTopic, M!Remove
<1>8. <<managed, v>> = <<"kafka", "update_topic">> => GrowsThenSets'
  BY <1>1, <1>2 DEF PlanFits, GrowsThenSets, M!Grow, M!Set
<1>9. QED
  BY <1>1, <1>4, <1>5, <1>6, <1>7, <1>8 DEF CommandInv, Stepwise

(* A failure that is ignored, of a request with or without its effect.      *)
LEMMA IgnoredOn ==
    ASSUME CommandInv, job # M!NotNow, managed' = managed, M!AfterFailure,
           M!Effect(M!Current) \/ UNCHANGED M!object, CommandTypes'
    PROVE  CommandInv'
<1>1. CASE ~Alone'
  BY <1>1 DEF CommandInv
<1>2. CASE Alone'
  <2>1. job \in Commands /\ Tail(job.todo) \in Seq(Requests)
    BY TodoTypes DEF CommandInv
  <2>2. /\ M!Done.verb = job.verb /\ M!Done.touched = job.touched /\ M!Done.before = job.before
        /\ M!Done.misled = job.misled
        /\ M!Done.todo = Tail(job.todo) /\ M!Done.removed = job.removed /\ M!Done.count = job.count
        /\ M!Done \in Commands
    BY <2>1 DEF M!Done, Commands
  <2>3. /\ M!Current.lax \/ M!Current.do = "drain"
        /\ job' = M!Done /\ M!Done.todo # <<>>
    BY <1>2 DEF M!AfterFailure, M!Fail, M!GoOn, Alone
  <2>4. Alone /\ job'.verb = job.verb
    BY <1>2, <2>2, <2>3 DEF Alone, M!KnownDeviations
  <2>5. <<managed, job.verb>> \notin Stepwise
    BY <2>3, <2>4, StepwiseStrict
  <2>6. Reads(M!Current) /\ M!Current.lax
    BY <2>3, <2>4, <2>5, AloneWhere
  <2>7. M!Effect(M!Current)
    BY <2>6 DEF M!Effect, Reads, M!Keeps
  <2>8. job' \in Commands
    BY <2>2, <2>3, SameBroker
  <2>9. ReadsFirst'
    BY <2>2, <2>3, <2>4, <2>5, <2>6, <2>7, <2>8, ReadOn
  <2>10. QED
    BY <2>4, <2>5, <2>9 DEF CommandInv, Stepwise
<1>3. QED
  BY <1>1, <1>2

(* Every step keeps the invariant.                                          *)
LEMMA CommandStep == CommandInv /\ [M!Next]_(M!vars) => CommandInv'
<1> SUFFICES ASSUME CommandInv, [M!Next]_(M!vars) PROVE CommandInv'
  OBVIOUS
<1>1. CommandTypes /\ CommandTypes'
  BY CommandTypesStep DEF CommandInv
<1>2. ASSUME NEW v, M!Start(v) PROVE CommandInv'
  BY <1>2, StartShapes
<1>3. CASE job' = M!NotNow
  BY <1>1, <1>3 DEF CommandInv, Alone
<1>4. CASE UNCHANGED M!vars
  <2>1. UNCHANGED <<managed, has, held, settings, job>>
    BY <1>4 DEF M!vars, M!object
  <2>2. CASE ~Alone
    BY <1>1, <2>1, <2>2 DEF CommandInv, Alone, M!KnownDeviations
  <2>3. CASE Alone
    <3>1. <<managed, job.verb>> \notin Stepwise => ReadsFirst'
      <4>1. HAVE <<managed, job.verb>> \notin Stepwise
      <4>2. ReadsFirst
        BY <2>3, <4>1 DEF CommandInv
      <4>3. PICK v, s : v = job.verb /\ s = job.todo
        OBVIOUS
      <4>4. InOrder(v, s) /\ job'.verb = v /\ job'.todo = s
        BY <2>1, <4>2, <4>3 DEF ReadsFirst
      <4>5. InOrder(job.verb, job.todo)'
        BY <2>1, <4>4, InOrderStays
      <4>6. QED
        BY <2>1, <4>2, <4>5 DEF ReadsFirst, M!object
    <3>2. LooksForTopic => LooksForTopic'
      BY <2>1 DEF LooksForTopic, M!object, M!Add, M!AddUnlessThere
    <3>3. AddsTopicThenSub => AddsTopicThenSub'
      BY <2>1 DEF AddsTopicThenSub, M!Add, M!AddUnlessThere
    <3>4. RemovesSubThenTopic => RemovesSubThenTopic'
      BY <2>1 DEF RemovesSubThenTopic, M!object, M!Remove
    <3>5. GrowsThenSets => GrowsThenSets'
      BY <2>1 DEF GrowsThenSets, M!object, M!Grow, M!Set
    <3>6. QED
      BY <1>1, <2>1, <2>3, <3>1, <3>2, <3>3, <3>4, <3>5 DEF CommandInv, Stepwise
  <2>4. QED
    BY <2>2, <2>3
<1>5. CASE M!GiveUp
  BY <1>1, <1>5 DEF M!GiveUp, CommandInv, CommandTypes, Alone, Commands
<1>6. CASE M!Answered /\ job' # M!NotNow
  <2>1. PICK j \in Commands :
            /\ M!GoOn(j) /\ j.verb = job.verb /\ j.touched = job.touched /\ j.before = job.before
            /\ j.misled = job.misled
            /\ \/ M!Current.do = "drain"
               \/ M!Current.do = "check"
               \/ j.todo = Tail(job.todo)
            /\ IF M!Current.do = "find"
               THEN j.count = held[M!Current.part] /\ j.filter = settings.filter
               ELSE j.count \in {job.count, held[M!Current.part]}
            /\ j.removed = job.removed \/ M!Current.do \in {"clear", "drain"}
    BY <1>1, <1>6, AnsweredGoesOn
  <2>2. job # M!NotNow /\ managed' = managed /\ M!Effect(M!Current)
    BY <1>1, <1>6, AnsweredGoesOn
  <2>3. job' = j /\ j.todo # <<>>
    BY <1>6, <2>1 DEF M!GoOn
  <2>4. CASE ~Alone'
    BY <1>1, <2>4 DEF CommandInv
  <2>5. CASE Alone'
    <3>1. Alone /\ job'.verb = job.verb
      BY <2>1, <2>2, <2>3, <2>5 DEF Alone, M!KnownDeviations
    <3>2. CASE <<managed, job.verb>> \in Stepwise
      BY <1>1, <1>6, <2>2, <3>1, <3>2, StepwiseOn DEF CommandInv, Stepwise
    <3>3. CASE <<managed, job.verb>> \notin Stepwise
      <4>1. M!Current.do \notin {"drain", "check"} /\ j.todo = Tail(job.todo)
        BY <2>1, <3>1, <3>3, AloneWhere
      <4>2. Len(job.todo) > 1
        <5>1. Len(job.todo) \in Nat /\ Len(job.todo) >= 1 /\ job.todo \in Seq(Requests)
          BY <1>1, <2>2, TodoTypes DEF Commands
        <5>2. ASSUME NEW s \in Seq(Requests), Tail(s) # <<>>, Len(s) >= 1 PROVE Len(s) > 1
          BY <5>2
        <5>3. QED
          BY <2>3, <4>1, <5>1, <5>2
      <4>3. Reads(M!Current)
        BY <3>1, <3>3, <4>2, AloneWhere
      <4>4. j.removed = job.removed
        BY <2>1, <4>3 DEF Reads
      <4>5. job' \in Commands
        BY <2>2, <2>3, SameBroker
      <4>6. ReadsFirst'
        BY <2>1, <2>2, <2>3, <3>1, <3>3, <4>1, <4>4, <4>5, ReadOn
      <4>7. QED
        BY <1>1, <2>2, <3>1, <3>3, <4>6 DEF CommandInv, Stepwise
    <3>4. QED
      BY <3>2, <3>3
  <2>6. QED
    BY <2>4, <2>5
<1>7. CASE M!Refused \/ M!Fails \/ M!AnswerLost
  <2>1. job # M!NotNow /\ managed' = managed /\ M!AfterFailure
    BY <1>7 DEF M!Refused, M!Fails, M!AnswerLost, M!NotNow
  <2>2. M!Effect(M!Current) \/ UNCHANGED M!object
    BY <1>7 DEF M!Refused, M!Fails, M!AnswerLost
  <2>3. QED
    BY <1>1, <2>1, <2>2, IgnoredOn
<1>8. CASE M!ByOthers
  <2>1. CASE job = M!NotNow
    BY <1>3, <1>8, <2>1 DEF M!ByOthers, M!NotNow
  <2>2. CASE job # M!NotNow
    <3>1. job \in Commands
      BY <1>1, <2>2 DEF CommandTypes
    <3>2. job'.touched = TRUE
      BY <1>8, <3>1 DEF M!ByOthers, Commands
    <3>3. QED
      BY <1>1, <3>2 DEF CommandInv, Alone
  <2>3. QED
    BY <2>1, <2>2
<1>9. CASE M!Misled
  <2> DEFINE j == [M!Done EXCEPT !.filter = 0, !.misled = TRUE]
  <2>1. job # M!NotNow /\ M!GoOn(j)
    BY <1>9 DEF M!Misled, M!NotNow
  <2>2. job \in Commands
    BY <1>1, <2>1 DEF CommandTypes
  <2>3. j.misled
    BY <2>2 DEF M!Done, Commands
  <2> HIDE DEF j
  <2>4. CASE job' = j
    BY <1>1, <2>3, <2>4 DEF CommandInv, Alone
  <2>5. QED
    BY <1>3, <2>1, <2>4 DEF M!GoOn
<1>10. QED
  BY <1>2, <1>3, <1>4, <1>5, <1>6, <1>7, <1>8, <1>9
  DEF M!Next, M!Command, M!Repeat, M!OtherSends, M!OtherAdds, M!OtherRemoves, M!OtherSetsFilter

(* Something is left of two requests or more.                               *)
LEMMA LongTail ==
    ASSUME NEW s \in Seq(Requests), Len(s) > 1
    PROVE  Tail(s) # <<>>
<1>1. PICK t : t = Tail(s)
  OBVIOUS
<1>2. Len(s) \in Nat /\ Len(t) = Len(s) - 1
  BY <1>1
<1>3. Len(t) > 0
  BY <1>2
<1>4. t # <<>>
  BY <1>3
<1>5. QED
  BY <1>1, <1>4

(* The last request of a command that reads first does what it says.        *)
LEMMA LastDoesIt ==
    ASSUME CommandInv, Alone, <<managed, job.verb>> \notin Stepwise, managed' = managed,
           M!Effect(M!Current), Tail(job.todo) = <<>>, NEW v, NEW before,
           v = job.verb, before = job.before
    PROVE  M!IsAchieved(v)' /\ M!NothingElse(v, before)' /\ DoesIt(v, M!Current)
<1>1. CommandTypes /\ job # M!NotNow /\ ReadsFirst
  BY AloneWhere DEF CommandInv, Alone
<1>2. Len(job.todo) = 1
  <2>1. Len(job.todo) \in Nat /\ Len(job.todo) >= 1 /\ job.todo \in Seq(Requests)
    BY <1>1, TodoTypes DEF Commands
  <2>2. ~(Len(job.todo) > 1)
    BY <2>1, LongTail
  <2>3. ASSUME NEW n \in Nat, n >= 1, ~(n > 1) PROVE n = 1
    BY <2>3
  <2>4. QED
    BY <2>1, <2>2, <2>3
<1>3. DoesIt(v, M!Current) /\ M!Current \in Requests
  BY <1>1, <1>2, AloneWhere, TodoTypes
<1>4. v = "update_limit" => job.filter = settings.filter
  BY <1>1, <1>2 DEF ReadsFirst
<1>5. before = M!object
  BY <1>1 DEF ReadsFirst
<1>6. QED
  BY <1>1, <1>3, <1>4, <1>5, DoneAsSaid

(* The last request of a stepwise command leaves what the command says.     *)
LEMMA LastStepDoesIt ==
    ASSUME CommandInv, Alone, <<managed, job.verb>> \in Stepwise, managed' = managed,
           M!Effect(M!Current), M!Current.do # "check" \/ M!Current.part \in has,
           Tail(job.todo) = <<>>, NEW v, NEW before, v = job.verb, before = job.before
    PROVE  M!IsAchieved(v)' /\ M!NothingElse(v, before)'
<1>1. CommandTypes /\ job # M!NotNow /\ v \notin {"purge", "purge_subscription"}
  BY DEF CommandInv, Alone, Stepwise
<1>2. M!Current = job.todo[1]
  BY <1>1, TodoTypes
<1>3. /\ has \subseteq M!Parts[managed] /\ held \in [M!Parts[managed] -> Nat]
      /\ settings \in [SettingKeys -> Nat]
  BY <1>1 DEF CommandTypes, Objects, M!object
<1>4. M!Emptied(v)' = {} /\ M!Parts[managed]' = M!Parts[managed]
  BY <1>1 DEF M!Emptied
<1>5. ASSUME NEW a, NEW b PROVE Tail(<<a, b>>) # <<>>
  <2>1. <<a, b>> \in Seq({a, b}) /\ Len(<<a, b>>) = 2
    OBVIOUS
  <2>2. Len(Tail(<<a, b>>)) = 1
    BY <2>1
  <2>3. QED
    BY <2>2
<1>6. CASE <<managed, v>> = <<"gcp", "create_topic">>
  <2>1. LooksForTopic
    BY <1>6 DEF CommandInv
  <2>2. "topic" \in has' /\ held' = held /\ settings' = settings
        /\ (has' = has \/ has' = has \cup {"topic"})
    <3>1. CASE M!Current = M!AddUnlessThere("topic")
      <4>1. M!Current.do = "check" /\ M!Current.part = "topic"
        BY <3>1 DEF M!AddUnlessThere, M!Request
      <4>2. QED
        BY <4>1 DEF M!Effect, M!Keeps, M!object
    <3>2. CASE M!Current = M!Add("topic")
      <4>1. M!Current.do = "add" /\ M!Current.part = "topic"
        BY <3>2 DEF M!Add, M!Request
      <4>2. QED
        BY <4>1 DEF M!Effect, M!With
    <3>3. QED
      BY <1>2, <2>1, <3>1, <3>2 DEF LooksForTopic
  <2>3. before[1] = has /\ before[2] = held /\ before[3] = settings
    BY <2>1 DEF LooksForTopic, M!object
  <2>4. M!About(v)' = {"topic"} /\ M!Creates(v) /\ M!SetBy(v) = {}
    BY <1>6 DEF M!About, M!Creates, M!SetBy
  <2>5. M!IsAchieved(v)'
    BY <1>4, <2>2, <2>4 DEF M!IsAchieved, M!Creates, M!SetBy
  <2>6. M!NothingElse(v, before)'
    BY <1>3, <1>4, <2>2, <2>3, <2>4, <1>6 DEF M!NothingElse, M!Creates, M!Parts
  <2>7. QED
    BY <2>5, <2>6
<1>7. CASE <<managed, v>> = <<"gcp", "create_queue">>
  <2>1. AddsTopicThenSub
    BY <1>7 DEF CommandInv
  <2>2. job.todo \in {<<M!AddUnlessThere("sub")>>, <<M!Add("sub")>>} /\ "topic" \in has
    BY <1>5, <2>1 DEF AddsTopicThenSub
  <2>3. "topic" \in has' /\ "sub" \in has' /\ held' = held /\ settings' = settings
    <3>1. CASE M!Current = M!AddUnlessThere("sub")
      <4>1. M!Current.do = "check" /\ M!Current.part = "sub"
        BY <3>1 DEF M!AddUnlessThere, M!Request
      <4>2. QED
        BY <2>2, <4>1 DEF M!Effect, M!Keeps, M!object
    <3>2. CASE M!Current = M!Add("sub")
      <4>1. M!Current.do = "add" /\ M!Current.part = "sub"
        BY <3>2 DEF M!Add, M!Request
      <4>2. QED
        BY <2>2, <4>1 DEF M!Effect, M!With
    <3>3. QED
      BY <1>2, <2>2, <3>1, <3>2
  <2>4. before[2] = held /\ before[3] = settings
    BY <2>1 DEF AddsTopicThenSub
  <2>5. M!About(v)' = {"topic", "sub"} /\ M!Creates(v) /\ M!SetBy(v) = {}
        /\ M!Parts[managed] = {"topic", "sub"}
    BY <1>7 DEF M!About, M!Creates, M!SetBy, M!QueueParts, M!Parts
  <2>6. M!IsAchieved(v)'
    BY <1>4, <2>3, <2>5 DEF M!IsAchieved, M!Creates, M!SetBy
  <2>7. M!NothingElse(v, before)'
    BY <1>4, <2>3, <2>4, <2>5 DEF M!NothingElse
  <2>8. QED
    BY <2>6, <2>7
<1>8. CASE <<managed, v>> = <<"gcp", "delete_queue">>
  <2>1. RemovesSubThenTopic
    BY <1>8 DEF CommandInv
  <2>2. job.todo = <<M!Remove("topic")>> /\ "sub" \notin has /\ settings = before[3]
    BY <1>5, <2>1 DEF RemovesSubThenTopic
  <2>3. M!Current.do = "remove" /\ M!Current.part = "topic"
    BY <1>2, <2>2 DEF M!Remove, M!Request
  <2>4. M!Parts[managed] = {"topic", "sub"}
    BY <1>8 DEF M!Parts
  <2>5. has' = {} /\ settings' = settings
    BY <1>3, <1>8, <2>2, <2>3, <2>4 DEF M!Effect, M!With, M!Without
  <2>6. M!About(v)' = {"topic", "sub"} /\ ~M!Creates(v) /\ M!SetBy(v) = {}
    BY <1>8 DEF M!About, M!Creates, M!SetBy, M!QueueParts
  <2>7. M!IsAchieved(v)'
    BY <1>4, <2>5, <2>6 DEF M!IsAchieved, M!Creates, M!SetBy
  <2>8. M!NothingElse(v, before)'
    BY <1>4, <2>2, <2>4, <2>5, <2>6 DEF M!NothingElse
  <2>9. QED
    BY <2>7, <2>8
<1>9. CASE <<managed, v>> = <<"kafka", "update_topic">>
  <2>1. GrowsThenSets
    BY <1>9 DEF CommandInv
  <2>2. /\ job.todo = <<M!Set("config")>> /\ has = before[1] /\ held = before[2]
        /\ settings = [before[3] EXCEPT !.partitions = 2]
    BY <1>5, <2>1 DEF GrowsThenSets
  <2>3. M!Current.do = "set" /\ M!Current.part = "config"
    BY <1>2, <2>2 DEF M!Set, M!Request
  <2>4. has' = has /\ held' = held /\ settings' = [settings EXCEPT !.config = 2]
    BY <2>3 DEF M!Effect
  <2>5. before[3] \in [SettingKeys -> Nat]
    BY <1>1 DEF CommandTypes, Commands, Objects
  <2>6. /\ DOMAIN settings' = SettingKeys /\ settings'["partitions"] = 2 /\ settings'["config"] = 2
        /\ \A key \in SettingKeys \ {"partitions", "config"} : settings'[key] = before[3][key]
    BY <2>2, <2>4, <2>5 DEF SettingKeys
  <2>7. M!About(v)' = {} /\ ~M!Creates(v) /\ M!SetBy(v)' = {"partitions", "config"}
    BY <1>9 DEF M!About, M!Creates, M!SetBy
  <2>8. M!IsAchieved(v)'
    BY <1>4, <2>6, <2>7 DEF M!IsAchieved, M!Creates
  <2>9. M!NothingElse(v, before)'
    BY <1>4, <2>2, <2>4, <2>6, <2>7 DEF M!NothingElse
  <2>10. QED
    BY <2>8, <2>9
<1>10. QED
  BY <1>6, <1>7, <1>8, <1>9 DEF Stepwise

(* A command that reports success and was not misled never has been.        *)
LEMMA NeverMisled ==
    ASSUME CommandTypes, [M!Next]_(M!vars), job.active, report'.ok, ~report'.misled
    PROVE  ~job.misled /\ ~M!Misled
<1>1. job # M!NotNow /\ ~report.ok /\ job \in Commands
  BY DEF CommandTypes, M!NotNow
<1>2. ASSUME NEW j, M!GoOn(j) PROVE ~j.misled
  BY <1>1, <1>2 DEF M!GoOn
<1>3. M!Done.misled = job.misled
  BY <1>1 DEF M!Done, Commands
<1>4. ~M!Misled
  <2> SUFFICES ASSUME M!Misled PROVE FALSE
    OBVIOUS
  <2> DEFINE j == [M!Done EXCEPT !.filter = 0, !.misled = TRUE]
  <2>1. M!GoOn(j)
    BY DEF M!Misled
  <2>2. j.misled
    BY <1>1 DEF M!Done, Commands
  <2> HIDE DEF j
  <2>3. QED
    BY <1>2, <2>1, <2>2
<1>5. CASE M!Answered
  BY <1>2, <1>4, <1>5, AnsweredGoesOn
<1>6. CASE M!Refused \/ M!Fails \/ M!AnswerLost
  <2>1. M!AfterFailure
    BY <1>6 DEF M!Refused, M!Fails, M!AnswerLost
  <2>2. M!GoOn(M!Done)
    BY <2>1 DEF M!AfterFailure, M!Fail, M!NoReport
  <2>3. QED
    BY <1>2, <1>3, <1>4, <2>2
<1>7. report' # report /\ ~ \E w : M!Start(w)
  BY <1>1 DEF M!Start, M!NoReport
<1>8. QED
  BY <1>4, <1>5, <1>6, <1>7
  DEF M!Next, M!Command, M!Repeat, M!GiveUp, M!OtherSends, M!OtherAdds, M!OtherRemoves,
      M!OtherSetsFilter, M!ByOthers, M!vars

(* A step with which a command reports success.                             *)
LEMMA SuccessIsTrue ==
    ASSUME CommandInv, [M!Next]_(M!vars), job.active, report'.ok, ~job.touched, ~report'.misled,
           <<managed, job.verb>> \notin M!KnownDeviations,
           NEW v, NEW before, v = job.verb, before = job.before
    PROVE  M!IsAchieved(v)' /\ M!NothingElse(v, before)' /\ (report'.said > 0 => M!Removed(v, before))
<1>1. CommandTypes /\ job # M!NotNow /\ Alone /\ ~report.ok /\ job \in Commands /\ ~M!Misled
  BY NeverMisled DEF CommandInv, CommandTypes, Alone, M!NotNow
<1>2. CASE M!Answered
  <2>1. managed' = managed /\ M!Effect(M!Current)
    BY <1>1, <1>2, AnsweredGoesOn
  <2>2. PICK j \in Commands :
            /\ M!GoOn(j) /\ j.verb = job.verb
            /\ \/ M!Current.do = "drain"
               \/ /\ M!Current.do = "check" /\ M!Current.part \notin has
                  /\ j.todo = <<M!Add(M!Current.part)>> \o Tail(job.todo)
               \/ /\ M!Current.do # "check" \/ M!Current.part \in has
                  /\ j.todo = Tail(job.todo)
            /\ IF M!Current.do = "find" THEN j.count = held[M!Current.part]
               ELSE j.count = job.count \/ M!Current.do = "see"
            /\ IF M!Current.do = "clear" THEN j.removed = job.removed + held[M!Current.part]
               ELSE j.removed = job.removed \/ M!Current.do = "drain"
    BY <1>1, <1>2, AnsweredGoesOn
  <2>3. j.todo = <<>> /\ report'.said = M!Said(j)
    BY <1>1, <2>2 DEF M!GoOn
  <2>4. M!Current.do # "drain"
    BY <1>1, AloneWhere, StepwiseStrict
  <2>5. Tail(job.todo) = <<>> /\ (M!Current.do # "check" \/ M!Current.part \in has)
    <3>1. ASSUME NEW a \in Requests, NEW s \in Seq(Requests) PROVE <<a>> \o s # <<>>
      <4>1. Len(<<a>> \o s) = 1 + Len(s) /\ Len(s) \in Nat
        OBVIOUS
      <4>2. Len(<<a>> \o s) # 0
        BY <4>1
      <4>3. QED
        BY <4>2
    <3>2. Tail(job.todo) \in Seq(Requests) /\ M!Current \in Requests /\ Known(M!Current)
      BY <1>1, TodoTypes
    <3>3. M!Current.do = "check" => M!Add(M!Current.part) \in Requests
      BY <3>2, Added
    <3>4. QED
      BY <2>2, <2>3, <2>4, <3>1, <3>2, <3>3
  <2>6. CASE <<managed, job.verb>> \in Stepwise
    <3>1. M!Said(j) = 0
      BY <2>2, <2>6 DEF M!Said, Stepwise
    <3>2. QED
      BY <1>1, <2>1, <2>3, <2>5, <2>6, <3>1, LastStepDoesIt
  <2>7. CASE <<managed, job.verb>> \notin Stepwise
    <3>1. M!IsAchieved(v)' /\ M!NothingElse(v, before)' /\ DoesIt(v, M!Current)
      BY <1>1, <2>1, <2>5, <2>7, LastDoesIt
    <3>2. ASSUME M!Said(j) > 0 PROVE M!Removed(v, before)
      <4>1. v \in {"purge", "purge_subscription"} /\ managed # "gcp"
        BY <2>2, <3>2 DEF M!Said
      <4>2. /\ ReadsFirst /\ before[2] = held
        BY <1>1, <2>7, AloneWhere
      <4>3. M!Emptied(v) = {"queue"}
        BY <4>1, <4>2 DEF ReadsFirst, InOrder
      <4>4. M!Current.do = "clear" /\ M!Current.part = "queue" /\ "queue" \in M!Parts[managed]
        BY <3>1, <4>3 DEF DoesIt
      <4>5. j.count = job.count /\ j.removed = job.removed + held["queue"]
        BY <2>2, <4>4
      <4>6. job.count \in {0, held["queue"]} /\ job.removed = 0
        BY <4>1, <4>2 DEF ReadsFirst
      <4>7. held["queue"] \in Nat
        BY <1>1, <4>4 DEF CommandTypes, Objects, M!object
      <4>8. M!Said(j) \in {j.count, j.removed}
        BY <2>2, <4>1 DEF M!Said
      <4>9. held["queue"] > 0
        BY <3>2, <4>5, <4>6, <4>7, <4>8
      <4>10. QED
        BY <4>2, <4>3, <4>9 DEF M!Removed
    <3>3. QED
      BY <2>3, <3>1, <3>2
  <2>8. QED
    BY <2>6, <2>7
<1>3. CASE M!Refused \/ M!Fails \/ M!AnswerLost
  <2>1. M!AfterFailure /\ managed' = managed /\ (M!Effect(M!Current) \/ UNCHANGED M!object)
    BY <1>3 DEF M!Refused, M!Fails, M!AnswerLost
  <2>2. M!Current.lax \/ M!Current.do = "drain"
    BY <1>1, <2>1 DEF M!AfterFailure, M!Fail, M!NoReport
  <2>3. <<managed, job.verb>> \notin Stepwise
    BY <1>1, <2>2, StepwiseStrict
  <2>4. Reads(M!Current)
    BY <1>1, <2>2, <2>3, AloneWhere
  <2>5. M!Effect(M!Current)
    BY <2>1, <2>4 DEF M!Effect, Reads, M!Keeps
  <2>6. M!Done.todo = Tail(job.todo) /\ M!Done.verb = job.verb
    BY <1>1 DEF M!Done, Commands
  <2>7. Tail(job.todo) = <<>> /\ report'.said = M!Said(M!Done)
    BY <1>1, <2>1, <2>2, <2>6 DEF M!AfterFailure, M!GoOn
  <2>8. M!IsAchieved(v)' /\ M!NothingElse(v, before)' /\ DoesIt(v, M!Current)
    BY <1>1, <2>1, <2>3, <2>5, <2>7, LastDoesIt
  <2>9. v \notin {"purge", "purge_subscription"} \/ managed = "gcp"
    <3>1. M!Emptied(v) = {}
      BY <2>4, <2>8 DEF DoesIt, Reads
    <3>2. QED
      BY <3>1 DEF M!Emptied
  <2>10. M!Said(M!Done) = 0
    BY <2>6, <2>9 DEF M!Said
  <2>11. QED
    BY <2>7, <2>8, <2>10
<1>4. CASE report' = report
  BY <1>1, <1>4
<1>5. ~ \E w : M!Start(w)
  BY DEF M!Start, M!NoReport
<1>6. QED
  BY <1>1, <1>2, <1>3, <1>4, <1>5
  DEF M!Next, M!Command, M!Repeat, M!GiveUp, M!OtherSends, M!OtherAdds, M!OtherRemoves,
      M!OtherSetsFilter,
      M!ByOthers, M!vars

(* A management command that reports success has done what it says and      *)
(* nothing else to the object (cmd/manage.go, broker/*/manage.go), unless   *)
(* it took the broker's "no" for a "yes", for any number of commands,       *)
(* repetitions, faults and other clients.                                   *)
THEOREM CommandsDoWhatTheySay == M!Spec => DoesWhatItSays
<1>1. ASSUME M!Init PROVE CommandInv
  <2>1. managed \in {"rabbitmq", "redis", "awssqs", "azuresb", "gcp", "nats", "artemis", "pulsar",
                     "kafka"}
    BY <1>1, MCServicesAssumption DEF M!Init
  <2>2. has \subseteq M!Parts[managed] /\ held \in [M!Parts[managed] -> Nat]
    BY <1>1 DEF M!Init
  <2>3. settings \in [SettingKeys -> Nat]
    BY <1>1 DEF M!Init, SettingKeys
  <2>4. CommandTypes
    BY <1>1, <2>2, <2>3 DEF CommandTypes, Objects, M!object, M!Init, M!NoReport
  <2>5. QED
    BY <1>1, <2>4 DEF CommandInv, Alone, M!Init
<1>2. CommandInv /\ [M!Next]_(M!vars) =>
        [(/\ job.active /\ report'.ok /\ ~job.touched /\ ~report'.misled
          /\ <<managed, job.verb>> \notin M!KnownDeviations)
          => \A v \in {job.verb}, before \in {job.before} :
               /\ M!IsAchieved(v)'
               /\ M!NothingElse(v, before)'
               /\ report'.said > 0 => M!Removed(v, before)]_(M!vars)
  BY SuccessIsTrue
<1>3. QED
  BY <1>1, <1>2, CommandStep, PTL DEF M!Spec, DoesWhatItSays, M!DoesWhatItSays
=============================================================================
