----------------------------- MODULE McpServer -----------------------------
(***************************************************************************)
(* The MCP server (mcp/): an agent's requests come in as lines of stdin,   *)
(* read by a goroutine and handled one after the other, or as HTTP posts,  *)
(* each handled by its own goroutine.  A tool opens a connection of its    *)
(* own, makes its calls to the broker and answers with what it counted.    *)
(***************************************************************************)
EXTENDS Integers, Sequences, FiniteSets, SequencesExt

CONSTANTS
    Kinds,       \* the requests explored
    MaxRequests, \* bound: requests of the agent
    MaxHiccups   \* bound: calls that fail, panic or lose their answer

VARIABLES
    transport, \* "stdio" or "http"
    asked,     \* what the agent has sent, in order
    stdin,     \* "open", "eof" or "broken" behind the last line
    reader,    \* the reading goroutine: how many lines it has read, and what it is at
    scanErr,   \* the read error waiting in its channel
    loop,      \* "select", "busy", "write", or why the server ended
    signal,    \* the context has ended
    work,      \* per request: how far it is, the calls left, what it counted
    did,       \* per request: what it really did at the broker
    answers,   \* the requests answered, in the order of the answers
    adapters,  \* the requests whose connection is open
    hiccups

vars == <<transport, asked, stdin, reader, scanErr, loop, signal, work, did, answers, adapters, hiccups>>

Requests == 1..MaxRequests
Idle == [at |-> "none", left |-> <<>>, sent |-> 0, got |-> 0, ok |-> TRUE]

Init ==
    /\ transport \in {"stdio", "http"}
    /\ asked = <<>>
    /\ stdin = "open"
    /\ reader = [read |-> 0, at |-> "reading"]
    /\ scanErr = FALSE
    /\ loop = "select"
    /\ signal = FALSE
    /\ work = [i \in Requests |-> Idle]
    /\ did = [i \in Requests |-> [put |-> 0, taken |-> 0]]
    /\ answers = <<>>
    /\ adapters = {}
    /\ hiccups = 0

Serving == loop \in {"select", "busy", "write"}

agent == <<asked, stdin>>
pump == <<reader, scanErr>>

----------------------------------------------------------------------------
(* The agent.                                                               *)

Asks(kind) ==
    /\ stdin = "open" /\ Len(asked) < MaxRequests
    /\ asked' = Append(asked, kind)
    /\ UNCHANGED <<transport, stdin, pump, loop, signal, work, did, answers, adapters, hiccups>>

Hangup(how) ==
    /\ transport = "stdio" /\ stdin = "open"
    /\ stdin' = how
    /\ UNCHANGED <<transport, asked, pump, loop, signal, work, did, answers, adapters, hiccups>>

Signal ==
    /\ ~signal /\ Serving
    /\ signal' = TRUE
    /\ UNCHANGED <<transport, agent, pump, loop, work, did, answers, adapters, hiccups>>

----------------------------------------------------------------------------
(* The reading goroutine of ServeStdio.  lines is unbuffered: it holds a    *)
(* line until the loop takes it, and closes lines when there are no more.   *)

ReadsLine ==
    /\ reader.at = "reading" /\ reader.read < Len(asked)
    /\ reader' = [read |-> reader.read + 1, at |-> "holding"]
    /\ UNCHANGED scanErr

ReadsEnd ==
    /\ reader.at = "reading" /\ reader.read = Len(asked) /\ stdin # "open"
    /\ reader' = [reader EXCEPT !.at = "closed"]
    /\ scanErr' = (stdin = "broken")

(* Mutant: the error is announced before the line it came with is handed on. *)
ReaderReadsErrorFirst ==
    /\ transport = "stdio" /\ Serving
    /\ \/ ReadsLine \/ ReadsEnd
       \/ /\ reader.at = "holding" /\ reader.read = Len(asked) /\ stdin = "broken"
          /\ scanErr' = TRUE /\ UNCHANGED reader
    /\ UNCHANGED <<transport, agent, loop, signal, work, did, answers, adapters, hiccups>>

ReaderReads ==
    /\ transport = "stdio" /\ Serving
    /\ ReadsLine \/ ReadsEnd
    /\ UNCHANGED <<transport, agent, loop, signal, work, did, answers, adapters, hiccups>>

----------------------------------------------------------------------------
(* handle, route, toolsCall: what a request comes to.  Tools take their     *)
(* calls to the broker, the others are answered at once, or not at all.     *)

Tools == {"send", "receive", "request", "peek", "ping", "hook"}

(* send and publish: count times.  The hooks of the management tools        *)
(* connect for themselves.                                                  *)
SendCalls == <<"open", "put", "put">>
ReceiveCalls == <<"open", "take", "take">>
PeekCalls == <<"open", "look", "look">>
RequestCalls == <<"open", "put", "take">>

Calls(kind) ==
    CASE kind = "send" -> SendCalls
      [] kind = "receive" -> ReceiveCalls
      [] kind = "peek" -> PeekCalls
      [] kind = "request" -> RequestCalls
      [] kind = "ping" -> <<"open">>
      [] kind = "hook" -> <<"look">>
      [] OTHER -> <<>>

Begin(i) ==
    work' = [work EXCEPT ![i] =
        [Idle EXCEPT !.at = IF asked[i] = "notification" THEN "ignored"
                            ELSE IF asked[i] \in Tools THEN "calling" ELSE "done",
                     !.left = Calls(asked[i]),
                     !.ok = asked[i] \in Tools \cup {"list"}]]

----------------------------------------------------------------------------
(* The loop of ServeStdio.                                                  *)

LoopEnds ==
    /\ transport = "stdio" /\ loop = "select"
    /\ \/ signal /\ loop' = "interrupted"
       \/ scanErr /\ loop' = "failed"
       \/ reader.at = "closed" /\ loop' = "finished"
    /\ UNCHANGED <<transport, agent, pump, signal, work, did, answers, adapters, hiccups>>

Took == IF asked[reader.read] = "notification" THEN "select" ELSE "busy"

LoopTakes ==
    /\ transport = "stdio" /\ loop = "select" /\ reader.at = "holding"
    /\ reader' = [reader EXCEPT !.at = "reading"]
    /\ Begin(reader.read)
    /\ loop' = Took
    /\ UNCHANGED <<transport, agent, scanErr, signal, did, answers, adapters, hiccups>>

(* The answer is written and flushed.  The agent may have closed the pipe.  *)
Answer(i) ==
    /\ transport = "stdio" /\ loop = "busy" /\ work[i].at = "done"
    /\ work' = [work EXCEPT ![i].at = "answered"]
    /\ \/ answers' = Append(answers, i) /\ loop' = "select"
       \/ stdin # "open" /\ loop' = "failed" /\ UNCHANGED answers
    /\ UNCHANGED <<transport, agent, pump, signal, did, adapters, hiccups>>

----------------------------------------------------------------------------
(* ServeHTTP: a request is handled when it arrives; its context ends when   *)
(* the agent leaves, not with the server's.                                 *)

Post(i) ==
    /\ transport = "http" /\ Serving /\ ~signal
    /\ i <= Len(asked) /\ work[i].at = "none"
    /\ Begin(i)
    /\ UNCHANGED <<transport, agent, pump, loop, signal, did, answers, adapters, hiccups>>

(* A notification is accepted without content.  An answer the agent waits   *)
(* for no longer (WriteTimeout) is not counted.                             *)
Responds(i) ==
    /\ transport = "http" /\ Serving /\ work[i].at = "done"
    /\ work' = [work EXCEPT ![i].at = "answered"]
    /\ answers' = Append(answers, i)
    /\ UNCHANGED <<transport, agent, pump, loop, signal, did, adapters, hiccups>>

(* Shutdown waits for the requests under way, for 5 s.                      *)
Shutdown ==
    /\ transport = "http" /\ signal /\ Serving
    /\ loop' = "interrupted"
    /\ UNCHANGED <<transport, agent, pump, signal, work, did, answers, adapters, hiccups>>

----------------------------------------------------------------------------
(* A tool's handler.                                                        *)

Working(i) == work[i].at = "calling" /\ Serving

Ends(i, ok) == [work[i] EXCEPT !.at = "done", !.left = <<>>, !.ok = ok]

(* The call is over and the next one comes; after the last the result is    *)
(* ready and the deferred Close runs.                                       *)
Proceed(i, w) ==
    IF w.left = <<>>
    THEN /\ work' = [work EXCEPT ![i] = [w EXCEPT !.at = "done"]]
         /\ adapters' = adapters \ {i}
    ELSE /\ work' = [work EXCEPT ![i] = w]
         /\ adapters' = IF Head(work[i].left) = "open" THEN adapters \cup {i} ELSE adapters

Next1(i) == [work[i] EXCEPT !.left = Tail(@)]

CallReturns(i) ==
    /\ Working(i)
    /\ LET call == Head(work[i].left)
       IN /\ Proceed(i, [Next1(i) EXCEPT !.sent = @ + (IF call = "put" THEN 1 ELSE 0),
                                         !.got = @ + (IF call = "take" THEN 1 ELSE 0)])
          /\ did' = [did EXCEPT ![i].put = @ + (IF call = "put" THEN 1 ELSE 0),
                                ![i].taken = @ + (IF call = "take" THEN 1 ELSE 0)]
    /\ UNCHANGED <<transport, agent, pump, loop, signal, answers, hiccups>>

(* No message is there: the read ends with what it has; a request without   *)
(* a reply has failed.                                                      *)
NothingThere(i) ==
    /\ Working(i)
    /\ Head(work[i].left) \in {"take", "look"} /\ asked[i] # "hook"
    /\ work' = [work EXCEPT ![i] = Ends(i, asked[i] # "request")]
    /\ adapters' = adapters \ {i}
    /\ UNCHANGED <<transport, agent, pump, loop, signal, did, answers, hiccups>>

(* A call fails, having taken effect or not: the tool answers with an       *)
(* error.  The end of the server's context fails the calls of stdio.        *)
FailedCall(i) ==
    \/ UNCHANGED did
    \/ Head(work[i].left) = "put" /\ did' = [did EXCEPT ![i].put = @ + 1]
    \/ Head(work[i].left) = "take" /\ did' = [did EXCEPT ![i].taken = @ + 1]

Trouble ==
    \/ transport = "stdio" /\ signal /\ UNCHANGED hiccups
    \/ hiccups < MaxHiccups /\ hiccups' = hiccups + 1

(* Mutant: any error ends the read like a missing message.                  *)
CallFailsSilently(i) ==
    /\ Working(i) /\ Trouble /\ FailedCall(i)
    /\ work' = [work EXCEPT ![i] = Ends(i, Head(@.left) = "take")]
    /\ adapters' = adapters \ {i}
    /\ UNCHANGED <<transport, agent, pump, loop, signal, answers>>

CallFails(i) ==
    /\ Working(i) /\ Trouble /\ FailedCall(i)
    /\ work' = [work EXCEPT ![i] = Ends(i, FALSE)]
    /\ adapters' = adapters \ {i}
    /\ UNCHANGED <<transport, agent, pump, loop, signal, answers>>

(* Mutant: nobody recovers, and the request gets no answer.                 *)
PanicsThrough(i) ==
    /\ Working(i) /\ hiccups < MaxHiccups
    /\ hiccups' = hiccups + 1
    /\ work' = [work EXCEPT ![i].at = "lost"]
    /\ adapters' = adapters \ {i}
    /\ UNCHANGED <<transport, agent, pump, loop, signal, did, answers>>

(* The adapter panics: runTool turns it into an error, Close runs.          *)
Panics(i) ==
    /\ Working(i) /\ hiccups < MaxHiccups
    /\ hiccups' = hiccups + 1
    /\ work' = [work EXCEPT ![i] = Ends(i, FALSE)]
    /\ adapters' = adapters \ {i}
    /\ UNCHANGED <<transport, agent, pump, loop, signal, did, answers>>

(* A send or a hook has no deadline of its own: the broker may leave it     *)
(* without an answer.  The others have theirs.                              *)
Hangs(i) ==
    /\ Working(i) /\ hiccups < MaxHiccups
    /\ asked[i] \in {"send", "hook"}
    /\ hiccups' = hiccups + 1
    /\ work' = [work EXCEPT ![i].at = "hung"]
    /\ UNCHANGED <<transport, agent, pump, loop, signal, did, answers, adapters>>

Returns(i) == CallReturns(i) \/ NothingThere(i) \/ CallFails(i)

Next ==
    \/ \E kind \in Kinds : Asks(kind)
    \/ Hangup("eof") \/ Hangup("broken") \/ Signal
    \/ ReaderReads \/ LoopEnds \/ LoopTakes
    \/ \E i \in Requests :
           \/ Answer(i) \/ Post(i) \/ Responds(i)
           \/ CallReturns(i) \/ NothingThere(i) \/ CallFails(i) \/ Panics(i) \/ Hangs(i)
    \/ Shutdown

Fairness ==
    /\ WF_vars(ReaderReads) /\ WF_vars(LoopEnds) /\ WF_vars(LoopTakes) /\ WF_vars(Shutdown)
    /\ \A i \in Requests :
           WF_vars(Answer(i)) /\ WF_vars(Post(i)) /\ WF_vars(Responds(i)) /\ WF_vars(Returns(i))

Spec == Init /\ [][Next]_vars /\ Fairness

----------------------------------------------------------------------------
(* Properties.                                                              *)

Owed(i) == i <= Len(asked) /\ asked[i] # "notification"

(* The agent gets one answer per request and none for a notification; over  *)
(* stdio they come in the order of the requests, and when the server ends   *)
(* with its input, every request has had its answer (ServeStdio, handle).   *)
OneAnswerEach ==
    /\ \A j, k \in DOMAIN answers : answers[j] = answers[k] => j = k
    /\ \A j \in DOMAIN answers : Owed(answers[j])
    /\ transport = "stdio" =>
           /\ \A j, k \in DOMAIN answers : j < k => answers[j] < answers[k]
           /\ loop = "finished" \/ (loop = "failed" /\ scanErr /\ ~signal) =>
                  \A i \in Requests : Owed(i) => i \in Range(answers) \/ work[i].at = "answered"

(* What a tool's result counts is what happened at the broker: it is only   *)
(* in an error that a message may be missing or taken and lost, and then    *)
(* one more at most was sent than the error says (registerSend,             *)
(* readMessages).                                                           *)
AnswersAreTrue ==
    \A i \in Range(answers) :
        /\ work[i].ok => did[i] = [put |-> work[i].sent, taken |-> work[i].got]
        /\ did[i].put - work[i].sent \in {0, 1}
        /\ i \notin adapters

(* Together: the agent can rely on what it is told (mcp/server.go,          *)
(* mcp/tools.go).                                                           *)
TrueAnswers == OneAnswerEach /\ AnswersAreTrue

Hung == \E i \in Requests : work[i].at = "hung"

(* Every request is answered unless the server ends or a call that has no   *)
(* deadline hangs; a panic ends nothing.  Once told to, the server ends.    *)
(* (What is owed, answered or ended stays so: []<> says that it comes.)     *)
ServesOrEnds ==
    []<>(\/ ~Serving \/ Hung
         \/ ~signal /\ \A i \in Requests : Owed(i) => i \in Range(answers))
=============================================================================
