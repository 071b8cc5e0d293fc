----------------------------- MODULE MCServices -----------------------------
(***************************************************************************)
(* The AI client, the topic adapters, the management commands and the MCP  *)
(* server.  They share no state, so they are explored side by side, each   *)
(* while the others rest in an initial state, and not as a product.        *)
(***************************************************************************)
EXTENDS AIClient

CONSTANTS
    Brokers, Topics, Groups, MaxPublished, MaxCalls, MaxSessions,
    Managed, MaxHeld, MaxCommands, MaxOthers, MaxFaults,
    Kinds, MaxRequests, MaxHiccups

(* The brokers are those with a topic adapter and those that are managed,   *)
(* and no group is called like one of the words Subscriptions has for a     *)
(* subscriber that is none.                                                 *)
ASSUME MCServicesAssumption ==
    /\ {MaxPublished, MaxCalls, MaxSessions, MaxFaults, MaxRequests, MaxHiccups} \subseteq Nat
    /\ Brokers \subseteq {"rabbitmq", "redis", "awssqs", "azuresb", "gcp", "nats", "artemis",
                          "pulsar", "mqtt", "kafka"}
    /\ Groups \cap {"none", "durable", "own"} = {}
    /\ Managed \subseteq {"rabbitmq", "redis", "awssqs", "azuresb", "gcp", "nats", "artemis",
                          "pulsar", "kafka"}

VARIABLES
    part,  \* "ai", "topics", "manage" or "mcp": which of the four runs
    broker, subs, cache, toDelete, readerDead, open, sessions, calls, published, faults, call,
    owed, last,
    managed, has, held, settings, job, wanted, report, runs, others, failures,
    transport, asked, stdin, reader, scanErr, loop, signal, work, did, answers, adapters, hiccups

topics == <<broker, subs, cache, toDelete, readerDead, open, sessions, calls, published, faults,
            call, owed, last>>
management == <<managed, has, held, settings, job, wanted, report, runs, others, failures>>
server == <<transport, asked, stdin, reader, scanErr, loop, signal, work, did, answers, adapters,
            hiccups>>
all == <<part, vars, topics, management, server>>

T == INSTANCE Subscriptions
M == INSTANCE Manage
S == INSTANCE McpServer

Rests(p, initial) == part # p => initial

MCInit ==
    /\ part \in {"ai", "topics", "manage", "mcp"}
    /\ Init /\ Rests("ai", provider = "openai" /\ family = "plain" /\ effort = "low" /\ method = "list")
    /\ T!Init /\ Rests("topics", broker = CHOOSE b \in Brokers : TRUE)
    /\ M!Init /\ Rests("manage", managed = (CHOOSE b \in Managed : TRUE) /\ has = {})
    /\ S!Init /\ Rests("mcp", transport = "stdio")

Completes(A) == part = "ai" /\ A /\ UNCHANGED <<part, topics, management, server>>
Manages(A) == part = "manage" /\ A /\ UNCHANGED <<part, vars, topics, server>>
Serves(A) == part = "mcp" /\ A /\ UNCHANGED <<part, vars, topics, management>>

ClientNext == part = "ai" /\ Next /\ UNCHANGED <<part, topics, management, server>>
TopicsNext == part = "topics" /\ T!Next /\ UNCHANGED <<part, vars, management, server>>
ManageNext == part = "manage" /\ M!Next /\ UNCHANGED <<part, vars, topics, server>>
ServerNext == part = "mcp" /\ S!Next /\ UNCHANGED <<part, vars, topics, management>>

(* The fairness of AIClient, Manage and McpServer.                          *)
MCSpec ==
    /\ MCInit /\ [][ClientNext \/ TopicsNext \/ ManageNext \/ ServerNext]_all
    /\ WF_all(Completes(Expire)) /\ WF_all(Completes(CtxEnds))
    /\ WF_all(Manages(M!TimedStep)) /\ WF_all(Manages(M!Repeat))
    /\ WF_all(Serves(S!ReaderReads)) /\ WF_all(Serves(S!LoopEnds))
    /\ WF_all(Serves(S!LoopTakes)) /\ WF_all(Serves(S!Shutdown))
    /\ \A i \in S!Requests :
           /\ WF_all(Serves(S!Answer(i))) /\ WF_all(Serves(S!Post(i)))
           /\ WF_all(Serves(S!Responds(i))) /\ WF_all(Serves(S!Returns(i)))

----------------------------------------------------------------------------
(* The call returns, even if the server goes silent at any point            *)
(* (aiclient.go): AIClient's Returns, for the part that runs.               *)
CompleteReturns == <>(pc = "done" \/ part # "ai")

(* A subscriber is given what was published to its topic since it first     *)
(* asked, all of it and nothing else (the topic adapters): Subscriptions'   *)
(* OwnFeed.                                                                 *)
OwnFeed == T!OwnFeed

(* A closed session leaves no ephemeral subscription behind: Subscriptions' *)
(* NoLeftovers.                                                             *)
NoLeftovers == T!NoLeftovers

(* A management command that reports success has done what it says, and     *)
(* nothing else to the object (cmd/manage.go): Manage's DoesWhatItSays.     *)
DoesWhatItSays == M!DoesWhatItSays

(* A command that failed half-way can be repeated until it has achieved     *)
(* what it is for: Manage's RepeatingAchieves.                              *)
RepeatingAchieves == M!RepeatingAchieves

(* One answer per request, in order over stdio, none missing at the end of  *)
(* the input, and what a tool's result counts is what happened at the       *)
(* broker (mcp/server.go, mcp/tools.go): McpServer's TrueAnswers.           *)
TrueAnswers == S!TrueAnswers

(* Requests are answered and a signal ends the server, panics or not        *)
(* (mcp/server.go): McpServer's ServesOrEnds.                               *)
ServesOrEnds == S!ServesOrEnds
=============================================================================
