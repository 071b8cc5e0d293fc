# Verification of xmc

xmc is one command line for many message brokers: send, receive, peek, publish, subscribe,
request, reply, move, forward, bridge, manage, plus a shell, a terminal UI in which an AI
proposes commands and long-running commands become background processes, and a server that
offers the broker to AI agents as MCP tools. This directory holds TLA+ models of the parts of it
in which the order of events matters, the TLC configurations that check them and proofs for TLAPS.

## 1. The system

| Component | Source | State it keeps | Operations | Interacts through |
|---|---|---|---|---|
| auto-reconnect wrapper | `cmd/reconnect.go` | mutex, current adapter, closed | each backend call, `retryOp`, `Browse`, `Close` | shared by the stages of a pipeline and by the session that closes it |
| same-broker relays | `cmd/move.go`, `cmd/forward.go` | message in hand, counter, context | receive, run `--command`, send, recover to stdout | the broker's queues |
| cross-broker relay | `cmd/bridge.go`, `cmd/ndjson.go`, `cmd/produce.go` | message in hand, pipe, target process | receive, write a record, close, wait; the watcher kills | a pipe to a child process |
| request/reply | `broker/backends/request.go`, `cmd/reply.go`, `broker/{artemis,nats,ibmmq}/request.go` | correlation id, reply queue | request, wait, match; serve, answer | request queue and reply queues |
| background processes | `cmd/aiproc.go`, end of `cmd/aitui.go` | list, selected row, focus, borrowed prompt, cancel functions | start, kill, delete, purge, quit, shut down | messages between goroutines and the UI loop |
| terminal UI: conversation | `cmd/aitui.go`, `aikeys.go`, `airun.go`, `ai.go` | state, proposed command, history, cancel function | keys; reports of requests, executions, side actions, model listings | messages of Bubble Tea commands |
| terminal UI: sidebar | `cmd/aikeys.go`, `aisidebaractions.go`, `aituisidebar.go`, `aiconn.go` | windows with nodes, selection, filter, order; prompt; refresh generation; backoff | keys, prompts, loads, timers, probes | the broker's listings, timers |
| AI client | `cmd/aiclient.go` | attempt, last error, text so far | Complete, ListModels, for three providers | HTTP, server-sent events |
| consume loop | `cmd/consume.go`, `receive.go`, `peek.go` | counters, browser, context | one Receive or Next per message until count, end, context | an adapter |
| broker adapters, queues | `broker/*/queue_adapter.go`, `receive.go`, `browse.go` | connections, prefetched messages, browse positions | Receive, Browse, Send | client libraries |
| broker adapters, topics | `broker/*/topic_adapter.go` | caches of subscriptions, what Close deletes | Subscribe, Publish, Close | the broker's subscriptions |
| management | `cmd/manage.go`, `broker/*/manage.go` | none of their own | create, delete, purge, update, bind, list | several remote calls each |
| MCP server | `mcp/` | lines read, adapter per call | JSON-RPC over stdio and HTTP, tools | an agent, the broker |
| pipelines, shell session | `cmd/pipeline.go`, `cmd/shell.go` | cached adapters, pipes | parse, run blocks concurrently | `os.Pipe`, errgroup context |
| produce commands | `cmd/send.go`, `publish.go`, `produce.go` | counters | emit until the input ends | broker |
| flags, formatting, history, configuration | the rest of `cmd/` | files | | |

What is hard here: a connection that drops between an operation and its answer; several
goroutines on one wrapper; destructive reads followed by a send that fails, or by a settlement
that runs out of time; a child process that dies, hangs or is killed with data in its pipe;
replies that come late or to the wrong requester; messages between goroutines that cross;
answers that arrive in a state they were not asked for; lists that are replaced under a selection;
caches keyed by less than what was asked; management commands made of several calls;
contexts that a client library does not heed. `PROJECT.json` lists the main ones
at their lines, with the properties about them.

What makes each component correct:

- wrapper: never two connections, none after Close, an operation answered "ok" was executed,
  no duplicate without a dropped connection, and everybody gets the mutex in the end;
- relays: a message is always at one place, a failing relay gives up what it holds on stdout,
  the count tells the truth, an interrupt ends it;
- request/reply: a call returns the answer to itself or an error with a cause;
- background processes: nothing runs unseen, the row a key acts on exists, the user's prompt
  comes back, the program ends;
- conversation: it is busy only for something under way, Esc reaches what is under way, the
  output shown belongs to the command named, what is sent to the model is a question;
- sidebar: the user sees the row the keys act on, what is confirmed is what was announced, the
  screen is not overrun, refreshing and reconnecting go on;
- AI client: what is returned is what was shown, only transient failures are repeated, it returns;
- consume loop: what it removes it shows or there is a cause, each message once, and it ends;
- subscriptions: a subscriber gets all of its feed and nothing else, and nothing stays behind;
- management: success means done, nothing else happened, a failed command can be repeated;
- MCP server: one answer per request, in order, with true counts, and it ends when told to;
- pipelines: what the first stage consumed reaches the last, and every stage ends when one fails.

## 2. Modules

| Module | Models | Used by |
|---|---|---|
| `Reconnect` | the wrapper, one call per goroutine | `MCRequestReply`, `RequestReplyProofs` |
| `Custody` | abstract: where a message may be and go (source, transit, kept, lost) | implemented by `Relay`, `Bridge` and `Pipeline` |
| `Relay` | `move` and `forward` loops on one source | `MCRelay`, `RelayProofs` |
| `Bridge` | `bridge`, its pipe, its target, the kill | `MCRelay`, `RelayProofs` |
| `RequestReply` | requesters, responders, three ways of matching | `MCRequestReply`, `RequestReplyProofs` |
| `Procs` | background processes and their window | `MCProcs`, `ProcsProofs` |
| `Pipeline` | the blocks of one pipeline, their pipes, the errgroup | `MCPipeline`, `PipelineProofs` |
| `Chat` | the conversation of the terminal UI | `MCChat`, `ChatProofs` |
| `Layout` | the planner of the sidebar, as operators | `Sidebar` |
| `Sidebar` | windows, selection, prompts, loads | `MCSidebar`, `SidebarProofs` |
| `Upkeep` | the refresh and reconnect timers | `MCSidebar`, `SidebarProofs` |
| `Consume` | the consume loop over ten queue adapters | its own run, `ConsumeProofs` |
| `AIClient` | one call of a provider | `MCServices`, `ServicesProofs` |
| `Subscriptions` | ten topic adapters over several sessions | `MCServices`, `ServicesProofs`, a run of its own |
| `Manage` | the management commands of nine brokers | `MCServices`, `ServicesProofs` |
| `McpServer` | the MCP server | `MCServices`, `ServicesProofs` |
| `RelayProofs`, `RequestReplyProofs`, `ProcsProofs`, `PipelineProofs`, `ChatProofs`, `ConsumeProofs`, `SidebarProofs`, `ServicesProofs` | theorems, and the inductive invariants and lemmas they need | |

`MCSidebar` and `MCServices` put components that share no state side by side: the first step of a
behaviour has chosen the one that runs (`part`) and the others rest in one initial state, so the
states are those of the components added and not multiplied, and a property of a component that
rests holds by its initial state. `MCRelay` puts `Bridge` beside `Relay` in the same way, and `MCRequestReply` puts `Reconnect`
beside `RequestReply`, where a run's .cfg names the one it is about (`Parts`). A
theorem is about the specification of its component alone.

`PROJECT.json` ("map") gives the source lines of every definition. Operators whose comment
calls them a mutant are not part of a specification: each is a plausible wrong version of
the definition that follows it, and with it in place the property it is meant for fails.

### Reconnect

A caller fetches the adapter under the mutex (`Call`), runs its operation without it (`Execute`,
`Apply`, `Finish`), and on a connection error takes the mutex (`LockForRetry`) for the whole of
`retryOp`: backoff (`RetryWait`, with at most `MaxTries` waits for MaxElapsedTime),
close and rebuild (`Reopen`), and the repeated operation. `applied` counts how often the broker
executed a caller's operation; its answer may be lost, which is the only way the code can
duplicate it. `Close` may come at any time that it gets the mutex.

### Relay, Bridge, Custody

A relay takes a message (it leaves the source at that moment: the code acknowledges on receipt),
transforms it, sends it. `MayHang` says where it may wait for ever: in a `--command`, in a poll or send while its context
is live, and after that too if its broker's client does not heed contexts (`Deaf`). Every remote call may take effect and still be reported as failed:
`SettleLost` is an acknowledge whose answer was lost, `SendFails` includes a send that was
delivered. The history variable `taken` records what the source gave up and to whom. `Custody`
is the contract that these two and `Pipeline` implement: a message leaves the source once, is in transit, and
ends at a place where it is kept, or is lost where the contract says so (`Lossy`).
In `Bridge` the target is an xmc that reads a record, sends it, and ends at end of file; it may
also fail, hang (it has no fairness) or be killed by the cancelled context. `setting` tells the
command line (no signal handler: an interrupt ends xmc) from a session (an interrupt cancels).

### RequestReply

An attempt is one request on the wire; a retry is a new attempt with a new correlation id,
as the code makes the id on its copy of the options. `mode` is the way replies are matched:
`none` (the default of `backends.Request`, checked afterwards), `selector` (Artemis, IBM MQ),
`private` (NATS; a stream per request that `Send` makes on demand and `dropReplyQueue` deletes).
A reply may be late, mute (no correlation id), consumed by the wrong requester, or published
on a stream that is gone. A caller that names its own correlation id or reply queue is left out.

### Procs

The UI goroutine handles one message at a time, so each key is one action. `Program.Send` is a
rendezvous with the UI loop, so the message with a process's cancel function is handled before
the process goes on (`GiveCancel`); after the loop has ended it is lost. `WaitNext` is one select
of `runAITUI`: its deadline channel holds one value.

### Pipeline

A block is a goroutine of the errgroup; `line` gives their kinds. `Poll`, `Take` and `NoTake` are
`consumeMessages`, `Read`, `Eof` and `Send` are `runProduce`, which streams records or lines or reads
all of its input first (`Streams`); a `filter` is an external command, which may swallow a line, stop
reading (`Quit`) or fail. A block that returns closes the pipe it writes to; nobody closes the one it
reads from, so a writer behind it goes on until the pipe is full and then blocks, whatever becomes of
its context, until the garbage collector closes the read end (`Collect`). Then `WriteBroken`: the display
functions ignore the error. The first error cancels the context of all (`Fails`). Each block is told
on its own whether to use NDJSON (`NdjsonOut`, `NdjsonIn`), a producer only if it is the last one. `Interrupt` is
the terminal UI's; Ctrl-C in the shell, which reaches consumers and external commands one by one, is
left out. Where a block may wait for ever (`MayHang`) is as in `Relay`, with the external command for the `--command`.

### Chat

`Update` owns the model, so each key and each message is one action. What runs elsewhere (an AI
request, a command, a listing of models, a sidebar read) is a job: launched, working, over. No
message carries the job's name in the code; the model names jobs only to say what a property is
about. A handler does to the state what it does in the code whatever it finds there, which is
where the late answers bite: `RequestProposes` overwrites the command, `ModelsReport` opens its
picker over anything. `execCancel` is filled by a message (`GiveCancel`), a rendezvous as in `Procs`.
`stray` is a history variable: some state was once taken from a job still under way (Esc of a
request, a picker opened over it). `history` is what the next request sends, as roles only.

### Layout, Sidebar, Upkeep

`Layout` is `renderSidebar`'s plan as operators on the windows' natural sizes: expand all, else
floors and growth, else fold outwards from the focus. Lines are added up as the size of the set of them
(`Stacked`), and the k-th row of a list is the one that k-1 others precede (`Rows`, `Precedes`): this is the sum and the
sort without recursion, which the proofs could not go through. `Sidebar` has the windows with their nodes,
selection, filter, order and tree; every key of `handleKeyPane`, `handleKeyFilter` and
`handleKeyPrompt`; and loads that replace the nodes at any moment (`ObjectsDone`). `shown` is what the
prompt or the screen announced when the user decided, `doing` what is then asked of the broker. `Upkeep` has
the generations of the refresh (kept as "current" and "old", since the code only compares them), its ticks
and watchdogs as pending timers, the extra refresh after a background process (`ProcDone`), and the reconnect chain with its probes.

### AIClient

One `Complete` (or `ListModels`): the request built for the provider, model family and effort
(`Body`, as far as a provider may refuse it), `doWithRetry`'s loop, then the body as a stream of
pieces or as a whole. The server sends pieces, error events, an end, a broken read or nothing. Not every
error event is heeded (`ErrorHeeded`): all parsers pass over one that does not unmarshal, those of openai and gemini
also one without a message, and the stream goes on; `broken` remembers the kinds that came.
The caller cancels or the timeout expires at any moment.

### Consume

`LoopHead`, `Got`, `Show` are `consumeMessages`; below them is the queue adapter of one of ten brokers,
chosen at the start: how it takes a message, how it settles it (`SettleAmqp`, `SettleNats`, ...: one action
per order of steps that exists), what it makes of the context's end (`CtxError`, `TimesOut`), and how its
browser moves. Messages are numbers in the order sent; the odd ones match the selector. `ready`, `away` (delivered,
not settled), `gone` and what was shown tell where each is. Another consumer takes messages meanwhile.
A settlement that is cut off by the call's timer ends a read that does not follow; one that follows goes on, and
can lose a message each time, which is why `LossHasCause` counts those (`doubt`) only for the former.
`Show` skips a message for `--omit`, writes it, or ends the command: what cannot be encoded, metadata that cannot be
written and the signal of a closed standard output do. Any other failed write of the data goes unnoticed, as often as it happens
(`unwritten`): the message counts as received and the loop goes on.

### Subscriptions

A session's `Subscribe` calls with (topic, group, durable): the name the adapter gives the subscription
(`NameFor`), the key it is cached under (`CacheKey`), how long it lives (`ends`: a call, a session, until deleted,
for good), what is created and what fails on the way (`CreateFails` leaves what the adapter has created so far).
`owed` is, per subscriber, what has been published to its topic since it first asked and was not given to it;
`published` is the log of each topic, with which a new subscription of `kafka` starts (`FirstContent`).

### Manage

A command is the sequence of calls its adapter makes (`Plan`, one operator per broker). Each call is accepted,
refused, fails, or takes effect with its answer lost; between two calls another client may act on the same
object. `IsAchieved` states what each verb is for, `NothingElse` what it must leave alone. Some answers the code
reads as a success though they are none (`Trusting`, `Misled`). Only the three brokers managed over HTTP have a timeout (`Timed`).

### McpServer

The agent asks (`Asks`), hangs up or goes silent; stdio's reader goroutine and loop are separate (`ReaderReads`,
`LoopTakes`, `LoopEnds`), each HTTP request is its own goroutine (`Post`, `Responds`). A tool is the
sequence of its calls of the broker (`Calls`), any of which may fail, panic, find nothing or hang. `did` is what
happened at the broker, `work` what the tool has counted.

## 3. Runs

| Run | Question | Bounds | States |
|---|---|---|---|
| `reconnect` | leaks, Close, duplicates; do callers and Close get through | 2 callers, one of which may block for ever, 3 adapters, 2 waits | 61 k |
| `relay` | is every message accounted for, are counts honest, is `Custody` implemented, does a relay end; one place per message of a bridge, graceful drain, `Custody`; does an interrupt end a bridge whose target hangs, and `--for` one whose target reads | move with `--count 2` through a client that does not heed its context, forward with `--command` and no count, 3 messages; bridge of 4 messages (one that cannot be encoded), pipe of one record, `--count 3`, command line and session | 105 k |
| `request_reply` | own answer or an error with a cause, all matchings | 2 requesters, a responder that echoes the correlation id and one that does not, 3 attempts | 126 k |
| `procs` | row, window, prompt, orphans, cancelling at exit; a deleted process ends, the last wait ends | 3 processes of which one outlives its context, 1 other window | 86 k |
| `pipeline` | one place per message, success means passed on, a failure stops the consumption, every block ends, `Custody` | 7 pipelines of 2 and 3 blocks, 3 messages (one that cannot be encoded), pipes of one record | 192 k |
| `chat` | busy for a cause, one thing at a time, honest labels, well-formed questions, thinking ends | 4 jobs, a history of 2 turns, 1 automatic fix | 1 M |
| `consume` | loss, duplicates, end of a read | 10 brokers, 3 messages, `--count` up to 2, 2 broker failures, a buffer of 1 | 1.3 M |
| `sidebar` | selection on screen, acts on what was shown, layout fits; refresh and reconnect go on | 4 kinds of listing on 3 screens of height 9, 1 process, 1 load under way; 2 timers, 3 commands, backoff to 2 | 155 k |
| `services` | AI client, subscriptions, management, MCP server | 4 attempts, 3 pieces; 2 topics, 1 group, 2 messages, 3 calls, 2 sessions, 1 failure; 2 commands, 1 act of another client, 1 failure; 2 requests of 10 kinds, 1 hiccup | 814 k |
| `manage_filter` (violation) | `update-queue` without a filter leaves the one there is | Artemis, 2 commands, 1 failure | |
| `subscriptions_gcp` (violation) | a call reads its own topic | Pub/Sub, 2 topics, 2 calls | |
| `procs_shutdown` (violation) | the program ends | 2 processes that do not | |

Several properties of a run are conjunctions of named parts, each with its own comment: `Connections`, `Executions`
and `GetsThrough`; `Accounts` and `RelaysEnd`; `Drains` and `BridgeEnds`; `OwnReplies`; `PaneAgrees` and `ProcsEnd`;
`Delivers`; `OwnFeed`; `TrueAnswers`. The type invariant is one of the parts.

Why the bounds are enough: the interesting cases of the wrapper need a second caller that
fails after a first has reconnected, while the session closes the wrapper or a context ends;
`RequestReplyProofs` covers any number of callers. A relay
carries one message at a time, so two relays and a message for each, plus one more, give every
overlap; with a pipe of one record the bridge meets a full, an empty and a drained pipe. Three
attempts give a request, its retry and another requester's; matching is between pairs. Three
processes give a first, a middle and a last row. Three blocks give a first, a middle and a last one and
two pipes; longer pipelines repeat the middle. Four jobs give a request abandoned, the next one, what it
proposes executed and one more thing opened meanwhile; a history of two turns is trimmed by every
exchange. Three messages give one shown, one in hand and one waiting, with matching and others
in both orders. Listings of up to two nodes with children, replaced by shorter and longer ones, move a selection past
either end; a screen of nine lines makes three windows fold, and is the lowest that `HeightAssumption` admits for them. Two topics and one group, in a session
and its successor, give every pair of requests that could share a subscription; a failed command and its
repetition are two commands. Two MCP requests give one under way and one behind it.

`MaxAdapters`, `MaxTries`, `MaxAttempts`, `MaxProcs`, `MaxJobs`, `MaxLoads`, `MaxTimers`, `MaxCommands`, `MaxBackoff`,
`MaxPieces`, `MaxCalls`, `MaxSessions`, `MaxPublished`, `MaxHeld`, `MaxOthers`, `MaxRequests`, `MaxHiccups` and
`MaxFaults` bound counters that have no bound in the code, or a larger one; a behaviour that reaches
one of them stops there. `MaxHistory`, `MaxFixAttempts`, `MaxRetryAttempts` and `SubscriptionBuffer` are constants of the code.

Deadlock is checked in every run but those of systems that stop: `consume` (a command that has returned),
`services` (all requests made), `manage_filter`, `subscriptions_gcp`, and `procs_shutdown`, whose subject is a system that hangs.

Fairness, all of it weak:

- `Reconnect`: each goroutine's steps (`Steady`), but for a blocking operation (a subscription),
  which need not return; such a caller's context is cancelled in the end and the session closes
  the wrapper. Both happen when a session ends, which is what the two liveness properties are about;
  backoff timers fire and a non-blocking operation has its own timeout.
- `Relay`: a relay's steps but those that nothing in the code bounds (`BoundedStep`): a `--command` runs without a context,
  and a poll or send has the relay's context, which bounds it once it has ended, and only for a client that heeds it.
  `RelaysEnd` says that nothing else can hold a relay for ever (`HangsForEver`).
- `Bridge`: the read loop, and the goroutine of `exec.CommandContext` that kills. Nothing is
  assumed of the target; `DeadlineEnds` states the one assumption it needs, that the target goes
  on reading, as its premise.
- `Procs`: a process's goroutine (one that heeds its context returns once cancelled, one in
  `Stubborn` may not), and the wait of `runAITUI`.
- `Pipeline`: the steps of each block but those that nothing bounds (`BoundedStep`): an external command with input, and a
  receive or a send as long as the blocks' context lives; `Quiesces` excepts a pipeline held up there for ever
  (`HangsForEver`). Also the loop that starts the blocks, and
  `Collect`: the Go runtime forces a collection every two minutes, and finalizers close the file.
- `Chat`: a request reports in the end (`AIClient` shows that it does: its timeout) and `Update` takes messages. A request hands its
  cancel function over in the end, too; in the code a listing of the broker comes first (`refreshTopology`), under no
  context. Should it hang, Esc brings the UI back all the same.
- `Consume`: the command's own steps and its timers; nothing of other clients or the context.
- `Upkeep`: timers fire. A listing or a probe need not return.
- `AIClient`: the timeout comes, and what waits on an ended context goes on. Nothing is assumed of the server.
- `Manage`: a call of a broker managed over HTTP returns, by the 10 s timeout (`TimedStep`), and the user repeats a command that
  failed (the subject of the property). Nothing is assumed of the other brokers: `RepeatingAchieves` excepts a request to them that
  waits for ever.
- `McpServer`: the goroutines' steps, and a tool's call that has a deadline returns; one that has none may hang.

Never assumed: that a user presses a key (but for the repetition above), that a message arrives, that a remote
call succeeds, that a blocking receive returns.

## 4. What the code does otherwise

Three disagreements are runs:

- `subscriptions_gcp`: the cache of a Pub/Sub adapter finds a subscription by its name; without a group
  that is the adapter's one ephemeral name, so a second topic in the same session reads the first one's
  messages, which `ensureSubscription` takes care to exclude (`broker/gcppubsub/connect.go:63`).
- `manage_filter`: Artemis removes a queue's filter when an update does not name it, so `update-queue` reads it first. That answer is not
  looked at for an error in it (`broker/artemis/manage.go:310`), which Jolokia reports in the body of an HTTP 200: it reads
  as no filter, the update removes it and reports success. `KeepsFilter` quotes the comment that says otherwise.
- `procs_shutdown`: a second process that outlasts the two seconds is waited for without a
  deadline, because `time.After` delivers one value.

Others are in the models as the code has them, and left out of the properties by name:

- `displayMessageNDJSON` ignores the error of its write (`cmd/ndjson.go:92`). Once the target is
  gone the bridge goes on acknowledging messages and counts them as bridged; the recovery to stdout that
  `docs/BRIDGE_AND_FORWARD.md` promises is reached only for records that cannot be encoded.
- So do the other ways of writing a message's data out (`cmd/consume.go:193`, `cmd/consume.go:224`). A read with a full disk behind it, or a
  pipe in the process that nobody reads, goes on removing and counting messages (`unwritten` in `Consume`).
- An AI provider's error event without a message, or one that does not unmarshal, is passed over (`cmd/aiclient.go:689`,
  `cmd/aiclient.go:914`): the text so far may be returned as the whole answer.
- A 409 from Pulsar counts as success also for a DELETE (`broker/pulsar/manage.go:47`): `delete-topic` may report success with the
  topic still there (`Misled` in `Manage`).
- Management requests of Kafka, and of other SDKs, run under `context.Background()` and without a timeout
  (`broker/kafka/manage.go:92`): they may never return.
- A `--command` (`cmd/reply.go:236`) and an external command of a pipeline (`cmd/pipeline.go:504`) run without a context: one that
  hangs is reached neither by Ctrl-C nor by `--for`. A send has no deadline besides its context (`broker/artemis/send.go:61`).
- On NATS a reply that comes after its requester has timed out makes the deleted
  reply stream again (`broker/nats/queue_adapter.go:47`), and nothing ever deletes it.
- `k` in the Processes window before the cancel function has arrived does nothing (`cmd/aiproc.go:433`), while
  `d` and `D` at the same moment are made good by `handleProcCancelMsg`.
- `request` is listed as a consumer, so in front of a verb it is given `--ndjson` (`cmd/pipeline.go:338`), a
  flag it does not define; the pipeline fails before a request is sent.
- `timedOrInterruptCtx` (`cmd/bridge.go:247`) is said to return a context that cancels on interrupt and
  installs no signal handler: on the command line (`setting = "cli"`) Ctrl-C ends xmc at once.
- awssqs leaves `--durable` out of its cache key: after an ephemeral subscription of the same session a
  durable one reads the ephemeral queue, which Close deletes (`Confused` in `Subscriptions`).
- A closed Kafka reader stays cached when its replacement cannot be built (`readerDead`); a durable Artemis link
  without a group has a new name each time, so what it left behind is not found again; an MQTT session that reads a topic
  with and without a group gets each message several times.
- NATS' Fetch and IBM MQ's get do not know of the context: with `--wait`, Ctrl-C has no effect until a
  message comes (`Heeds` in `Consume`). IBM MQ's browser ignores the selector.
- An azuresb purge ends with success on an error and never ends once the queue is empty; redis' create-topic
  empties a topic that exists; awssqs' purge and stats create the queue they are asked about; the count of
  a redis purge is read before it (`KnownDeviations` in `Manage`). Pub/Sub's delete-queue and Kafka's
  update-topic cannot be repeated after a failure half-way (`NotRepeatable`).
- The answer to an abandoned AI request is applied to whatever the UI does by then; `stray` marks it, and `Sequential` and
  `HonestLabel` hold without it.
- The planner of the sidebar does not count the line of the filter being typed. The comment in `renderSidebar` says
  "Start from the window farthest from the focused index"; the loop folds the nearest first, and `FoldsBefore` does so.
- A streamed answer that simply ends is taken as complete; of a Gemini answer only the first part is read.

## 5. Proofs

Every invariant and every action property that a run checks is stated by a theorem, and so is each refinement of
`Custody`. The proofs are for any values of the constants that satisfy the assumption named in the module
(`RelayAssumption` and so on): any number of callers, relays, requesters, processes, blocks, jobs, messages, windows,
topics, sessions and commands, and any bounds. What TLC shows of the small instance of a run, the theorem with the same
property shows of all. Each proof names its inductive invariant and proves that the initial states satisfy it, that every step
keeps it, with a lemma or step per action, and that the property follows.

What is assumed is that the constants have the types and shapes of the code's. Three assumptions say more:
`MCServicesAssumption` that the brokers are those the adapters exist for, and that no group is called like one of the model's
words for having none; `SidebarAssumption` that no broker lists "Processes"; `HeightAssumption` that the terminal has
room for the titles of all windows, with that of the processes, and three rows of the focused one. `renderSidebar` comes down to
this many lines and no further, and does not enforce that there are as many.

| Theorem | Property | Of |
|---|---|---|
| `ConnectionsHold`, `ExecutionsHold`, `SilenceAfterClose` | `Connections`, `Executions`, `SilentAfterClose` | `Reconnect` |
| `AccountsHold`, `Relays` | `Accounts`, `KeepsCustody` (refinement) | `Relay` |
| `DrainsHold`, `BridgeRelays` | `Drains`, `BridgeKeepsCustody` (refinement) | `Bridge` |
| `RepliesAreOwn`, `MismatchesHaveCause`, `RepliesKept` | `OwnReplies`, `MismatchHasCause`, `ReplyKeptForOwner` | `RequestReply` |
| `PaneHolds` | `PaneAgrees` | `Procs` |
| `PipelineDelivers`, `PipelineRelays` | `Delivers`, `KeepsCustody` (refinement) | `Pipeline` |
| `BusyHolds`, `SequentialHolds`, `LabelHolds`, `SentHolds` | `BusyHasCause`, `Sequential`, `HonestLabel`, `SentIsAQuestion` | `Chat` |
| `LossAlwaysHasCause`, `ShownOnceHolds` | `LossHasCause`, `ShownOnce` | `Consume` |
| `SelectionStaysOnScreen`, `ActsAsAnnounced`, `SidebarFits` | `SelectionOnScreen`, `ActsOnWhatWasShown`, `FitsTheScreen` | `Sidebar`, `Layout` |
| `KeepsReconnecting` | `ReconnectsOn` | `Upkeep` |
| `RetriesAreSafe`, `AnswerWasShown` | `RetriesOnlyTransient`, `AnswerIsShown` | `AIClient` |
| `FeedsAreOwn`, `SessionsCleanUp` | `OwnFeed`, `NoLeftovers` | `Subscriptions` |
| `CommandsDoWhatTheySay` | `DoesWhatItSays` | `Manage` |
| `AnswersAreTrustworthy` | `TrueAnswers` | `McpServer` |

**Reconnect.** Hardly any of the safety properties is inductive. `IInv` adds three parts:

- `LockInv`: the mutex is held exactly by the caller that is inside `retryOp` (`MutexInv`), a
  caller past the check of `closed` finds the wrapper open for as long as it holds it
  (`OpenWhileRetrying`), and Close leaves no adapter (`ClosedNil`). `NoLeak` needs all three.
- `AttemptsInv`: how often the broker has executed a caller's operation, bounded by one more than
  the caller's waits and refined by where the caller is.
- `QuietInv`: as long as no connection has dropped nothing is broken, nobody has waited, and only a
  caller overtaken by Close can have failed. `NoDropNoDuplicate` follows from it with `AttemptsInv`.

**Relay.** `Accounts` rests on who took what: the source gives a message up once, to one relay (`OneTaker`);
it goes through that relay's hand (`HandInv`) and from there to one place (`PlaceInv`); and a relay's counter is
the number of its own messages at the destination (`CountInv`), from which the bound of `--count` on what a
move removes follows. The refinement then takes each step to one message passed on, one lost, or a stutter.

**Bridge.** That each message has one place is inductive only with the hand, the pipe and the target kept apart
(`Apart`): a record twice in the pipe would be published and still under way. `GracefulDrain` rests on how the target can have
ended (`EndInv`): at the end of its input, which comes after the last write, or having dropped something.

**RequestReply.** Two facts carry the first group: a reply's queue and correlation id are those of the attempt it answers, or it has no id
(`Honest`), and no two requesters wait for the same attempt (`Distinct`). From the first follows what
a broker that matches can hand to a requester (`VisibleIsOwn`), hence `OwnAnswer` and `NoMismatch`;
from the second that what a call consumes or deletes belongs to no other (`StreamSurvives`,
`VisibleKept`), hence `StreamWhileWaiting` and the action property. `MismatchHasCause` needs the past as well (`CauseInv`): an attempt
has been made before anything refers to it, it is answered by one copy, and a requester that
has gone on to another attempt has given the first one up or has accepted a reply to it.

**Procs.** `RowExists` and the prompt need that the process view is on exactly while the focus is on the window, and that it has
saved what the user typed (`ViewInv`). `NoOrphan` and `ShutdownCancels` need who can be cancelled (`HandleInv`): while
the UI runs, each working process in the list has handed over its cancel function, and a process marked done is over.
Lemmas about lists say what deleting a row or purging leaves.

**Pipeline.** What a block holds follows from where it is (`BlockInv`), so each of the many actions is one of nine
moves of messages between places (`Effects`); that the places stay apart (`PlaceInv`) and that a move is one of
`Custody`'s is proved of the moves. `SuccessMeansDelivered` rests on the order in which the blocks end
(`SuccessInv`): as long as nothing failed a block ends after the one in front of it, on an empty pipe, so that the garbage
collector never closes a pipe with something in it. `StopsConsuming` rests on `LateInv`.

**Chat.** That a busy UI has a cause needs that only jobs under way are cancelled (`CancelInv`); that a command keeps its name needs that in an
undisturbed UI the command that runs is the proposed one (`LabelInv`). For `SentIsAQuestion` lemmas say what `trimHistory`
and `leadingUserHistory` leave of a history: its last turn, and a first one of the user's.

**Consume.** Both properties follow from where a message that was not shown can be: a command that removes has not yet shown
what is on the queue, what it is settling or what the MQTT client holds for it (`FreshInv`), nor has a browser
anything beyond its cursor (`BrowseInv`). Loss is counted as it comes (`LossInv`), by `--omit`, a failed write, a settlement cut off, or the
error that ends the command; a read that does not follow ends with the first settlement that is cut off (`DoubtInv`).

**Sidebar.** What is confirmed is what was announced because a prompt remembers it (`PromptInv`): the name and the number of
its window, neither of which a load changes, and no row. That the selected row is drawn has two halves. It is a row of the
list (`ScreenInv`): whatever shortens a list, a load, a filter, a tree folded, moves the selection back into it. And it is among the
rows drawn: a list shows its selected row if it has a line for every row, or at least three (`ListShowsSelected`), and the planner
leaves an open window either (`PlanFits`, with `FitsTheScreen`). That rests on what the planner's three ways out
spend: the window that is given lines last is given what is left (`GrowthFits`); each window that is folded
takes two lines at most, so that with all of them folded the focused one has three rows left (`AllFoldedFit`, which is where the height is
needed); and the shortest sequence of folds that makes room is found if there is one (`AutoFoldedFits`).

**Upkeep.** A timer that fires while reconnecting is disabled is used up for nothing; so `TimersInv` adds that a
screen that says it is reconnecting has not been disabled.

**AIClient.** A call that failed for good has been attempted once (`RetryInv`), and `lastErr` tells the two kinds of failure apart:
once an attempt has been repeated it stays what it is. What was shown is kept in step with the text piece by piece, and an error event that
is heeded leaves the stream (`AnswerInv`).

**Subscriptions.** `TopicInv` says where the subscription of each subscriber is (`Home`), by the way its adapter names and keeps it, and that
what is owed to the subscriber is what is in there (`Feed`). For a step to keep this, no two subscribers may
share one, cache and call must lead to the right one (`CacheInv`, `CallInv`), and one that is there before its subscriber has
asked must be empty (`UnaskedInv`): it is what a call that failed has left, which only `rabbitmq` and `awssqs` do. What
is not `Home`'s to say are the deviations of section 4, named in `Confused`. `NoLeftovers` is `LooseInv`: what Close does not
know of was left by a failure, one each.

**Manage.** All requests of a command but its last only read, with four exceptions, and its last does what the command
says. So a command that is under way and has had the object to itself has changed nothing yet (`ReadsFirst`); the four
that act twice (`Stepwise`) have each their own shape in `CommandInv`. A failure that a command ignores is one of a read. One misled by an answer (`Misled`)
remembers that it was (`job.misled`), so one that was not has seen its reads and its last request accepted.

**McpServer.** Over stdio the order of the answers is that of a hand-over: what the loop has taken is what the reader has
read, less the line it may hold, and all of it has been dealt with but the one the loop is busy with (`StdioInv`). What a tool
counts agrees with the broker as long as it makes calls, and when it says it succeeded (`RequestInv`).

What the proofs found:

- An earlier form of `LossHasCause`, one message at most, did not follow for a read with `--forever` or `--for`: after a settlement cut off by the call's own timer it goes on, and the
  next one can be cut off too. One broker failure in the run could not show it. The property now says what such a
  read can lose, and the run allows two failures.
- `AutoFix` and `GiveCancel` of `Chat` were possible after the UI had quit, where no message is handled any more.
- That `FitsTheScreen` and `SelectionOnScreen` hold depends on the height of the terminal, which the run's bounds had hidden. `HeightAssumption` now
  says how high it has to be, and the run is at the limit.
- Some CASE expressions of `Manage`, `Subscriptions` and `Sidebar` had guards that overlap. TLC takes the first that holds, TLA+ any of them; the guards now
  exclude each other in the order in which the code tests them.

Only model-checked are the liveness properties, since fairness and ENABLED are out of the prover's reach: `GetsThrough`,
`RelaysEnd`, `BridgeEnds`, `ProcsEnd`, `Quiesces`, `ThinkingEnds`, `Returns`, `RefreshGoesOn`, `CompleteReturns`,
`RepeatingAchieves` and `ServesOrEnds`.

## 6. Not modelled

Wording, layout of text, flags and configuration; the bytes of payloads (NDJSON is modelled as a record
that can or cannot be encoded); the client libraries, which enter as what a call may do;
captured output and the stderr highlight of background processes; the `--stats` reporter, whose only
shared object is the writer; the rate limiter; the shell's parsing and its aliases; the mouse, scrolling, copying and the input
field of the terminal UI; the second, v3, variant of the MQTT adapter; the listings of the management commands, which read only. Prompt
text and configuration files have no state of the program's own. `PROJECT.json` says of each
component how much of it is modelled.

## 7. Plan

Done, in this order: `Reconnect` (every command in a session runs through it), `Relay` and
`Bridge` with `Custody` (the promises about messages), `RequestReply`, `Procs`, `Pipeline`; then `Chat`, `Sidebar`
with `Layout` and `Upkeep`, `Consume`, and `AIClient`, `Subscriptions`, `Manage`, `McpServer`.

Proved: all invariants and action properties of the runs, and the refinements of `Custody`.

Left: the liveness properties stay with TLC. The models can grow where section 6 says so; what would say most is the
shell's Ctrl-C, which reaches the blocks of a pipeline one by one, and the v3 variant of the MQTT adapter.
