------------------------------- MODULE Consume -------------------------------
(***************************************************************************)
(* One reading command on a queue: "receive" or "peek" of the command line *)
(* (cmd/receive.go, cmd/consume.go) or the tool of the same name of the    *)
(* MCP server (mcp/tools.go), on the queue adapter of one of ten brokers   *)
(* (broker/<name>/queue_adapter.go, receive.go, browse.go).  The command   *)
(* calls the adapter once per message; the caller may end its context at   *)
(* any moment.  Messages arrive and others consume meanwhile.              *)
(*                                                                         *)
(* Messages are numbered in the order in which they were sent; the odd     *)
(* ones match the selector.  The timer of a call, 24 hours with --wait, is *)
(* taken to last for ever there.                                           *)
(***************************************************************************)
EXTENDS Integers, FiniteSets, FiniteSetsExt

CONSTANTS
    Brokers,            \* the brokers looked at
    MaxMessages,        \* bound: messages sent
    MaxCount,           \* bound: --count
    MaxFaults,          \* bound: calls to the broker that fail
    SubscriptionBuffer  \* subscriptionBuffer of the MQTT adapter, 256

AmqpBrokers == {"artemis", "rabbitmq"}

ASSUME ConsumeAssumption ==
    /\ Brokers \subseteq AmqpBrokers \cup {"nats", "redis", "sqs", "azure", "gcp", "ibmmq",
                                           "pulsar", "mqtt"}
    /\ {MaxMessages, MaxCount, MaxFaults} \subseteq Nat
    /\ SubscriptionBuffer \in Nat \ {0}

Messages == 1..MaxMessages
None == 0

VARIABLES
    broker,
    cfg,      \* the command and its flags
    sent,     \* messages sent so far
    ready,    \* messages on the queue
    away,     \* messages of the queue that are kept for this client
    gone,     \* messages that this command has removed
    doubt,    \* of these, those whose settlement failed as the context ended
    again,    \* messages whose settlement was lost
    faults,   \* bound
    pc,       \* "open", "loop", "call", "settle", "done"
    mode,     \* "none", "browse" or "receive"
    view,     \* what a browser can show
    cursor,   \* the last message it has shown
    held,     \* the message being settled
    ctx,      \* "live", "canceled", "deadline"
    omitted,  \* messages skipped for --omit
    received, \* messages shown, up to MaxCount
    seen,     \* how often each message was shown, up to twice
    unwritten, \* messages whose data could not be written out
    result    \* "ok", "none" (ErrNoMessageAvailable) or "error"

vars == <<broker, cfg, sent, ready, away, gone, doubt, again, faults, pc, mode, view, cursor,
          held, ctx, omitted, received, seen, unwritten, result>>

request == <<broker, cfg>>
removal == <<gone, doubt, again>>
browser == <<mode, view, cursor>>
output == <<omitted, received, seen, unwritten>>

(* count 0 means all there is.  The tools know no --wait, --for or --omit;  *)
(* a selector is of use only where the adapter passes it on.                *)
Selects(b) == b \in AmqpBrokers \cup {"ibmmq"}

Config(b) ==
    {c \in [driver : {"cli", "mcp"}, ack : BOOLEAN, count : 0..MaxCount, omit : 0..1,
            follow : BOOLEAN, wait : BOOLEAN, selector : BOOLEAN] :
        /\ c.driver = "mcp" => c.count > 0 /\ c.omit = 0 /\ ~c.follow /\ ~c.wait
        /\ c.selector => Selects(b)}

Init ==
    /\ broker \in Brokers
    /\ cfg \in Config(broker)
    /\ sent \in 0..MaxMessages
    /\ ready = 1..sent
    /\ away = {} /\ gone = {} /\ doubt = {} /\ again = {}
    /\ faults = 0
    /\ pc = "open"
    /\ mode = "none" /\ view = {} /\ cursor = None
    /\ held = None
    /\ ctx = "live"
    /\ omitted = 0 /\ received = 0
    /\ seen = [m \in Messages |-> 0] /\ unwritten = {}
    /\ result = "none"

----------------------------------------------------------------------------
(* The loops. *)

Matches(m) == cfg.selector => m % 2 = 1

Done(r) == pc' = "done" /\ result' = r

(* Mutant: the context is asked only while following. *)
LoopHeadDrains ==
    /\ pc = "loop"
    /\ \/ /\ cfg.count > 0 /\ received = cfg.count
          /\ Done("ok")
       \/ /\ cfg.count = 0 \/ received < cfg.count
          /\ IF cfg.driver = "cli" /\ cfg.follow /\ ctx # "live" THEN Done("ok")
             ELSE pc' = "call" /\ UNCHANGED result
    /\ UNCHANGED <<request, sent, ready, away, removal, faults, browser, held, ctx, output>>

(* consumeMessages looks at its context before each call, readMessages      *)
(* leaves that to the adapter.                                              *)
LoopHead ==
    /\ pc = "loop"
    /\ \/ /\ cfg.count > 0 /\ received = cfg.count
          /\ Done("ok")
       \/ /\ cfg.count = 0 \/ received < cfg.count
          /\ IF cfg.driver = "cli" /\ ctx # "live" THEN Done("ok")
             ELSE pc' = "call" /\ UNCHANGED result
    /\ UNCHANGED <<request, sent, ready, away, removal, faults, browser, held, ctx, output>>

(* Mutant: what is no answer is the end of the queue. *)
GotLenient(err) ==
    IF cfg.follow THEN pc' = "loop" /\ UNCHANGED result ELSE Done("ok")

(* What the loop makes of an adapter's error. *)
Got(err) ==
    CASE err = "error" -> Done("error")
      [] err = "canceled" -> Done(IF cfg.driver = "cli" THEN "ok" ELSE "error")
      [] err \in {"none", "deadline"} ->
            IF cfg.follow THEN pc' = "loop" /\ UNCHANGED result
            ELSE IF cfg.driver = "cli" /\ err = "none" /\ received = 0 /\ cfg.count > 0
                 THEN Done("none")
                 ELSE Done("ok")

(* The message m is the adapter's answer.  The command fails where m cannot *)
(* be encoded or its metadata cannot be written, and with the reader of its *)
(* standard output (SIGPIPE).  Any other failure to write the data - a full *)
(* disk, a pipe inside the process - goes unnoticed: m counts as received   *)
(* and the loop goes on.                                                    *)
Skip ==
    /\ omitted < cfg.omit
    /\ omitted' = omitted + 1
    /\ pc' = "loop"
    /\ UNCHANGED <<received, seen, unwritten, result, faults>>

Write(m) ==
    /\ omitted = cfg.omit
    /\ \/ seen' = [seen EXCEPT ![m] = IF @ < 2 THEN @ + 1 ELSE 2] /\ UNCHANGED unwritten
       \/ cfg.driver = "cli" /\ unwritten' = unwritten \cup {m} /\ UNCHANGED seen
    /\ received' = IF received < MaxCount THEN received + 1 ELSE received
    /\ pc' = "loop"
    /\ UNCHANGED <<omitted, result, faults>>

WriteFails ==
    /\ omitted = cfg.omit /\ cfg.driver = "cli"
    /\ faults < MaxFaults /\ faults' = faults + 1
    /\ Done("error")
    /\ UNCHANGED output

Show(m) == Skip \/ Write(m) \/ WriteFails

----------------------------------------------------------------------------
(* The browsers. *)

(* The RabbitMQ one is a list that the management API has returned; it does *)
(* without where there is a selector.                                       *)
Browses(b) ==
    \/ b \in {"artemis", "nats", "redis", "azure", "ibmmq"}
    \/ b = "rabbitmq" /\ ~cfg.selector

(* Where the browser begins and how far it can see: NATS to the last        *)
(* message stored by now, the list of RabbitMQ to what was on the queue.    *)
ViewOf(b) ==
    CASE b = "nats" -> 1..sent
      [] b = "rabbitmq" -> ready
      [] OTHER -> Messages

Browse ==
    /\ mode' = "browse"
    /\ view' = ViewOf(broker)
    /\ pc' = "loop"
    /\ UNCHANGED <<faults, result>>

BrowseFails ==
    /\ faults < MaxFaults /\ faults' = faults + 1
    /\ \/ broker = "rabbitmq" /\ mode' = "receive" /\ pc' = "loop" /\ UNCHANGED <<view, result>>
       \/ broker \in {"artemis", "nats", "azure", "ibmmq"} /\ Done("error") /\ UNCHANGED <<mode, view>>

(* doReceive and readMessages: a peek browses where the adapter can.        *)
Open ==
    /\ pc = "open"
    /\ IF ~cfg.ack /\ Browses(broker)
       THEN Browse \/ BrowseFails
       ELSE mode' = "receive" /\ pc' = "loop" /\ UNCHANGED <<view, faults, result>>
    /\ UNCHANGED <<request, sent, ready, away, removal, cursor, held, ctx, output>>

(* IBM MQ's browser is opened without the selector. *)
Ahead ==
    {m \in view : /\ m > cursor
                  /\ m \in ready \/ broker = "rabbitmq"
                  /\ broker = "artemis" => Matches(m)}

Calling(how) == pc = "call" /\ mode = how

(* Mutant: every call begins at the head. *)
BrowseHead ==
    /\ Calling("browse")
    /\ Ahead # {}
    /\ UNCHANGED cursor
    /\ Show(Min(Ahead))
    /\ UNCHANGED <<request, sent, ready, away, removal, mode, view, held, ctx>>

BrowseNext ==
    /\ Calling("browse")
    /\ Ahead # {}
    /\ cursor' = Min(Ahead)
    /\ Show(Min(Ahead))
    /\ UNCHANGED <<request, sent, ready, away, removal, mode, view, held, ctx>>

(* Those that wait for a message to come do so with a timer of their own;   *)
(* with --wait that of IBM MQ is a day long, while Artemis keeps 100 ms.    *)
BrowseEnd ==
    /\ Calling("browse")
    /\ Ahead = {}
    /\ broker = "ibmmq" => ~cfg.wait
    /\ Got("none")
    /\ UNCHANGED <<request, sent, ready, away, removal, faults, browser, held, ctx, output>>

(* Redis alone hands the context's error on, wrapped. *)
BrowseCut ==
    /\ Calling("browse")
    /\ ctx # "live" /\ broker \in {"artemis", "azure", "redis"}
    /\ Got(IF broker = "redis" THEN ctx ELSE "none")
    /\ UNCHANGED <<request, sent, ready, away, removal, faults, browser, held, ctx, output>>

BrowseBreaks ==
    /\ Calling("browse")
    /\ broker # "rabbitmq"
    /\ faults < MaxFaults /\ faults' = faults + 1
    /\ Got("error")
    /\ UNCHANGED <<request, sent, ready, away, removal, browser, held, ctx, output>>

----------------------------------------------------------------------------
(* Receive: until there is a message. *)

Waiting == ready \cap {m \in Messages : Matches(m)}

(* SQS queues keep no order. *)
Next1 == IF broker = "sqs" THEN Waiting ELSE {m \in Waiting : m = Min(Waiting)}

Take ==
    /\ Calling("receive")
    /\ broker \notin {"ibmmq", "mqtt"}
    /\ \E m \in Next1 : held' = m /\ ready' = ready \ {m}
    /\ pc' = "settle"
    /\ UNCHANGED <<request, sent, away, removal, faults, browser, ctx, output, result>>

(* MQGET outside of syncpoint: there is nothing to settle, and a connection *)
(* that breaks may take the message with it.                                *)
GetIbmMq ==
    /\ Calling("receive")
    /\ broker = "ibmmq" /\ Waiting # {}
    /\ ready' = ready \ {Min(Waiting)}
    /\ gone' = gone \cup {Min(Waiting)}
    /\ \/ Show(Min(Waiting))
       \/ faults < MaxFaults /\ faults' = faults + 1 /\ Got("error") /\ UNCHANGED output
    /\ UNCHANGED <<request, sent, away, doubt, again, browser, held, ctx>>

(* The errors of a wait that was ended by its context. *)
CtxError ==
    CASE broker \in {"gcp", "azure", "pulsar"} -> "none"
      [] broker = "rabbitmq" /\ ctx = "deadline" /\ ~cfg.wait -> "none"
      [] OTHER -> ctx

(* Fetch and MQGET are not given the context. *)
Heeds == broker \notin {"nats", "ibmmq"}

CtxEndsCall ==
    /\ Calling("receive")
    /\ ctx # "live" /\ Heeds
    /\ Got(CtxError)
    /\ UNCHANGED <<request, sent, ready, away, removal, faults, browser, held, ctx, output>>

(* Artemis returns the error of its timer as it is. *)
TimesOut ==
    /\ Calling("receive")
    /\ ~cfg.wait
    /\ Got(IF broker = "artemis" THEN "deadline" ELSE "none")
    /\ UNCHANGED <<request, sent, ready, away, removal, faults, browser, held, ctx, output>>

CallBreaks ==
    /\ Calling("receive")
    /\ faults < MaxFaults /\ faults' = faults + 1
    /\ Got("error")
    /\ UNCHANGED <<request, sent, ready, away, removal, browser, held, ctx, output>>

----------------------------------------------------------------------------
(* Receive: the message is settled. *)

Settling == pc = "settle" /\ held' = None

Removed == gone' = gone \cup {held} /\ UNCHANGED <<ready, away, again>>
Back == ready' = ready \cup {held} /\ UNCHANGED <<gone, away, again>>
Fault == faults < MaxFaults /\ faults' = faults + 1

(* A settlement that fails with err may or may not have reached the broker. *)
Unsettled(err) ==
    /\ Fault
    /\ \/ cfg.ack /\ Removed /\ doubt' = IF err = "error" THEN doubt ELSE doubt \cup {held}
       \/ Back /\ UNCHANGED doubt
    /\ Got(err)
    /\ UNCHANGED output

Kept == UNCHANGED <<request, sent, browser, ctx>>

(* Settled within the context of the call, whose timer is still running.    *)
SettleAmqp ==
    /\ Settling /\ broker \in AmqpBrokers
    /\ \/ /\ IF cfg.ack THEN Removed ELSE Back
          /\ Show(held) /\ UNCHANGED doubt
       \/ Unsettled("error")
       \/ ~cfg.wait /\ Unsettled(IF broker = "rabbitmq" THEN "none" ELSE "deadline")
       \/ ctx # "live" /\ Unsettled(CtxError)
    /\ Kept

(* AckSync waits for the server's confirmation. *)
SettleNats ==
    /\ Settling /\ broker = "nats"
    /\ \/ Removed /\ Show(held) /\ UNCHANGED doubt
       \/ Unsettled("error")
    /\ Kept

(* What XACK and XDEL return is ignored.  Without the first the entry stays *)
(* pending for this consumer, which asks only for new ones.                 *)
SettleRedis ==
    /\ Settling /\ broker = "redis"
    /\ \/ Removed
       \/ faults < MaxFaults /\ away' = away \cup {held} /\ UNCHANGED <<ready, gone, again>>
    /\ Show(held) /\ UNCHANGED doubt
    /\ Kept

(* Deleted, or made visible again at once. *)
SettleSqs ==
    /\ Settling /\ broker = "sqs"
    /\ \/ /\ IF cfg.ack THEN Removed ELSE Back
          /\ Show(held) /\ UNCHANGED doubt
       \/ cfg.ack /\ Unsettled("error")
       \/ cfg.ack /\ ctx # "live" /\ Unsettled(ctx)
    /\ Kept

(* Completed under the caller's context, without the timer. *)
SettleAzure ==
    /\ Settling /\ broker = "azure"
    /\ \/ Removed /\ Show(held) /\ UNCHANGED doubt
       \/ Unsettled("error")
       \/ ctx # "live" /\ Unsettled(ctx)
    /\ Kept

(* Ack and Nack have no result: the message is delivered again if the       *)
(* former is lost, here once.                                               *)
Redelivered ==
    /\ faults < MaxFaults /\ held \notin again
    /\ again' = again \cup {held}
    /\ ready' = ready \cup {held}
    /\ UNCHANGED <<gone, away>>

SettleGcp ==
    /\ Settling /\ broker = "gcp"
    /\ \/ IF cfg.ack THEN Removed ELSE Back
       \/ cfg.ack /\ Redelivered
    /\ Show(held) /\ UNCHANGED doubt
    /\ Kept

(* A Nack is heeded a second later. *)
SettlePulsar ==
    /\ Settling /\ broker = "pulsar"
    /\ \/ cfg.ack /\ Removed
       \/ cfg.ack /\ Redelivered
       \/ ~cfg.ack /\ away' = away \cup {held} /\ UNCHANGED <<ready, gone, again>>
    /\ Show(held) /\ UNCHANGED doubt
    /\ Kept

NackDelay ==
    /\ broker = "pulsar" /\ away # {} /\ pc # "done"
    /\ ready' = ready \cup away
    /\ away' = {}
    /\ UNCHANGED <<request, sent, removal, faults, pc, browser, held, ctx, output, result>>

(* The MQTT client is handed what the shared subscription has for it as it  *)
(* comes, and acknowledges it; the channel holds it for the next call, or   *)
(* drops it.                                                                *)
PushMqtt ==
    /\ broker = "mqtt" /\ cfg.ack
    /\ pc \in {"loop", "call"} /\ ready # {}
    /\ ready' = ready \ {Min(ready)}
    /\ gone' = gone \cup {Min(ready)}
    /\ away' = IF Cardinality(away) < SubscriptionBuffer THEN away \cup {Min(ready)} ELSE away
    /\ UNCHANGED <<request, sent, doubt, again, faults, pc, browser, held, ctx, output, result>>

ReadMqtt ==
    /\ Calling("receive") /\ broker = "mqtt"
    /\ away # {}
    /\ away' = away \ {Min(away)}
    /\ Show(Min(away))
    /\ UNCHANGED <<request, sent, ready, removal, browser, held, ctx>>

(* A peek subscribes anew with every call, beside the shared group, and     *)
(* gets a copy of what is sent from then on.                                *)
PeekMqtt ==
    /\ Calling("receive") /\ broker = "mqtt" /\ ~cfg.ack
    /\ sent < MaxMessages
    /\ sent' = sent + 1
    /\ ready' = ready \cup {sent'}
    /\ Show(sent')
    /\ UNCHANGED <<request, away, removal, browser, held, ctx>>

----------------------------------------------------------------------------
(* Others. *)

Send ==
    /\ sent < MaxMessages /\ pc # "done"
    /\ sent' = sent + 1
    /\ ready' = ready \cup {sent'}
    /\ UNCHANGED <<request, away, removal, faults, pc, browser, held, ctx, output, result>>

OtherConsumes ==
    /\ ready # {} /\ pc # "done"
    /\ ready' = ready \ {Min(ready)}
    /\ UNCHANGED <<request, sent, away, removal, faults, pc, browser, held, ctx, output, result>>

(* Ctrl-C, Esc, or the end of --for or of the tool's callCtx. *)
CtxEnds ==
    /\ ctx = "live" /\ pc # "done"
    /\ \/ ctx' = "canceled"
       \/ ctx' = "deadline" /\ (cfg.follow \/ cfg.driver = "mcp")
    /\ UNCHANGED <<request, sent, ready, away, removal, faults, pc, browser, held, output, result>>

----------------------------------------------------------------------------

Settle ==
    \/ SettleAmqp \/ SettleNats \/ SettleRedis \/ SettleSqs \/ SettleAzure \/ SettleGcp
    \/ SettlePulsar

Command ==
    \/ Open \/ LoopHead
    \/ BrowseNext \/ BrowseEnd \/ BrowseCut \/ BrowseBreaks
    \/ Take \/ GetIbmMq \/ ReadMqtt \/ PeekMqtt \/ CtxEndsCall \/ TimesOut \/ CallBreaks
    \/ Settle

Next == Command \/ NackDelay \/ PushMqtt \/ Send \/ OtherConsumes \/ CtxEnds

Spec == Init /\ [][Next]_vars

(* The command runs, and timers fire. *)
FairSpec == Spec /\ WF_vars(Command)

----------------------------------------------------------------------------
(* The type of every variable. *)
TypeOK ==
    /\ broker \in Brokers /\ cfg \in Config(broker)
    /\ sent \in 0..MaxMessages
    /\ \A s \in {ready, away, gone, doubt, again} : s \subseteq 1..sent
    /\ view \subseteq Messages
    /\ faults \in 0..MaxFaults
    /\ pc \in {"open", "loop", "call", "settle", "done"}
    /\ mode \in {"none", "browse", "receive"}
    /\ {cursor, held} \subseteq {None} \cup Messages
    /\ ctx \in {"live", "canceled", "deadline"}
    /\ omitted \in 0..cfg.omit /\ received \in 0..MaxCount
    /\ seen \in [Messages -> 0..2] /\ unwritten \subseteq Messages
    /\ result \in {"ok", "none", "error"}

(* What the command has removed without showing it, apart from what --omit  *)
(* has skipped.  A tool shows its messages only in a result that is no      *)
(* error.                                                                   *)
Lost ==
    IF cfg.driver = "mcp" /\ pc = "done" /\ result = "error" THEN gone
    ELSE {m \in gone : seen[m] = 0}

(* A read that ends well has shown all it has removed, but for messages     *)
(* whose data could not be written (unwritten), and those whose settlement  *)
(* was cut off by the end of the context or of the call's timer (doubt);    *)
(* one that fails has lost a single message more - a tool all of them.      *)
(* Only a read that follows goes on after such a cut: where all data was    *)
(* written, any other has lost one message at most.  A peek removes         *)
(* nothing.  (MQTT brokers hand over what nobody has asked for yet.)        *)
LossHasCause ==
    /\ TypeOK
    /\ ~cfg.ack => gone = {}
    /\ pc = "done" /\ broker # "mqtt" =>
        /\ result # "error" => Cardinality(Lost \ (doubt \cup unwritten)) <= omitted
        /\ cfg.driver = "cli" => Cardinality(Lost \ (doubt \cup unwritten)) <= omitted + 1
        /\ cfg.driver = "cli" /\ ~cfg.follow => Cardinality(Lost \ unwritten) <= omitted + 1

(* Each message is shown once at most, and only if it was asked for: by a   *)
(* browser, whatever happens to the queue meanwhile, and by a receive       *)
(* unless the broker did not get to know of its settlement.  (IBM MQ's      *)
(* browser shows them all.)                                                 *)
ShownOnce ==
    \A m \in Messages :
        /\ cfg.ack \/ mode = "browse" => seen[m] <= 1 \/ m \in again
        /\ seen[m] > 0 /\ ~(broker = "ibmmq" /\ mode = "browse") => Matches(m)

(* A peek without a browser re-reads the head and has no end of its own.    *)
Ends ==
    \/ ctx # "live" /\ (Heeds \/ ~cfg.wait)
    \/ ~cfg.wait /\ ~cfg.follow /\ (cfg.ack \/ cfg.count > 0 \/ mode = "browse")

(* The command ends when the queue is drained, when it has seen all of it,  *)
(* or when its context ends - with --wait, only where the adapter knows of  *)
(* the context.                                                             *)
Returns == Ends ~> pc = "done"

=============================================================================
