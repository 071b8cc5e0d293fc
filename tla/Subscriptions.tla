--------------------------- MODULE Subscriptions ---------------------------
(***************************************************************************)
(* The topic adapters (broker/*/topic_adapter.go): what one session's      *)
(* Subscribe calls create at the broker and keep in the adapter, what is   *)
(* published in between, and what closing the session leaves behind.  Each *)
(* call reads one message of the subscription its options ask for; the     *)
(* adapters differ in how they name that subscription, in what they cache, *)
(* and in how long it lives.                                               *)
(***************************************************************************)
EXTENDS Integers, Sequences, FiniteSets, Functions

CONSTANTS
    Brokers,       \* the adapters explored
    Topics, Groups,
    MaxPublished,  \* bound: messages published
    MaxCalls,      \* bound: Subscribe calls
    MaxSessions,   \* bound: sessions opened one after the other
    MaxFaults      \* bound: calls to the broker that fail

VARIABLES
    broker,
    subs,       \* the subscriptions that exist: what they are bound to, hold, and how they end
    cache,      \* the adapter's cache: under which key it knows which subscription
    toDelete,   \* the ephemeral subscriptions Close deletes
    readerDead, \* kafka: the cached reader is closed
    open,       \* a session is open
    sessions, calls,
    published,  \* what has been published to each topic, in order
    faults,
    call,       \* the Subscribe call under way: its options and its subscription
    owed,       \* what each subscriber has yet to be given
    last        \* the last message given: to whom, which, and whether it was owed

vars == <<broker, subs, cache, toDelete, readerDead, open, sessions, calls, published, faults,
          call, owed, last>>

Options == [topic : Topics, group : Groups \cup {"none"}, durable : BOOLEAN]
NoCall == [active |-> FALSE]
NoLast == [who |-> <<"none", "none">>, msg |-> <<"none", 0>>, due |-> TRUE]

Init ==
    /\ broker \in Brokers
    /\ subs = <<>>
    /\ cache = <<>>
    /\ toDelete = {}
    /\ readerDead = FALSE
    /\ open = TRUE
    /\ sessions = 1
    /\ calls = 0
    /\ published = [t \in Topics |-> <<>>]
    /\ faults = 0
    /\ call = NoCall
    /\ owed = <<>>
    /\ last = NoLast

Without(f, S) == Restrict(f, DOMAIN f \ S)
With(f, k, v) == [x \in DOMAIN f \cup {k} |-> IF x = k THEN v ELSE f[x]]

----------------------------------------------------------------------------
(* What each adapter makes of a call's options: the subscription's name     *)
(* <<kind, random suffix, topic, group>>, the key under which it is cached  *)
(* (<<>> when it is not), and how it ends: never, deleted by Close, with    *)
(* the session, or with the call.                                           *)

Grouped(o) == o.group # "none"

Group(o) == <<"group", 0, o.topic, o.group>>
Durable(o) == <<"durable", 0, o.topic, "none">>
Random(o) == <<"random", calls, o.topic, "none">>       \* RandomSuffix, for this call
Adapters(o) == <<"adapter", sessions, o.topic, o.group>> \* a name drawn once per adapter

(* SubscriptionName and ScopedSubscriptionName: the name of a group or of   *)
(* a durable subscriber, scoped by the topic, or an ephemeral one.          *)
ScopedSubscriptionName(o, ephemeral) ==
    IF Grouped(o) THEN Group(o) ELSE IF o.durable THEN Durable(o) ELSE ephemeral

Ephemeral(o, ends) == IF Grouped(o) \/ o.durable THEN "never" ELSE ends

(* A queue bound to the exchange, by the binding's name.                    *)
Rabbitmq(o) ==
    [name |-> ScopedSubscriptionName(o, Random(o)), key |-> <<o.topic, o.group, o.durable>>,
     ends |-> Ephemeral(o, "deleted")]

(* A consumer group of the stream, or a position of the adapter's own.      *)
(* There is no durable subscription.                                        *)
Redis(o) ==
    [name |-> IF Grouped(o) THEN Group(o) ELSE Adapters(o), key |-> <<o.topic, o.group>>,
     ends |-> IF Grouped(o) THEN "never" ELSE "session"]

(* A queue subscribed to the topic; --durable is not part of the key.       *)
AwsSqs(o) ==
    [name |-> ScopedSubscriptionName(o, Random(o)), key |-> <<o.topic, o.group>>,
     ends |-> Ephemeral(o, "deleted")]

AzureSb(o) ==
    LET name == ScopedSubscriptionName(o, Adapters(o))
    IN [name |-> name, key |-> <<o.topic, name>>, ends |-> Ephemeral(o, "deleted")]

(* The key is the name, and the adapter's own has no topic in it.           *)
Gcp(o) ==
    LET name == ScopedSubscriptionName(o, <<"adapter", sessions, "any", "none">>)
    IN [name |-> name, key |-> <<name>>, ends |-> Ephemeral(o, "deleted")]

(* Subscribed for the call; there is nothing durable about it.              *)
Nats(o) == [name |-> <<"call", calls, o.topic, o.group>>, key |-> <<>>, ends |-> "call"]

(* A link per call, which --durable makes the broker keep.  Without a group *)
(* it is numbered, so a durable one is never found again.                   *)
Artemis(o) ==
    [name |-> IF o.durable /\ Grouped(o) THEN Group(o) ELSE <<"link", calls, o.topic, "none">>,
     key |-> <<>>, ends |-> IF o.durable THEN "never" ELSE "call"]

Pulsar(o) ==
    LET name == ScopedSubscriptionName(o, Adapters(o))
    IN [name |-> name, key |-> <<o.topic, name>>, ends |-> Ephemeral(o, "session")]

(* Clean sessions: the broker forgets all with the connection.              *)
Mqtt(o) == [name |-> Adapters(o), key |-> <<o.topic, o.group>>, ends |-> "session"]

KafkaByTopic(o) ==  \* mutant: the reader is told apart by its topic alone
    [name |-> IF Grouped(o) THEN Group(o) ELSE Adapters(o), key |-> <<o.topic>>,
     ends |-> IF Grouped(o) THEN "never" ELSE "session"]

(* A reader of a consumer group, or of the topic from its beginning.        *)
Kafka(o) ==
    [name |-> IF Grouped(o) THEN Group(o) ELSE Adapters(o), key |-> <<o.topic, o.group>>,
     ends |-> IF Grouped(o) THEN "never" ELSE "session"]

Asked(o) ==
    CASE broker = "rabbitmq" -> Rabbitmq(o)
      [] broker = "redis" -> Redis(o)
      [] broker = "awssqs" -> AwsSqs(o)
      [] broker = "azuresb" -> AzureSb(o)
      [] broker = "gcp" -> Gcp(o)
      [] broker = "nats" -> Nats(o)
      [] broker = "artemis" -> Artemis(o)
      [] broker = "pulsar" -> Pulsar(o)
      [] broker = "mqtt" -> Mqtt(o)
      [] broker = "kafka" -> Kafka(o)

NameFor(o) == Asked(o).name
CacheKey(o) == Asked(o).key
Ends(o) == Asked(o).ends
Cached(o) == CacheKey(o) # <<>> /\ CacheKey(o) \in DOMAIN cache

(* Who asks: the group, the holder of the durable subscription, or the      *)
(* session itself.                                                          *)
Who(o) == <<o.topic, IF Grouped(o) /\ Ends(o) # "call" THEN o.group
                     ELSE IF o.durable /\ Ends(o) = "never" THEN "durable" ELSE "own">>

----------------------------------------------------------------------------
(* Subscribe, first part: the subscription is found in the cache, or        *)
(* created and bound to its topic.                                          *)

(* A kafka reader starts at the beginning of the topic, a subscription with *)
(* what is published from now on.                                           *)
FirstContent(o) == IF broker = "kafka" THEN published[o.topic] ELSE <<>>

CanCall == open /\ ~call.active /\ calls < MaxCalls

UseCached(o) ==
    /\ CanCall
    /\ Cached(o)
    /\ calls' = calls + 1
    /\ call' = [active |-> TRUE, opts |-> o, name |-> cache[CacheKey(o)]]
    /\ UNCHANGED <<broker, subs, cache, toDelete, readerDead, open, sessions, published, faults,
                   owed, last>>

(* A kafka reader is closed before the next is made, and a group-less one   *)
(* loses its place.                                                         *)
Replaced == IF broker = "kafka" THEN {n \in DOMAIN subs : subs[n].ends = "session"} ELSE {}

(* The gcp adapter refuses a subscription that is bound to another topic.   *)
BoundElsewhere(o) ==
    /\ broker = "gcp"
    /\ NameFor(o) \in DOMAIN subs
    /\ o.topic \notin subs[NameFor(o)].topics

Create(o) ==
    LET name == NameFor(o)
        kept == Without(subs, Replaced)
        fresh == [topics |-> {o.topic}, queue |-> FirstContent(o), ends |-> Ends(o)]
        bound == IF name \in DOMAIN kept
                 THEN With(kept, name, [kept[name] EXCEPT !.topics = @ \cup {o.topic}])
                 ELSE With(kept, name, fresh)
        gone == IF broker = "kafka" THEN {w \in DOMAIN owed : w[2] = "own"} ELSE {}
        still == Without(owed, gone)
    IN /\ CanCall
       /\ ~Cached(o)
       /\ ~BoundElsewhere(o)
       /\ calls' = calls + 1
       /\ subs' = bound
       /\ cache' = CASE CacheKey(o) = <<>> -> cache
                     [] CacheKey(o) # <<>> /\ broker = "kafka" -> With(<<>>, CacheKey(o), name)
                     [] OTHER -> With(cache, CacheKey(o), name)
       /\ readerDead' = FALSE
       /\ toDelete' = IF Ends(o) = "deleted" THEN toDelete \cup {name} ELSE toDelete
       /\ call' = [active |-> TRUE, opts |-> o, name |-> name]
       /\ owed' = IF Who(o) \in DOMAIN still THEN still
                  ELSE With(still, Who(o), Range(FirstContent(o)))
       /\ UNCHANGED <<broker, open, sessions, published, faults, last>>

(* A step of it fails and the call returns the error.  RabbitMQ's queue has *)
(* been declared by then but not bound, nor registered for Close; the SQS   *)
(* queue is registered; a kafka reader has been closed and stays cached.    *)
CreateFails(o) ==
    LET name == NameFor(o)
        unbound == [topics |-> {}, queue |-> <<>>, ends |-> Ends(o)]
        halfDone == broker \in {"rabbitmq", "awssqs"} /\ name \notin DOMAIN subs
    IN /\ CanCall
       /\ ~Cached(o)
       /\ faults < MaxFaults
       /\ faults' = faults + 1
       /\ calls' = calls + 1
       /\ subs' = IF halfDone THEN With(subs, name, unbound) ELSE Without(subs, Replaced)
       /\ toDelete' = IF halfDone /\ broker = "awssqs" /\ Ends(o) = "deleted"
                      THEN toDelete \cup {name} ELSE toDelete
       /\ readerDead' = (readerDead \/ (broker = "kafka" /\ cache # <<>>))
       /\ owed' = IF broker = "kafka" THEN Without(owed, {w \in DOMAIN owed : w[2] = "own"}) ELSE owed
       /\ UNCHANGED <<broker, cache, open, sessions, published, call, last>>

----------------------------------------------------------------------------
(* Subscribe, second part: one message is read, or none is there in time.   *)

AfterCallPosition(s) ==  \* mutant: a redis read without a group starts at "$" each time
    IF Ends(call.opts) = "call" \/ (broker = "redis" /\ ~Grouped(call.opts)) THEN Without(s, {call.name}) ELSE s

(* What a call leaves: a subscription of its own ends with it.              *)
AfterCall(s) == IF Ends(call.opts) = "call" THEN Without(s, {call.name}) ELSE s
OwnsCall(o) == IF Ends(o) = "call" THEN {Who(o)} ELSE {}

Readable == ~readerDead /\ call.name \in DOMAIN subs /\ subs[call.name].queue # <<>>

Give ==
    LET who == Who(call.opts)
        sub == subs[call.name]
        msg == Head(sub.queue)
        rest == With(subs, call.name, [sub EXCEPT !.queue = Tail(@)])
        due == IF who \in DOMAIN owed THEN owed[who] ELSE {}
    IN /\ call.active
       /\ Readable
       /\ subs' = AfterCall(rest)
       /\ last' = [who |-> who, msg |-> msg, due |-> msg \in due]
       /\ owed' = Without(With(owed, who, due \ {msg}), OwnsCall(call.opts))
       /\ call' = NoCall
       /\ UNCHANGED <<broker, cache, toDelete, readerDead, open, sessions, calls, published, faults>>

(* The wait ends, or the closed reader says so at once.                     *)
GiveNothing ==
    /\ call.active
    /\ ~Readable
    /\ subs' = AfterCall(subs)
    /\ owed' = Without(owed, OwnsCall(call.opts))
    /\ call' = NoCall
    /\ UNCHANGED <<broker, cache, toDelete, readerDead, open, sessions, calls, published, faults, last>>

----------------------------------------------------------------------------
(* Somebody publishes. *)

(* Every subscription bound to the topic gets a copy.  An MQTT client gets  *)
(* one for each of its subscriptions, and hands it to each channel whose    *)
(* filter matches, which those of a group and of no group both do.          *)
Copies(name, t) ==
    IF t \notin subs[name].topics THEN 0
    ELSE IF broker = "mqtt" THEN Cardinality({n \in DOMAIN subs : t \in subs[n].topics}) ELSE 1

Publish(t) ==
    LET msg == <<t, Len(published[t]) + 1>>
    IN /\ Cardinality(UNION {Range(published[u]) : u \in Topics}) < MaxPublished
       /\ published' = [published EXCEPT ![t] = Append(@, msg)]
       /\ subs' = [n \in DOMAIN subs |->
                    [subs[n] EXCEPT !.queue = @ \o [k \in 1..Copies(n, t) |-> msg]]]
       /\ owed' = [w \in DOMAIN owed |-> IF w[1] = t THEN owed[w] \cup {msg} ELSE owed[w]]
       /\ UNCHANGED <<broker, cache, toDelete, readerDead, open, sessions, calls, faults, call, last>>

----------------------------------------------------------------------------
(* Sessions. *)

DeletedByCloseNot ==  \* mutant: Close only closes the connection
    {}

(* What Close deletes.                                                      *)
DeletedByClose == toDelete

(* Close deletes the ephemeral subscriptions it knows of, whose failures it *)
(* ignores, and the session's own end with the connection.                  *)
Close ==
    /\ open /\ ~call.active
    /\ open' = FALSE
    /\ \E failing \in SUBSET DeletedByClose :
        /\ faults + Cardinality(failing) <= MaxFaults
        /\ faults' = faults + Cardinality(failing)
        /\ subs' = Without(subs, (DeletedByClose \ failing)
                                 \cup {n \in DOMAIN subs : subs[n].ends = "session"})
    /\ cache' = <<>>
    /\ toDelete' = {}
    /\ readerDead' = FALSE
    /\ owed' = Without(owed, {w \in DOMAIN owed : w[2] = "own" \/ broker \in {"mqtt", "nats"}})
    /\ UNCHANGED <<broker, sessions, calls, published, call, last>>

Reopen ==
    /\ ~open
    /\ sessions < MaxSessions
    /\ sessions' = sessions + 1
    /\ open' = TRUE
    /\ UNCHANGED <<broker, subs, cache, toDelete, readerDead, calls, published, faults, call, owed, last>>

----------------------------------------------------------------------------
Next ==
    \/ \E o \in Options : UseCached(o) \/ Create(o) \/ CreateFails(o)
    \/ Give \/ GiveNothing
    \/ \E t \in Topics : Publish(t)
    \/ Close \/ Reopen

Spec == Init /\ [][Next]_vars

----------------------------------------------------------------------------
(* Properties. *)

TypeOK ==
    /\ broker \in Brokers
    /\ \A n \in DOMAIN subs :
        /\ subs[n].topics \subseteq Topics
        /\ subs[n].ends \in {"never", "deleted", "session", "call"}
    /\ toDelete \subseteq DOMAIN subs
    /\ faults \in 0..MaxFaults

(* A call gives a message of the topic it names.                            *)
OwnTopic == last.msg[1] = last.who[1]

(* Two requests of one session that share a cache entry although they ask   *)
(* for different things: a durable and an ephemeral one with awssqs, which  *)
(* leaves --durable out of its key, and two topics without a group with     *)
(* gcp, which leaves the topic out.                                         *)
Confused(w) == broker \in {"awssqs", "gcp"} /\ w[2] \notin Groups

(* A subscriber is given what was published to its topic since it first     *)
(* asked and it has not been given yet: nothing of another topic, of        *)
(* another group or of before, and nothing twice.  (An MQTT session that    *)
(* reads a topic both with and without a group hands it every message       *)
(* several times.)                                                          *)
ReadsItsOwn ==
    /\ TypeOK
    /\ last.due \/ Confused(last.who) \/ broker = "mqtt"
    /\ OwnTopic \/ Confused(last.who)

(* The subscription a call with these options reads, or will read.          *)
ReadBy(o) ==
    IF call.active /\ Who(call.opts) = Who(o) THEN call.name
    ELSE IF Cached(o) THEN cache[CacheKey(o)] ELSE NameFor(o)

(* Nothing that is owed is lost between two calls, or, to a group or a      *)
(* durable subscriber, between two sessions: it is in the subscription that *)
(* the next call with the same options reads.  (The durable link of artemis *)
(* without a group has a new name each time; a closed kafka reader has lost *)
(* its place.)                                                              *)
NothingMissed ==
    \A o \in Options :
        Who(o) \in DOMAIN owed /\ ~Confused(Who(o)) =>
            \/ readerDead \/ (broker = "artemis" /\ ~Grouped(o))
            \/ owed[Who(o)] = {}
            \/ ReadBy(o) \in DOMAIN subs /\ owed[Who(o)] \subseteq Range(subs[ReadBy(o)].queue)

(* Together: a subscriber is given what was published to its topic since it *)
(* first asked, all of it and nothing else (the topic adapters).            *)
OwnFeed == ReadsItsOwn /\ NothingMissed

(* A closed session leaves no ephemeral subscription behind, but those a    *)
(* failed call has cost it the means to delete.                             *)
NoLeftovers ==
    ~open => Cardinality({n \in DOMAIN subs : subs[n].ends = "deleted"}) <= faults
=============================================================================
