------------------------------- MODULE Manage -------------------------------
(***************************************************************************)
(* The management commands (cmd/manage.go, broker/*/manage.go): each is a  *)
(* sequence of requests to the broker's management interface with nothing  *)
(* that makes them one.  One user runs commands on one queue and one topic *)
(* and repeats those that fail; other clients use the same objects in      *)
(* between; a request may fail, or take effect and lose its answer.        *)
(***************************************************************************)
EXTENDS Integers, Sequences

CONSTANTS
    Managed,       \* the brokers explored
    MaxHeld,       \* bound: messages an object holds
    MaxCommands,   \* bound: commands, not counting repetitions
    MaxOthers,     \* bound: what other clients do
    MaxFaults      \* bound: requests that fail or lose their answer

VARIABLES
    managed,   \* the broker
    has,       \* the parts that exist there
    held,      \* the messages they hold
    settings,  \* the settings that the commands change
    job,       \* the command under way
    wanted,    \* the command the user has not seen succeed yet
    report,    \* what the last command reported, and whether an answer misled it
    runs, others, failures

vars == <<managed, has, held, settings, job, wanted, report, runs, others, failures>>
object == <<has, held, settings>>

----------------------------------------------------------------------------
(* Requests, by what the broker makes of them.  lax: the code goes on when  *)
(* the request fails.  trusts: it takes an answer that says "no" for a yes. *)

Request(do, part) == [do |-> do, part |-> part, lax |-> FALSE, trusts |-> FALSE]
Trusting(request) == [request EXCEPT !.trusts = TRUE]
Find(p) == Request("find", p)          \* an error when it is not there
Glimpse(p) == [Find(p) EXCEPT !.lax = TRUE]
See == Request("see", "none")          \* a listing
Count(p) == Request("see", p)          \* its messages, none when it is not there
AddUnlessThere(p) == Request("check", p) \* whether it is there, then Add or nothing
Add(p) == Request("add", p)            \* an error when it is there
Ensure(p) == Request("ensure", p)
Remove(p) == Request("remove", p)      \* an error when it is not there
Drop(p) == Request("drop", p)
Clear(p) == Request("clear", p)
Drain(p) == Request("drain", p)        \* receive and delete, as long as there is something
Set(key) == Request("set", key)
Grow(key) == Request("grow", key)      \* an error unless it becomes more

(* What each broker's commands ask for.                                     *)

RabbitmqPlan ==
    [create_queue |-> <<Ensure("queue")>>, delete_queue |-> <<Remove("queue")>>,
     purge |-> <<Find("queue"), Clear("queue")>>, stats |-> <<Find("queue")>>,
     create_topic |-> <<Ensure("topic")>>, delete_topic |-> <<Remove("topic")>>,
     bind |-> <<Ensure("binding")>>, unbind |-> <<Remove("binding")>>,
     list |-> <<See, See, See>>]

(* A queue's stream is deleted with its group to purge it; a topic's is     *)
(* written to and trimmed to create it.                                     *)
RedisPlan ==
    [create_queue |-> <<Add("queue")>>, delete_queue |-> <<Drop("queue")>>,
     purge |-> <<Count("queue"), Drop("queue")>>, stats |-> <<Count("queue"), Glimpse("queue")>>,
     create_topic |-> <<Ensure("topic"), Clear("topic")>>, delete_topic |-> <<Drop("topic")>>,
     list |-> <<See, Glimpse("queue")>>]

(* ensureQueue: asking for a queue's URL creates the queue.                 *)
AwsPlan ==
    [create_queue |-> <<Ensure("queue")>>, delete_queue |-> <<Find("queue"), Remove("queue")>>,
     purge |-> <<Ensure("queue"), Glimpse("queue"), Clear("queue")>>,
     stats |-> <<Ensure("queue"), Find("queue")>>,
     create_topic |-> <<Ensure("topic")>>, delete_topic |-> <<Find("topic"), Remove("topic")>>,
     list |-> <<See, Glimpse("queue"), See, Glimpse("topic")>>]

AzurePlan ==
    [create_queue |-> <<Add("queue")>>, delete_queue |-> <<Remove("queue")>>,
     create_topic |-> <<Add("topic")>>, delete_topic |-> <<Remove("topic")>>,
     purge |-> <<Glimpse("queue"), Drain("queue")>>, stats |-> <<Find("queue")>>,
     purge_subscription |-> <<Glimpse("sub"), Drain("sub")>>,
     list |-> <<See, Glimpse("queue"), See, Glimpse("topic")>>]

(* Mutant: creates without looking whether the topic and the subscription   *)
(* are there.                                                               *)
GcpPlanAdds ==
    [create_queue |-> <<Add("topic"), Add("sub")>>,
     delete_queue |-> <<Remove("sub"), Remove("topic")>>,
     create_topic |-> <<Add("topic")>>, delete_topic |-> <<Remove("topic")>>,
     purge |-> <<Clear("sub")>>, purge_subscription |-> <<Clear("sub")>>,
     list |-> <<See, Glimpse("topic"), See>>]

(* A queue is a topic and a subscription of it.                             *)
GcpPlan ==
    [create_queue |-> <<AddUnlessThere("topic"), AddUnlessThere("sub")>>,
     delete_queue |-> <<Remove("sub"), Remove("topic")>>,
     create_topic |-> <<AddUnlessThere("topic")>>, delete_topic |-> <<Remove("topic")>>,
     purge |-> <<Clear("sub")>>, purge_subscription |-> <<Clear("sub")>>,
     list |-> <<See, Glimpse("topic"), See>>]

NatsPlan ==
    [create_queue |-> <<Ensure("queue")>>, delete_queue |-> <<Remove("queue")>>,
     purge |-> <<Find("queue"), Clear("queue")>>, stats |-> <<Find("queue")>>, list |-> <<See>>]

(* Mutant: the filter is not read before it is sent along.                  *)
UpdateQueuePlanBlind ==
    [update_filter |-> <<Set("filter")>>, update_limit |-> <<Set("limit")>>]

(* update-queue with a filter, and without one: an absent filter would be   *)
(* removed, so the current one is read and sent along.  The answer to that  *)
(* is not looked at for Jolokia's error in it, which reads as no filter.    *)
UpdateQueuePlan ==
    [update_filter |-> <<Set("filter")>>,
     update_limit |-> <<Find("queue"), Trusting(Find("queue")), Set("limit")>>]

(* Most commands look the queue's MBean up first; createQueue creates the   *)
(* address, destroyQueue removes it.                                        *)
ArtemisPlan ==
    [create_queue |-> <<Add("queue")>>, bind |-> <<Add("queue")>>,
     delete_queue |-> <<Remove("queue")>>,
     purge |-> <<Find("queue"), Clear("queue")>>,
     stats |-> <<Find("queue"), Trusting(Find("queue"))>>,
     enable |-> <<Find("queue"), Set("dispatch")>>,
     update_filter |-> UpdateQueuePlan.update_filter, update_limit |-> UpdateQueuePlan.update_limit,
     create_address |-> <<Add("address")>>, delete_address |-> <<Remove("address")>>,
     list |-> <<Glimpse("queue"), See, Glimpse("address"), See>>]

(* A conflict counts as success: when creating, the topic is there, but a   *)
(* topic that cannot be deleted now is there as well.                       *)
PulsarPlan ==
    [create_topic |-> <<Ensure("topic")>>, delete_topic |-> <<Trusting(Remove("topic"))>>,
     list |-> <<See>>]

UpdateTopicPlan == <<Grow("partitions"), Set("config")>>

TopicStatsPlan == <<Find("topic"), Find("topic"), Find("topic")>>

KafkaPlan ==
    [create_topic |-> <<Add("topic")>>, delete_topic |-> <<Remove("topic")>>,
     update_topic |-> UpdateTopicPlan, stats |-> TopicStatsPlan,
     delete_group |-> <<Remove("group")>>, list |-> <<See, See>>]

Plan ==
    [rabbitmq |-> RabbitmqPlan, redis |-> RedisPlan, awssqs |-> AwsPlan, azuresb |-> AzurePlan,
     gcp |-> GcpPlan, nats |-> NatsPlan, artemis |-> ArtemisPlan, pulsar |-> PulsarPlan,
     kafka |-> KafkaPlan]

Verbs == UNION {DOMAIN Plan[b] : b \in Managed}

----------------------------------------------------------------------------
(* The broker.                                                              *)

Parts ==
    [rabbitmq |-> {"queue", "topic", "binding"}, redis |-> {"queue", "topic"},
     awssqs |-> {"queue", "topic"}, azuresb |-> {"queue", "topic", "sub"},
     gcp |-> {"topic", "sub"}, nats |-> {"queue"}, artemis |-> {"queue", "address"},
     pulsar |-> {"topic"}, kafka |-> {"topic", "group"}]

(* What a part cannot be without.                                           *)
NeedsOf(p) ==
    CASE p = "binding" -> {"queue", "topic"}
      [] p = "sub" /\ managed = "azuresb" -> {"topic"}
      [] p = "queue" /\ managed = "artemis" -> {"address"}
      [] OTHER -> {}

(* What comes and goes with a part, besides.                                *)
With(p) == IF p = "queue" /\ managed = "artemis" THEN {"queue", "address"} ELSE {p}

Without(S) == {p \in has \ S : NeedsOf(p) \cap S = {}}

Storing == {"queue", "sub"} \cup (IF managed = "redis" THEN {"topic"} ELSE {})

NotNow == [active |-> FALSE]
NoReport == [ok |-> FALSE, verb |-> "none", said |-> 0, misled |-> FALSE]

Init ==
    /\ managed \in Managed
    /\ has \in {{}, Parts[managed]}
    /\ held = [p \in Parts[managed] |-> IF p \in has \cap Storing THEN 1 ELSE 0]
    /\ settings = [filter |-> 1, limit |-> 1, partitions |-> 1, config |-> 1, dispatch |-> 1]
    /\ job = NotNow
    /\ wanted = "none"
    /\ report = NoReport
    /\ runs = 0 /\ others = 0 /\ failures = 0

Held(S) == [p \in DOMAIN held |-> IF p \in S THEN held[p] ELSE 0]

(* The broker accepts the request.                                          *)
Accepts(r) ==
    CASE r.do \in {"find", "remove", "clear"} -> r.part \in has
      [] r.do \in {"add", "ensure"} ->
             /\ r.do = "add" => r.part \notin has
             /\ managed = "artemis" \/ NeedsOf(r.part) \subseteq has
      [] r.do = "set" -> has \cap {"queue", "topic"} # {}
      [] r.do = "grow" -> "topic" \in has /\ settings[r.part] = 1
      [] OTHER -> TRUE

Keeps == UNCHANGED object

(* What the request does: the parts, their messages and the settings after. *)
Effect(r) ==
    CASE r.do \in {"add", "ensure"} ->
             has' = has \cup With(r.part) /\ UNCHANGED <<held, settings>>
      [] r.do \in {"remove", "drop"} ->
             /\ has' = Without(With(r.part))
             /\ held' = Held(Without(With(r.part)))
             /\ UNCHANGED settings
      [] r.do = "clear" ->
             held' = [held EXCEPT ![r.part] = 0] /\ UNCHANGED <<has, settings>>
      [] r.do = "drain" ->
             held' = [held EXCEPT ![r.part] = 0] /\ UNCHANGED <<has, settings>>
      [] r.do = "set" ->
             /\ settings' = IF r.part = "filter" THEN [settings EXCEPT !.filter = 2]
                            ELSE IF r.part = "limit"  \* the filter read is sent along
                            THEN [settings EXCEPT !.limit = 2, !.filter = job.filter]
                            ELSE [settings EXCEPT ![r.part] = 2]
             /\ UNCHANGED <<has, held>>
      [] r.do = "grow" ->
             settings' = [settings EXCEPT ![r.part] = 2] /\ UNCHANGED <<has, held>>
      [] OTHER -> Keeps

----------------------------------------------------------------------------
(* A command (NewManageCommand, addManageAction): its requests one after    *)
(* the other; the first that fails fails it, and only success is reported   *)
(* as such.                                                                 *)

(* The user starts a command, or repeats the one that failed.               *)
Start(v) ==
    /\ v \in DOMAIN Plan[managed]
    /\ job' = [active |-> TRUE, verb |-> v, todo |-> Plan[managed][v], count |-> 0, removed |-> 0,
               filter |-> 1, touched |-> FALSE, misled |-> FALSE, before |-> <<has, held, settings>>]
    /\ report' = NoReport
    /\ wanted' = v
    /\ UNCHANGED <<managed, object, others, failures>>

Command(v) == ~job.active /\ wanted = "none" /\ runs < MaxCommands /\ Start(v) /\ runs' = runs + 1
Repeat == ~job.active /\ wanted # "none" /\ Start(wanted) /\ UNCHANGED runs

GiveUp ==
    /\ ~job.active /\ wanted # "none"
    /\ wanted' = "none"
    /\ UNCHANGED <<managed, object, job, report, runs, others, failures>>

(* What a purge prints as removed.  0 stands for not known.                 *)
Said(j) ==
    IF j.verb \notin {"purge", "purge_subscription"} \/ managed = "gcp" THEN 0
    ELSE IF managed \in {"rabbitmq", "redis", "nats", "awssqs"} THEN j.count
    ELSE IF managed = "azuresb" /\ j.removed = 0 THEN j.count ELSE j.removed

(* On to the next request, or done.                                         *)
GoOn(j) ==
    IF j.todo # <<>> THEN job' = j /\ UNCHANGED <<wanted, report>>
    ELSE /\ job' = NotNow
         /\ wanted' = "none"
         /\ report' = [ok |-> TRUE, verb |-> j.verb, said |-> Said(j), misled |-> j.misled]

Fail ==
    /\ job' = NotNow
    /\ report' = [NoReport EXCEPT !.verb = job.verb]
    /\ UNCHANGED wanted

Current == Head(job.todo)
Done == [job EXCEPT !.todo = Tail(@)]

(* The broker answers.  A drain asks again, and waits when there is nothing *)
(* (its context never ends).                                                *)
Answered ==
    /\ job.active /\ Accepts(Current)
    /\ Current.do = "drain" => Current.part \in has /\ held[Current.part] > 0
    /\ Effect(Current)
    /\ CASE Current.do = "find" ->
                GoOn([Done EXCEPT !.count = held[Current.part], !.filter = settings.filter])
         [] Current.do = "see" ->
                GoOn([Done EXCEPT !.count = IF Current.part \in has THEN held[Current.part] ELSE @])
         [] Current.do = "check" ->
                GoOn(IF Current.part \in has THEN Done ELSE [Done EXCEPT !.todo = <<Add(Current.part)>> \o @])
         [] Current.do = "clear" -> GoOn([Done EXCEPT !.removed = @ + held[Current.part]])
         [] Current.do = "drain" -> GoOn([job EXCEPT !.removed = @ + held[Current.part]])
         [] OTHER -> GoOn(Done)
    /\ UNCHANGED <<managed, runs, others, failures>>

(* The request is refused, or fails and so does the command - unless the    *)
(* code reads nothing into it, or takes it for the end of the messages.     *)
AfterFailure == IF Current.lax \/ Current.do = "drain" THEN GoOn(Done) ELSE Fail

Refused ==
    /\ job.active
    /\ \/ ~Accepts(Current) /\ ~(Current.trusts /\ Current.do = "find")
       \/ Current.do = "drain" /\ Current.part \notin has
    /\ AfterFailure
    /\ UNCHANGED <<managed, object, runs, others, failures>>

(* The broker says "no" - there is no such thing, or another reason - and   *)
(* the code reads a "yes": a queue without a filter, a topic deleted.       *)
Misled ==
    /\ job.active /\ Current.trusts
    /\ \/ ~Accepts(Current) /\ Current.do = "find" /\ UNCHANGED failures
       \/ Accepts(Current) /\ failures < MaxFaults /\ failures' = failures + 1
    /\ GoOn([Done EXCEPT !.filter = 0, !.misled = TRUE])
    /\ UNCHANGED <<managed, object, runs, others>>

Fails ==
    /\ job.active /\ failures < MaxFaults
    /\ AfterFailure
    /\ failures' = failures + 1
    /\ UNCHANGED <<managed, object, runs, others>>

(* The request takes effect and its answer is lost: the HTTP client gives   *)
(* up after 10 s, the connection breaks.                                    *)
AnswerLost ==
    /\ job.active /\ failures < MaxFaults
    /\ Accepts(Current)
    /\ Current.do = "drain" => Current.part \in has
    /\ Effect(Current)
    /\ AfterFailure
    /\ failures' = failures + 1
    /\ UNCHANGED <<managed, runs, others>>

----------------------------------------------------------------------------
(* Other clients of the same objects.                                       *)

ByOthers ==
    /\ others < MaxOthers
    /\ others' = others + 1
    /\ job' = IF job.active THEN [job EXCEPT !.touched = TRUE] ELSE job
    /\ UNCHANGED <<managed, wanted, report, runs, failures>>

OtherSends(p) ==
    /\ ByOthers
    /\ p \in has \cap Storing /\ held[p] < MaxHeld
    /\ held' = [held EXCEPT ![p] = @ + 1]
    /\ UNCHANGED <<has, settings>>

OtherAdds(p) ==
    /\ ByOthers
    /\ p \notin has /\ NeedsOf(p) \subseteq has
    /\ has' = has \cup {p}
    /\ UNCHANGED <<held, settings>>

OtherRemoves(p) ==
    /\ ByOthers
    /\ p \in has
    /\ has' = Without(With(p)) /\ held' = Held(Without(With(p)))
    /\ UNCHANGED settings

OtherSetsFilter ==
    /\ ByOthers
    /\ managed = "artemis" /\ "queue" \in has
    /\ settings' = [settings EXCEPT !.filter = 3]
    /\ UNCHANGED <<has, held>>

Step == Answered \/ Refused \/ Misled

Next ==
    \/ \E v \in Verbs : Command(v)
    \/ Repeat \/ GiveUp
    \/ Answered \/ Refused \/ Misled \/ Fails \/ AnswerLost
    \/ \E p \in Parts[managed] : OtherSends(p) \/ OtherAdds(p) \/ OtherRemoves(p)
    \/ OtherSetsFilter

(* The brokers whose HTTP clients give up after 10 s.  The requests to the  *)
(* others run under context.Background() and a client without a timeout of  *)
(* its own, and may wait for ever.                                          *)
Timed == {"rabbitmq", "artemis", "pulsar"}
TimedStep == managed \in Timed /\ Step

(* A request of these ends, and the user of the liveness property does      *)
(* repeat.                                                                  *)
Spec == Init /\ [][Next]_vars /\ WF_vars(TimedStep) /\ WF_vars(Repeat)

----------------------------------------------------------------------------
(* Properties.                                                              *)

(* What a command is about, and what it is to achieve.                      *)
QueueParts == CASE managed = "gcp" -> {"topic", "sub"}
                [] managed = "artemis" -> {"queue", "address"}
                [] OTHER -> {"queue"}

About(v) ==
    CASE v \in {"create_queue", "delete_queue"} -> QueueParts
      [] v \in {"create_topic", "delete_topic"} -> {"topic"}
      [] v \in {"create_address", "delete_address"} -> {"address"}
      [] v \in {"bind", "unbind"} -> IF managed = "artemis" THEN QueueParts ELSE {"binding"}
      [] v = "delete_group" -> {"group"}
      [] OTHER -> {}

Emptied(v) ==
    CASE v = "purge" /\ managed = "gcp" -> {"sub"}
      [] v = "purge" /\ managed # "gcp" -> {"queue"}
      [] v = "purge_subscription" -> {"sub"}
      [] OTHER -> {}

SetBy(v) ==
    CASE v = "update_topic" -> {"partitions", "config"}
      [] v = "update_filter" -> {"filter"}
      [] v = "update_limit" -> {"limit"}
      [] v = "enable" -> {"dispatch"}
      [] OTHER -> {}

Creates(v) == v \in {"create_queue", "create_topic", "create_address", "bind"}

IsAchieved(v) ==
    /\ IF Creates(v) THEN About(v) \subseteq has ELSE About(v) \cap has = {}
    /\ \A p \in Emptied(v) : held[p] = 0
    /\ \A key \in SetBy(v) : settings[key] = 2

(* Nothing else: parts stay or go with what they need, messages stay as     *)
(* long as their part does, settings stay.                                  *)
NothingElse(v, before) ==
    /\ \A p \in Parts[managed] \ About(v) :
           p \in has <=> (p \in before[1] /\ (Creates(v) \/ NeedsOf(p) \cap About(v) = {}))
    /\ \A p \in has \ Emptied(v) : held[p] = before[2][p]
    /\ \A key \in DOMAIN settings \ SetBy(v) : settings[key] = before[3][key]

Removed(v, before) == \E p \in Emptied(v) : before[2][p] > 0

(* Where the code is known to do something else, see the README: Redis      *)
(* purges by deleting and creates a topic by trimming it, SQS looks a queue *)
(* up by creating it, an error ends Azure's drain like an empty queue.      *)
KnownDeviations ==
    {<<"redis", "purge">>, <<"redis", "create_topic">>, <<"awssqs", "purge">>,
     <<"awssqs", "stats">>, <<"azuresb", "purge">>, <<"azuresb", "purge_subscription">>}

(* A management command that reports success has done what it says and      *)
(* nothing else to the object, unless another client used it at the same    *)
(* time or the broker's "no" was taken for a "yes" (Misled); what a purge   *)
(* says it removed was there (cmd/manage.go, broker/*/manage.go).           *)
DoesWhatItSays ==
    [][(/\ job.active /\ report'.ok /\ ~job.touched /\ ~report'.misled
        /\ <<managed, job.verb>> \notin KnownDeviations)
        => \A v \in {job.verb}, before \in {job.before} :
               /\ IsAchieved(v)'
               /\ NothingElse(v, before)'
               /\ report'.said > 0 => Removed(v, before)]_vars

(* "Preserve the current filter explicitly when the caller does not set     *)
(* one" (artemis/manage.go:280): an update-queue without a filter that      *)
(* reports success has left the filter as it found it.                      *)
KeepsFilter ==
    [][job.active /\ report'.ok /\ ~job.touched /\ job.verb = "update_limit"
        => \A before \in {job.before} : settings'.filter = before[3].filter]_vars

(* A retry cannot complete Pub/Sub's delete-queue once the subscription is  *)
(* gone, nor Kafka's update-topic once the partitions are added.            *)
NotRepeatable == {<<"gcp", "delete_queue">>, <<"kafka", "update_topic">>}

(* What the command needs is gone.                                          *)
Pointless(v) ==
    \/ v \in {"purge", "purge_subscription"} /\ Emptied(v) \cap has = {}
    \/ SetBy(v) # {} /\ has \cap {"queue", "topic"} = {}
    \/ v = "delete_queue" /\ managed = "artemis" /\ "queue" \notin has
    \/ v = "bind" /\ managed = "rabbitmq" /\ ~(NeedsOf("binding") \subseteq has)

(* A command that failed half-way can be repeated: whoever does so comes to *)
(* the point where it has succeeded, has achieved what it was for, or has   *)
(* become pointless - unless a request waits for ever, which none of a      *)
(* timed broker does.                                                       *)
HangsForEver == managed \notin Timed /\ <>[](job.active)

RepeatingAchieves ==
    \/ HangsForEver
    \/ []<>(\/ wanted = "none"
            \/ <<managed, wanted>> \in NotRepeatable
            \/ IsAchieved(wanted)
            \/ Pointless(wanted))
=============================================================================
