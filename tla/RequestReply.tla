---------------------------- MODULE RequestReply ----------------------------
(***************************************************************************)
(* Request/reply over queues: requesters that run `request` (through the   *)
(* reconnect wrapper: a call may be sent again), responders that run       *)
(* `reply`, and the three ways a broker gets a reply back to its request:  *)
(*   none      backends.defaultRequest: whatever comes on the shared reply *)
(*             queue, checked against the correlation id                   *)
(*   selector  broker/artemis, broker/ibmmq: the broker filters by it      *)
(*   private   broker/nats: a reply stream per request                     *)
(* Every time a request is sent it gets a correlation id of its own (the   *)
(* caller named none), here the number of the attempt.                     *)
(***************************************************************************)
EXTENDS Naturals, FiniteSets

CONSTANTS
    Requesters,
    Responders,
    Mute,         \* responders that do not echo the correlation id
    Modes,        \* the matchings to consider
    Drops,        \* whether connections may be lost
    MaxAttempts   \* bound: requests sent in one behaviour

ASSUME RequestReplyAssumption ==
    /\ Mute \subseteq Responders
    /\ Modes \subseteq {"none", "selector", "private"}
    /\ Drops \in BOOLEAN
    /\ MaxAttempts \in Nat

Attempts == 1..MaxAttempts
None == 0
Shared == 0  \* the reply queue all requests share

VARIABLES
    mode,       \* how the broker in use matches replies
    sent,       \* number of attempts so far
    attempt,    \* the attempt each requester waits for, or None
    owner,      \* history: who made each attempt
    abandoned,  \* history: attempts whose requester stopped waiting
    requests,   \* attempts in the request queue
    streams,    \* private reply streams that exist
    replies,    \* replies in the reply queues
    pc,         \* where each responder is
    serving,    \* the attempt it serves
    got,        \* history: replies returned to a caller
    mismatched  \* history: replies consumed and refused (ErrReplyMismatch)

vars == <<mode, sent, attempt, owner, abandoned, requests, streams, replies,
          pc, serving, got, mismatched>>

requester == <<sent, attempt, owner, abandoned, got, mismatched>>
responder == <<pc, serving>>

Reply == [answers : Attempts, corr : Attempts \cup {None}, queue : Attempts \cup {Shared}]
Receipt == [by : Requesters, attempt : Attempts, answers : Attempts, corr : Attempts \cup {None}]

Init ==
    /\ mode \in Modes
    /\ sent = 0
    /\ attempt = [r \in Requesters |-> None]
    /\ owner = [a \in Attempts |-> {}]
    /\ abandoned = {}
    /\ requests = {}
    /\ streams = {}
    /\ replies = {}
    /\ pc = [p \in Responders |-> "idle"]
    /\ serving = [p \in Responders |-> None]
    /\ got = {}
    /\ mismatched = {}

----------------------------------------------------------------------------
(* Sending a request.  The correlation id is made inside Request, on its    *)
(* own copy of the options, so a retry does not keep it.  NATS creates the  *)
(* reply stream first.                                                      *)

(* Mutant: retries that nothing bounds. *)
NewAttemptUnbounded(r) ==
    /\ sent' = sent + 1
    /\ owner' = [owner EXCEPT ![sent + 1] = {r}]

NewAttempt(r) ==
    /\ sent < MaxAttempts
    /\ sent' = sent + 1
    /\ owner' = [owner EXCEPT ![sent + 1] = {r}]

ReplyQueueOf(a) == IF mode = "private" THEN a ELSE Shared

(* Mutant: the stream is left to the responder to create. *)
OpenLate(a, existing) ==
    existing \cup (IF mode = "private" /\ a \notin {attempt'[r] : r \in Requesters}
                   THEN {a} ELSE {})

Open(a, existing) == existing \cup (IF mode = "private" THEN {a} ELSE {})

(* dropReplyQueue, deferred by the call for attempt a: the stream goes.  On *)
(* a lost connection it cannot, and its errors are ignored.                 *)
AfterDrop(a, existing) ==
    {existing \ {a}} \cup (IF Drops THEN {existing} ELSE {})

(* A stream takes the replies in it along. *)
StreamsAre(kept, left) ==
    /\ streams' = kept
    /\ replies' = {m \in left : m.queue = Shared \/ m.queue \in kept}

Request(r) ==
    /\ attempt[r] = None
    /\ NewAttempt(r)
    /\ attempt' = [attempt EXCEPT ![r] = sent']
    /\ requests' = requests \cup {sent'}
    /\ streams' = Open(sent', streams)
    /\ UNCHANGED <<mode, abandoned, replies, responder, got, mismatched>>

(* RequestSendError: the request may be in the queue all the same.          *)
RequestFails(r) ==
    /\ attempt[r] = None
    /\ NewAttempt(r)
    /\ abandoned' = abandoned \cup {sent'}
    /\ requests' \in {requests, requests \cup {sent'}}
    /\ streams' \in AfterDrop(sent', Open(sent', streams))
    /\ UNCHANGED <<mode, attempt, replies, responder, got, mismatched>>

(* The connection is lost while waiting: retryOp repeats the whole request  *)
(* on a new adapter.                                                        *)
Resend(r) ==
    /\ Drops
    /\ attempt[r] # None
    /\ NewAttempt(r)
    /\ attempt' = [attempt EXCEPT ![r] = sent']
    /\ abandoned' = abandoned \cup {attempt[r]}
    /\ requests' = requests \cup {sent'}
    /\ \E kept \in AfterDrop(attempt[r], streams) :
        StreamsAre(Open(sent', kept), replies)
    /\ UNCHANGED <<mode, responder, got, mismatched>>

----------------------------------------------------------------------------
(* Waiting for the reply. *)

(* Mutant: all that is on the reply queue, whatever the broker could match. *)
VisibleUnfiltered(r) == {m \in replies : m.queue = ReplyQueueOf(attempt[r])}

(* The replies the broker hands to r's receive. *)
Visible(r) ==
    {m \in replies :
        /\ m.queue = ReplyQueueOf(attempt[r])
        /\ mode = "selector" => m.corr = attempt[r]}

(* Mutant: the correlation id is not compared. *)
AcceptedAlways(r, m) == m.corr \in Attempts \cup {None}

(* "A reply that carries no correlation id at all is accepted." *)
Accepted(r, m) == m.corr \in {None, attempt[r]}

(* Mutant: the reply queue is purged whosever it is. *)
ReturnPurging(r, left) ==
    /\ attempt' = [attempt EXCEPT ![r] = None]
    /\ streams' = streams \ {attempt[r]}
    /\ replies' = {m \in left : m.queue # ReplyQueueOf(attempt[r])}

(* The call returns: a private queue is dropped with what is left in it.    *)
Return(r, left) ==
    /\ attempt' = [attempt EXCEPT ![r] = None]
    /\ \E kept \in AfterDrop(attempt[r], streams) : StreamsAre(kept, left)

ReceiptOf(r, m) ==
    [by |-> r, attempt |-> attempt[r], answers |-> m.answers, corr |-> m.corr]

GetReply(r) ==
    /\ attempt[r] # None
    /\ \E m \in Visible(r) :
        /\ Accepted(r, m)
        /\ got' = got \cup {ReceiptOf(r, m)}
        /\ Return(r, replies \ {m})
    /\ UNCHANGED <<mode, sent, owner, abandoned, requests, responder, mismatched>>

(* The receive was destructive: the refused reply is gone for its owner.    *)
Mismatch(r) ==
    /\ attempt[r] # None
    /\ \E m \in Visible(r) :
        /\ ~Accepted(r, m)
        /\ mismatched' = mismatched \cup {ReceiptOf(r, m)}
        /\ Return(r, replies \ {m})
    /\ abandoned' = abandoned \cup {attempt[r]}
    /\ UNCHANGED <<mode, sent, owner, requests, responder, got>>

(* Timeout, an interrupt, or an error of the receive, which may come after  *)
(* the broker has given the reply up (SettleLost of Relay).                 *)
GiveUp(r) ==
    /\ attempt[r] # None
    /\ abandoned' = abandoned \cup {attempt[r]}
    /\ \/ Return(r, replies)
       \/ \E m \in Visible(r) : Return(r, replies \ {m})
    /\ UNCHANGED <<mode, sent, owner, requests, responder, got, mismatched>>

----------------------------------------------------------------------------
(* The responder: doReply and respondToRequest. *)

Move(p, l) == pc' = [pc EXCEPT ![p] = l]

Rest(p) ==
    /\ Move(p, "idle")
    /\ serving' = [serving EXCEPT ![p] = None]

Die(p) ==
    /\ Move(p, "over")
    /\ serving' = [serving EXCEPT ![p] = None]

Pick(p) ==
    /\ pc[p] = "idle"
    /\ \E a \in requests :
        /\ requests' = requests \ {a}
        /\ serving' = [serving EXCEPT ![p] = a]
    /\ Move(p, "serving")
    /\ UNCHANGED <<mode, requester, streams, replies>>

(* No reply-to, or a --command that fails: the request is gone unanswered.  *)
Skip(p) ==
    /\ pc[p] = "serving"
    /\ Rest(p)
    /\ UNCHANGED <<mode, requester, requests, streams, replies>>

(* Send to the reply queue.  On NATS it first makes sure that the queue's   *)
(* stream exists ...                                                        *)
Ensure(p) ==
    /\ pc[p] = "serving"
    /\ streams' = Open(serving[p], streams)
    /\ Move(p, "publish")
    /\ UNCHANGED <<mode, requester, requests, replies, serving>>

(* Mutant: the reply carries the id of some other message. *)
ReplyFromWrongId(p, a) ==
    [answers |-> a, corr |-> 1 + (a % MaxAttempts), queue |-> ReplyQueueOf(a)]

(* ... and then publishes, which fails if it was dropped in between; the    *)
(* responder returns the error of a send.                                   *)
ReplyFrom(p, a) ==
    [answers |-> a, corr |-> IF p \in Mute THEN None ELSE a, queue |-> ReplyQueueOf(a)]

Answer(p) ==
    /\ pc[p] = "publish"
    /\ mode = "private" => serving[p] \in streams
    /\ replies' = replies \cup {ReplyFrom(p, serving[p])}
    /\ Rest(p) \/ Die(p)
    /\ UNCHANGED <<mode, requester, requests, streams>>

AnswerFails(p) ==
    /\ pc[p] = "publish"
    /\ Die(p)
    /\ UNCHANGED <<mode, requester, requests, streams, replies>>

(* --count, --for, an interrupt, or an error of the receive. *)
StopServing(p) ==
    /\ pc[p] = "idle"
    /\ Die(p)
    /\ UNCHANGED <<mode, requester, requests, streams, replies>>

Idle ==
    /\ \A r \in Requesters : attempt[r] = None
    /\ \A p \in Responders : pc[p] # "serving" /\ pc[p] # "publish"

Quiet == Idle /\ UNCHANGED vars

Next ==
    \/ \E r \in Requesters :
        \/ Request(r) \/ RequestFails(r) \/ Resend(r)
        \/ GetReply(r) \/ Mismatch(r) \/ GiveUp(r)
    \/ \E p \in Responders :
        \/ Pick(p) \/ Skip(p) \/ Ensure(p) \/ Answer(p) \/ AnswerFails(p)
        \/ StopServing(p)
    \/ Quiet

Spec == Init /\ [][Next]_vars

----------------------------------------------------------------------------
(* The type of every variable. *)
TypeOK ==
    /\ mode \in Modes
    /\ sent \in 0..MaxAttempts
    /\ attempt \in [Requesters -> Attempts \cup {None}]
    /\ owner \in [Attempts -> SUBSET Requesters]
    /\ abandoned \subseteq Attempts
    /\ requests \subseteq Attempts
    /\ streams \subseteq Attempts
    /\ replies \subseteq Reply
    /\ pc \in [Responders -> {"idle", "serving", "publish", "over"}]
    /\ serving \in [Responders -> Attempts \cup {None}]
    /\ got \subseteq Receipt
    /\ mismatched \subseteq Receipt

(* "simultaneous requests never read each other's replies"                  *)
(* (broker/artemis/request.go): no call returns the reply to another        *)
(* request, not even one to an earlier attempt of its own, but for a reply  *)
(* without a correlation id on a queue that is shared and unfiltered.       *)
OwnAnswer ==
    \A g \in got :
        g.answers = g.attempt \/ (mode = "none" /\ g.corr = None)

(* "On a private reply queue a mismatch cannot happen" (broker/nats), and   *)
(* neither can it where the broker filters: no reply is lost to its owner   *)
(* by somebody else's receive.                                              *)
NoMismatch == mode # "none" => mismatched = {}

(* The default's mismatch blames the right one: the reply it consumed was   *)
(* to an attempt of another requester, or to one this requester gave up, or *)
(* to one for which it had accepted another reply, without an id.           *)
MismatchHasCause ==
    \A g \in mismatched :
        g.by \in owner[g.answers] =>
            /\ g.answers < g.attempt
            /\ \/ g.answers \in abandoned
               \/ \E h \in got : h.attempt = g.answers /\ h.corr = None

(* While a requester waits, its private reply stream is there, whatever     *)
(* other calls drop and whatever late responders do to theirs.              *)
StreamWhileWaiting ==
    mode = "private" => \A r \in Requesters : attempt[r] # None => attempt[r] \in streams

(* Where the broker does the matching, the reply a requester can read stays *)
(* until that requester takes it: no return, drop or retry of another call  *)
(* takes it away (Artemis keeps one reply queue for all).                   *)
ReplyKeptForOwner ==
    [][\A r \in Requesters :
         mode # "none" /\ attempt[r] # None /\ attempt'[r] = attempt[r]
           => Visible(r) \subseteq replies']_vars

(* Together: a requester gets the answer to its own request, or none        *)
(* (defaultRequest, the adapters' Request).                                 *)
OwnReplies == TypeOK /\ OwnAnswer /\ NoMismatch /\ StreamWhileWaiting

=============================================================================
