------------------------------- MODULE Relay -------------------------------
(***************************************************************************)
(* The same-broker relays of cmd/move.go and cmd/forward.go: several xmc   *)
(* processes or pipeline stages that drain one source onto one             *)
(* destination.  Each is a loop: poll the source destructively, transform  *)
(* (forward -x), send; what was taken and cannot be sent goes to stdout.   *)
(*                                                                         *)
(* The broker is external and is modelled by what its adapter returns.     *)
(* Its acknowledge and send are remote calls, so each may take effect and  *)
(* still be reported as failed (the answer is lost).                       *)
(***************************************************************************)
EXTENDS Naturals, FiniteSets

CONSTANTS
    Messages,      \* messages that may arrive at the source
    Movers,        \* relays that run `move`
    Forwarders,    \* relays that run `forward`
    Transforming,  \* forwarders with a --command
    Deaf,          \* relays whose broker's client calls do not heed a context
    Limit,         \* --count of each relay, 0 for none
    NoMessage      \* the hand of a relay that holds nothing

Workers == Movers \cup Forwarders

ASSUME RelayAssumption ==
    /\ Movers \cap Forwarders = {}
    /\ Transforming \subseteq Forwarders
    /\ Deaf \subseteq Workers
    /\ Limit \in [Workers -> Nat]
    /\ NoMessage \notin Messages
    /\ IsFiniteSet(Messages)

VARIABLES
    arrived,    \* messages that have come to the source
    queued,     \* those still there
    delivered,  \* copies of each message at the destination
    recovered,  \* messages written to stdout
    unsettled,  \* taken by the broker's reckoning, but the answer was an error
    pc,         \* where each relay is
    hand,       \* the message a relay holds
    relayed,    \* its `moved` / `forwarded` counter
    ctx,        \* its context: live, cancelled (interrupt) or expired (--for)
    outcome,    \* how it ended
    taken       \* history: the messages the source gave up to a relay

vars == <<arrived, queued, delivered, recovered, unsettled,
          pc, hand, relayed, ctx, outcome, taken>>

place == <<queued, delivered, recovered, unsettled>>

Pcs == {"loop", "poll", "got", "ready", "done"}

Init ==
    /\ arrived = {}
    /\ queued = {}
    /\ delivered = [m \in Messages |-> 0]
    /\ recovered = {}
    /\ unsettled = {}
    /\ pc = [w \in Workers |-> "loop"]
    /\ hand = [w \in Workers |-> NoMessage]
    /\ relayed = [w \in Workers |-> 0]
    /\ ctx = [w \in Workers |-> "live"]
    /\ outcome = [w \in Workers |-> "none"]
    /\ taken = [w \in Workers |-> {}]

Goto(w, l) == pc' = [pc EXCEPT ![w] = l] /\ UNCHANGED outcome

Stop(w, how) ==
    /\ pc' = [pc EXCEPT ![w] = "done"]
    /\ outcome' = [outcome EXCEPT ![w] = how]

LetGo(w) == hand' = [hand EXCEPT ![w] = NoMessage]

----------------------------------------------------------------------------
(* The head of the loop.  move looks at its count only, forward at its      *)
(* context as well; the context may still end before the poll.              *)

(* Mutant: forward without its context check. *)
ContinuesRegardless(w) == Limit[w] = 0 \/ relayed[w] < Limit[w]

Continues(w) ==
    /\ Limit[w] = 0 \/ relayed[w] < Limit[w]
    /\ w \in Forwarders => ctx[w] = "live"

Enter(w) ==
    /\ pc[w] = "loop"
    /\ Continues(w)
    /\ Goto(w, "poll")
    /\ UNCHANGED <<arrived, place, hand, relayed, ctx, taken>>

Complete(w) ==
    /\ pc[w] = "loop"
    /\ ~Continues(w)
    /\ Stop(w, "summary")
    /\ UNCHANGED <<arrived, place, hand, relayed, ctx, taken>>

(* The adapter gives a message up: acknowledged, and gone from the source.  *)
FromSource(w, m) ==
    /\ m \in queued
    /\ queued' = queued \ {m}
    /\ taken' = [taken EXCEPT ![w] = @ \cup {m}]

Take(w) ==
    /\ pc[w] = "poll"
    /\ \E m \in Messages :
        /\ FromSource(w, m)
        /\ hand' = [hand EXCEPT ![w] = m]
    /\ Goto(w, "got")
    /\ UNCHANGED <<arrived, delivered, recovered, unsettled, relayed, ctx>>

(* The switch on what the adapter returned instead of a message.  A timeout *)
(* (of the poll, or of the --for deadline it inherits) and an empty source  *)
(* end a move and make a forward poll again.                                *)
(* Mutant: move polls again too.                                            *)
AfterErrorPollsAgain(w) ==
    \/ Goto(w, "loop")
    \/ ctx[w] = "cancelled" /\ Stop(w, "summary")
    \/ Stop(w, "error")

AfterError(w) ==
    \/ w \in Movers /\ Stop(w, "summary")
    \/ w \in Forwarders /\ Goto(w, "loop")
    \/ ctx[w] = "cancelled" /\ Stop(w, "summary")
    \/ Stop(w, "error")

NoTake(w) ==
    /\ pc[w] = "poll"
    /\ AfterError(w)
    /\ UNCHANGED <<arrived, place, hand, relayed, ctx, taken>>

(* The acknowledge reached the broker, its answer did not reach the relay:  *)
(* the adapter drops the message and returns the error.                     *)
SettleLost(w) ==
    /\ pc[w] = "poll"
    /\ \E m \in Messages :
        /\ FromSource(w, m)
        /\ unsettled' = unsettled \cup {m}
    /\ AfterError(w)
    /\ UNCHANGED <<arrived, delivered, recovered, hand, relayed, ctx>>

----------------------------------------------------------------------------
(* runCommandOrRecover: without a command the payload passes as it is.      *)

Transform(w) ==
    /\ pc[w] = "got"
    /\ Goto(w, "ready")
    /\ UNCHANGED <<arrived, place, hand, relayed, ctx, taken>>

(* Mutant: the message is let go before it is written.                      *)
RecoverTooLate(w) ==
    /\ LetGo(w)
    /\ recovered' = recovered \cup {hand'[w]}

(* emitUndelivered *)
Recover(w) ==
    /\ recovered' = recovered \cup {hand[w]}
    /\ LetGo(w)

(* Mutant: the skipped message is counted.                                  *)
TransformFailsCounted(w) ==
    /\ pc[w] = "got"
    /\ w \in Transforming
    /\ Recover(w)
    /\ relayed' = [relayed EXCEPT ![w] = @ + 1]
    /\ Goto(w, "loop")
    /\ UNCHANGED <<arrived, queued, delivered, unsettled, ctx, taken>>

TransformFails(w) ==
    /\ pc[w] = "got"
    /\ w \in Transforming
    /\ Recover(w)
    /\ Goto(w, "loop")
    /\ UNCHANGED <<arrived, queued, delivered, unsettled, relayed, ctx, taken>>

Deliver(w) == delivered' = [delivered EXCEPT ![hand[w]] = @ + 1]

Send(w) ==
    /\ pc[w] = "ready"
    /\ Deliver(w)
    /\ LetGo(w)
    /\ relayed' = [relayed EXCEPT ![w] = @ + 1]
    /\ Goto(w, "loop")
    /\ UNCHANGED <<arrived, queued, recovered, unsettled, ctx, taken>>

(* Mutants: nothing is written to stdout; the send is simply repeated; the  *)
(* message goes back to the source.                                         *)
SendFailsSilently(w) ==
    /\ pc[w] = "ready"
    /\ Deliver(w) \/ UNCHANGED delivered
    /\ LetGo(w)
    /\ Stop(w, "error")
    /\ UNCHANGED <<arrived, queued, recovered, unsettled, relayed, ctx, taken>>

SendRepeated(w) ==
    /\ pc[w] = "ready"
    /\ delivered[hand[w]] < 2
    /\ Deliver(w)
    /\ UNCHANGED <<arrived, queued, recovered, unsettled, pc, hand, relayed, ctx, outcome, taken>>

SendFailsRequeue(w) ==
    /\ pc[w] = "ready"
    /\ queued' = queued \cup {hand[w]}
    /\ LetGo(w)
    /\ Stop(w, "error")
    /\ UNCHANGED <<arrived, delivered, recovered, unsettled, relayed, ctx, taken>>

(* The send returns an error, though the broker may have the message.       *)
SendFails(w) ==
    /\ pc[w] = "ready"
    /\ Deliver(w) \/ UNCHANGED delivered
    /\ Recover(w)
    /\ Stop(w, "error")
    /\ UNCHANGED <<arrived, queued, unsettled, relayed, ctx, taken>>

----------------------------------------------------------------------------
(* The world: producers, Ctrl-C and the --for deadline.                     *)

Arrive(m) ==
    /\ m \notin arrived
    /\ arrived' = arrived \cup {m}
    /\ queued' = queued \cup {m}
    /\ UNCHANGED <<delivered, recovered, unsettled, pc, hand, relayed, ctx, outcome, taken>>

EndContext(w) ==
    /\ ctx[w] = "live"
    /\ \/ ctx' = [ctx EXCEPT ![w] = "cancelled"]
       \/ w \in Forwarders /\ ctx' = [ctx EXCEPT ![w] = "expired"]
    /\ UNCHANGED <<arrived, place, pc, hand, relayed, outcome, taken>>

Step(w) ==
    \/ Enter(w) \/ Complete(w) \/ Take(w) \/ NoTake(w) \/ SettleLost(w)
    \/ Transform(w) \/ TransformFails(w) \/ Send(w) \/ SendFails(w)

Finished ==
    /\ \A w \in Workers : pc[w] = "done"
    /\ UNCHANGED vars

Next ==
    \/ \E w \in Workers : Step(w) \/ EndContext(w)
    \/ \E m \in Messages : Arrive(m)
    \/ Finished

Spec == Init /\ [][Next]_vars

(* Where nothing in the code bounds the wait: the --command is started      *)
(* without a context (runShellCommand), and a poll or a send has only the   *)
(* relay's, which bounds nothing while it is live.                          *)
MayHang(w) ==
    \/ pc[w] = "got" /\ w \in Transforming
    \/ pc[w] \in {"poll", "ready"} /\ (ctx[w] = "live" \/ w \in Deaf)

(* Elsewhere a relay keeps running.                                         *)
BoundedStep(w) == ~MayHang(w) /\ Step(w)
FairSpec == Spec /\ \A w \in Workers : WF_vars(BoundedStep(w))

----------------------------------------------------------------------------
InHand == {m \in Messages : \E w \in Workers : hand[w] = m}
Delivered == {m \in Messages : delivered[m] > 0}

(* The type of every variable. *)
TypeOK ==
    /\ arrived \subseteq Messages
    /\ queued \subseteq Messages
    /\ delivered \in [Messages -> Nat]
    /\ recovered \subseteq Messages
    /\ unsettled \subseteq Messages
    /\ pc \in [Workers -> Pcs]
    /\ hand \in [Workers -> Messages \cup {NoMessage}]
    /\ relayed \in [Workers -> Nat]
    /\ ctx \in [Workers -> {"live", "cancelled", "expired"}]
    /\ outcome \in [Workers -> {"none", "summary", "error"}]
    /\ taken \in [Workers -> SUBSET Messages]

(* "the in-flight message is written to stdout so it is not lost"           *)
(* (NewMoveCommand): a message that has left the source is held by one      *)
(* relay, at the destination or on stdout; only an acknowledge whose answer *)
(* was lost makes it disappear.  No two relays hold the same message, and   *)
(* one that has returned holds none.                                        *)
Accounted ==
    /\ arrived = queued \cup InHand \cup Delivered \cup recovered \cup unsettled
    /\ \A v, w \in Workers : hand[v] = hand[w] /\ hand[v] # NoMessage => v = w
    /\ queued \cap InHand = {}
    /\ \A w \in Workers : pc[w] = "done" => hand[w] = NoMessage

(* Relays draining one source never deliver a message twice, and one that   *)
(* is both delivered and on stdout belongs to a relay that ended in error.  *)
NoDuplicate ==
    \A m \in Messages :
        /\ delivered[m] <= 1
        /\ delivered[m] = 1 => m \notin queued \cup InHand \cup unsettled
        /\ delivered[m] = 1 /\ m \in recovered =>
            \E w \in Workers : m \in taken[w] /\ outcome[w] = "error"

(* "Moved %d message(s)": a relay that ends with a summary has counted      *)
(* exactly the messages it put on the destination; and move -n N removes at *)
(* most N messages from its source, in whatever way the calls fail.         *)
CountsExact ==
    /\ \A w \in Workers : outcome[w] = "summary" =>
        relayed[w] = Cardinality(taken[w] \cap Delivered)
    /\ \A w \in Movers : Limit[w] > 0 => Cardinality(taken[w]) <= Limit[w]

(* The contract of Custody: what a relay holds is in transit, a message     *)
(* dropped by a lost acknowledge is lost.                                   *)
CustodyOf(m) ==
    IF m \in queued THEN "source"
    ELSE IF m \in InHand THEN "transit"
    ELSE IF m \in Delivered \cup recovered THEN "kept"
    ELSE IF m \in unsettled THEN "lost" ELSE "none"

Contract == INSTANCE Custody
            WITH custody <- [m \in Messages |-> CustodyOf(m)], Lossy <- TRUE

KeepsCustody == Contract!Spec

HangsForEver(w) == <>[]MayHang(w)

(* An interrupt, and for forward the --for deadline, ends the relay: the    *)
(* poll that reports a deadline as "no message" does not loop for ever.     *)
(* Only a command, or a client that does not heed the context, can hold it. *)
EndsWithContext ==
    \A w \in Workers : HangsForEver(w) \/ (ctx[w] # "live" ~> pc[w] = "done")

(* A move whose calls come back ends by itself once its source is drained.  *)
MoveEnds == \A w \in Movers : HangsForEver(w) \/ <>(pc[w] = "done")

(* Together: every message has one owner, none is delivered twice, and the  *)
(* summary says what happened (doMove, doForward).                          *)
Accounts == TypeOK /\ Accounted /\ NoDuplicate /\ CountsExact

=============================================================================
