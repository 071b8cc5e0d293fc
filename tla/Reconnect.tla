----------------------------- MODULE Reconnect -----------------------------
(***************************************************************************)
(* The auto-reconnect wrapper of cmd/reconnect.go: one reconnectingAdapter *)
(* shared by several goroutines (the stages of a pipeline, a command that  *)
(* still runs while its session is closed).                                *)
(*                                                                         *)
(* A caller takes the wrapper's mutex to fetch the current broker adapter, *)
(* runs its operation on it WITHOUT the mutex, and, when that fails with a *)
(* connection error, takes the mutex again and holds it while it waits,    *)
(* closes the adapter, builds a new one and repeats the operation.         *)
(*                                                                         *)
(* Adapters are numbered in the order the factory makes them; 0 is nil.    *)
(* `live` are the adapters nobody has closed, `broken` those whose         *)
(* transport the network dropped.  `applied` counts the times the broker   *)
(* executed a caller's operation: the answer may be lost afterwards, which *)
(* is what makes a retry repeat it.                                        *)
(***************************************************************************)
EXTENDS Naturals, FiniteSets

CONSTANTS
    Callers,      \* goroutines that each run one operation on the wrapper
    Blocking,     \* those whose operation may wait for ever (Receive, Wait: true)
    NoCaller,     \* owner of a mutex that is free
    MaxAdapters,  \* bound: adapters the factory makes in one behaviour
    MaxTries      \* bound: NextBackOff answers before MaxElapsedTime is over

(* Assumed where a wrapper runs (MCRequestReply).                           *)
ReconnectAssumption ==
    /\ NoCaller \notin Callers
    /\ Blocking \subseteq Callers
    /\ MaxAdapters \in Nat
    /\ MaxTries \in Nat

VARIABLES
    mu,        \* owner of reconnectingAdapter.mu
    closed,    \* reconnectingAdapter.closed
    adapter,   \* reconnectingAdapter.adapter
    made,      \* number of adapters the factory has made
    live,      \* adapters made and not closed
    broken,    \* adapters whose connection has dropped
    pc,        \* where each caller is
    held,      \* the adapter a caller copied under the mutex
    tries,     \* NextBackOff calls of a caller's retryOp
    result,    \* what the caller's operation returned
    applied,   \* how often the broker executed the caller's operation
    cancelled, \* callers whose ctx is done
    drops      \* connections the network dropped, 0 or more

vars == <<mu, closed, adapter, made, live, broken, pc, held, tries, result,
          applied, cancelled, drops>>

(* The mutex and the fields it guards, and what belongs to a caller. *)
shared == <<closed, adapter, made, live>>
network == <<broken, drops>>

Nil == 0
Adapters == 1..MaxAdapters

(* idle: not called yet.  op: on the held adapter, without the mutex.       *)
(* answered: the broker executed it, the answer is on its way.  failed: it  *)
(* returned a connection error, waiting for the mutex.  The rest runs under *)
(* the mutex: loop, wait (the backoff timer), retry and retried (the        *)
(* operation on the fresh adapter); browse too, for as long as the driver   *)
(* takes to open its cursor.                                                *)
RetryPcs == {"loop", "wait", "retry", "retried"}
LockedPcs == RetryPcs \cup {"browse"}
Pcs == {"idle", "op", "answered", "failed", "done"} \cup LockedPcs

(* ok: nil.  app: an error isConnectionError rejects.  closed: "adapter     *)
(* closed".  exhausted: the backoff gave up.  dial: the factory failed.     *)
Results == {"none", "ok", "app", "cancelled", "closed", "exhausted", "dial"}

Init ==
    /\ mu = NoCaller
    /\ closed = FALSE
    /\ adapter = Nil
    /\ made = 0
    /\ live = {}
    /\ broken = {}
    /\ pc = [c \in Callers |-> "idle"]
    /\ held = [c \in Callers |-> Nil]
    /\ tries = [c \in Callers |-> 0]
    /\ result = [c \in Callers |-> "none"]
    /\ applied = [c \in Callers |-> 0]
    /\ cancelled = {}
    /\ drops = 0

Goto(c, l) == pc' = [pc EXCEPT ![c] = l]

Return(c, r) ==
    /\ Goto(c, "done")
    /\ result' = [result EXCEPT ![c] = r]

(* A usable connection: made, not closed by us, not dropped by the network. *)
Healthy(a) == a \in live \ broken

----------------------------------------------------------------------------
(* The factory: it dials the broker, which may fail.                        *)

FactoryOK ==
    /\ made < MaxAdapters
    /\ made' = made + 1

(* Mutant: ensureConnected without the test of r.closed.                    *)
EnsureConnectedUnchecked(c, next) ==
    \/ /\ adapter # Nil
       /\ held' = [held EXCEPT ![c] = adapter]
       /\ Goto(c, next)
       /\ UNCHANGED <<result, shared>>
    \/ /\ adapter = Nil
       /\ FactoryOK
       /\ adapter' = made'
       /\ live' = live \cup {made'}
       /\ held' = [held EXCEPT ![c] = made']
       /\ Goto(c, next)
       /\ UNCHANGED <<result, closed>>

(* ensureConnected and the copy of r.adapter; next follows when it succeeds. *)
EnsureConnected(c, next) ==
    \/ /\ closed
       /\ Return(c, "closed")
       /\ UNCHANGED <<held, shared>>
    \/ /\ ~closed
       /\ adapter # Nil
       /\ held' = [held EXCEPT ![c] = adapter]
       /\ Goto(c, next)
       /\ UNCHANGED <<result, shared>>
    \/ /\ ~closed
       /\ adapter = Nil
       /\ FactoryOK
       /\ adapter' = made'
       /\ live' = live \cup {made'}
       /\ held' = [held EXCEPT ![c] = made']
       /\ Goto(c, next)
       /\ UNCHANGED <<result, closed>>
    \/ /\ ~closed
       /\ adapter = Nil
       /\ Return(c, "dial")
       /\ UNCHANGED <<held, shared>>

Call(c) ==
    /\ pc[c] = "idle"
    /\ mu = NoCaller
    /\ EnsureConnected(c, "op")
    /\ UNCHANGED <<mu, network, tries, applied, cancelled>>

(* Browse opens its cursor without giving up the mutex, and never retries.  *)
Browse(c) ==
    /\ pc[c] = "idle"
    /\ mu = NoCaller
    /\ EnsureConnected(c, "browse")
    /\ mu' = IF pc'[c] = "browse" THEN c ELSE NoCaller
    /\ UNCHANGED <<network, tries, applied, cancelled>>

BrowseReturn(c) ==
    /\ pc[c] = "browse"
    /\ \/ Healthy(adapter) /\ applied' = [applied EXCEPT ![c] = 1] /\ Return(c, "ok")
       \/ UNCHANGED applied /\ Return(c, "app")
    /\ mu' = NoCaller
    /\ UNCHANGED <<shared, network, held, tries, cancelled>>

----------------------------------------------------------------------------
(* The operation itself.  a is the adapter it runs on, and the broker       *)
(* executes it only over a healthy connection; where it goes next depends   *)
(* on whether it is the first attempt or one made by retryOp.               *)

Execute(c, a, next) ==
    /\ Healthy(a)
    /\ applied' = [applied EXCEPT ![c] = @ + 1]
    /\ Goto(c, next)
    /\ UNCHANGED <<mu, shared, network, held, tries, result, cancelled>>

Apply(c) == pc[c] = "op" /\ Execute(c, held[c], "answered")

RetryApply(c) == pc[c] = "retry" /\ Execute(c, adapter, "retried")

(* Mutant: the retried operation's error is shadowed, nil is returned.      *)
SurfacesShadowed(c, a, executed) ==
    \/ Return(c, "ok")
    \/ c \in cancelled /\ Return(c, "cancelled")

(* What the operation returns at once: success once the broker executed it, *)
(* an application error (also what a driver may say of an adapter that was  *)
(* closed under the operation), or the error of a done ctx.                 *)
Surfaces(c, a, executed) ==
    \/ executed /\ Return(c, "ok")
    \/ ~executed /\ Return(c, "app")
    \/ executed /\ ~Healthy(a) /\ Return(c, "app")
    \/ c \in cancelled /\ Return(c, "cancelled")

(* err == nil || !isConnectionError(err): the first attempt is final.       *)
Finish(c) ==
    /\ pc[c] \in {"op", "answered"}
    /\ Surfaces(c, held[c], pc[c] = "answered")
    /\ UNCHANGED <<mu, shared, network, held, tries, applied, cancelled>>

(* Mutant: isConnectionError says yes to every error.                       *)
AnyErrorIsConnectionError(c) ==
    /\ pc[c] \in {"op", "answered"}
    /\ Goto(c, "failed")
    /\ UNCHANGED <<mu, shared, network, held, tries, result, applied, cancelled>>

(* The first attempt fails with a connection error: its connection dropped, *)
(* or somebody closed the adapter while the operation ran.                  *)
ConnectionError(c) ==
    /\ pc[c] \in {"op", "answered"}
    /\ ~Healthy(held[c])
    /\ Goto(c, "failed")
    /\ UNCHANGED <<mu, shared, network, held, tries, result, applied, cancelled>>

----------------------------------------------------------------------------
(* retryOp, from r.mu.Lock() to the deferred Unlock.                        *)

LockForRetry(c) ==
    /\ pc[c] = "failed"
    /\ mu = NoCaller
    /\ mu' = c
    /\ Goto(c, "loop")
    /\ UNCHANGED <<shared, network, held, tries, result, applied, cancelled>>

(* The head of the loop: ctx, closed, and the backoff that may be over.     *)
GiveUp(c) ==
    \/ c \in cancelled /\ Return(c, "cancelled")
    \/ c \notin cancelled /\ closed /\ Return(c, "closed")
    \/ c \notin cancelled /\ ~closed /\ Return(c, "exhausted")

RetryStop(c) ==
    /\ pc[c] = "loop"
    /\ GiveUp(c)
    /\ mu' = NoCaller
    /\ UNCHANGED <<shared, network, held, tries, applied, cancelled>>

(* Mutants of the head: without the test of r.closed; without a Stop of     *)
(* the backoff; with a new backoff policy in every round.                   *)
RetryWaitUnchecked(c) ==
    /\ pc[c] = "loop"
    /\ c \notin cancelled
    /\ tries[c] < MaxTries
    /\ tries' = [tries EXCEPT ![c] = @ + 1]
    /\ Goto(c, "wait")
    /\ UNCHANGED <<mu, shared, network, held, result, applied, cancelled>>

RetryWaitUnbounded(c) ==
    /\ pc[c] = "loop"
    /\ c \notin cancelled
    /\ ~closed
    /\ tries' = [tries EXCEPT ![c] = @ + 1]
    /\ Goto(c, "wait")
    /\ UNCHANGED <<mu, shared, network, held, result, applied, cancelled>>

RetryWaitReset(c) ==
    /\ pc[c] = "loop"
    /\ c \notin cancelled
    /\ ~closed
    /\ Goto(c, "wait")
    /\ UNCHANGED <<mu, shared, network, held, tries, result, applied, cancelled>>

RetryWait(c) ==
    /\ pc[c] = "loop"
    /\ c \notin cancelled
    /\ ~closed
    /\ tries[c] < MaxTries
    /\ tries' = [tries EXCEPT ![c] = @ + 1]
    /\ Goto(c, "wait")
    /\ UNCHANGED <<mu, shared, network, held, result, applied, cancelled>>

(* select: the ctx ends the wait. *)
WaitCancelled(c) ==
    /\ pc[c] = "wait"
    /\ c \in cancelled
    /\ Return(c, "cancelled")
    /\ mu' = NoCaller
    /\ UNCHANGED <<shared, network, held, tries, applied, cancelled>>

(* Mutant: reconnect() without the Close of the old adapter.                *)
ReopenLeaking(c) ==
    \/ /\ FactoryOK
       /\ adapter' = made'
       /\ live' = live \cup {made'}
       /\ Goto(c, "retry")
    \/ /\ adapter' = Nil
       /\ Goto(c, "loop")
       /\ UNCHANGED <<made, live>>

(* select: the timer fires.  reconnect() closes the adapter it finds, which *)
(* need not be the one that failed, and asks the factory for another.       *)
Reopen(c) ==
    \/ /\ FactoryOK
       /\ adapter' = made'
       /\ live' = (live \ {adapter}) \cup {made'}
       /\ Goto(c, "retry")
    \/ /\ adapter' = Nil
       /\ live' = live \ {adapter}
       /\ Goto(c, "loop")
       /\ UNCHANGED made

Reconnected(c) ==
    /\ pc[c] = "wait"
    /\ Reopen(c)
    /\ UNCHANGED <<mu, closed, network, held, tries, result, applied, cancelled>>

(* The repeated operation ends retryOp unless the connection failed again.  *)
RetryFinish(c) ==
    /\ pc[c] \in {"retry", "retried"}
    /\ Surfaces(c, adapter, pc[c] = "retried")
    /\ mu' = NoCaller
    /\ UNCHANGED <<shared, network, held, tries, applied, cancelled>>

RetryAgain(c) ==
    /\ pc[c] \in {"retry", "retried"}
    /\ ~Healthy(adapter)
    /\ Goto(c, "loop")
    /\ UNCHANGED <<mu, shared, network, held, tries, result, applied, cancelled>>

----------------------------------------------------------------------------
(* Close(), called by the session that owns the wrapper while operations    *)
(* may still be running, and the environment.                               *)

Close ==
    /\ mu = NoCaller
    /\ ~closed
    /\ closed' = TRUE
    /\ adapter' = Nil
    /\ live' = live \ {adapter}
    /\ UNCHANGED <<mu, made, network, pc, held, tries, result, applied, cancelled>>

Cancel(c) ==
    /\ c \notin cancelled
    /\ pc[c] # "done"
    /\ cancelled' = cancelled \cup {c}
    /\ UNCHANGED <<mu, shared, network, pc, held, tries, result, applied>>

Drop(a) ==
    /\ Healthy(a)
    /\ broken' = broken \cup {a}
    /\ drops' = drops + 1
    /\ UNCHANGED <<mu, shared, pc, held, tries, result, applied, cancelled>>

Step(c) ==
    \/ Call(c) \/ Browse(c) \/ BrowseReturn(c) \/ Apply(c) \/ Finish(c)
    \/ ConnectionError(c) \/ LockForRetry(c) \/ RetryStop(c) \/ RetryWait(c) \/ WaitCancelled(c)
    \/ Reconnected(c) \/ RetryApply(c) \/ RetryFinish(c) \/ RetryAgain(c)

(* Every caller has returned: nothing more need happen. *)
Terminated ==
    /\ \A c \in Callers : pc[c] = "done"
    /\ UNCHANGED vars

Next ==
    \/ \E c \in Callers : Step(c) \/ Cancel(c)
    \/ Close
    \/ \E a \in Adapters : Drop(a)
    \/ Terminated

Spec == Init /\ [][Next]_vars

(* Goroutines run, the mutex is handed on, timers fire and a non-blocking   *)
(* operation ends by its own timeout.  A blocking operation is only known   *)
(* to end once its ctx is done, which the interrupt that also ends the      *)
(* session brings about; then the session closes the wrapper.               *)
Steady(c) ==
    Step(c) /\ (c \in Blocking => ~Apply(c) /\ ~RetryApply(c))

Fairness ==
    /\ \A c \in Callers : WF_vars(Steady(c))
    /\ \A c \in Blocking : WF_vars(Cancel(c))
    /\ WF_vars(Close)

FairSpec == Spec /\ Fairness

----------------------------------------------------------------------------
(* The type of every variable. *)
TypeOK ==
    /\ mu \in Callers \cup {NoCaller}
    /\ closed \in BOOLEAN
    /\ adapter \in Adapters \cup {Nil}
    /\ made \in 0..MaxAdapters
    /\ live \subseteq Adapters
    /\ broken \subseteq Adapters
    /\ pc \in [Callers -> Pcs]
    /\ held \in [Callers -> Adapters \cup {Nil}]
    /\ tries \in [Callers -> 0..MaxTries]
    /\ result \in [Callers -> Results]
    /\ applied \in [Callers -> Nat]
    /\ cancelled \subseteq Callers
    /\ drops \in Nat

(* No connection leaks: whatever callers, reconnects and Close interleave,  *)
(* the only open adapter is the one the wrapper points at.                  *)
NoLeak == live = {adapter} \ {Nil}

(* Once Close has run no connection is open and none is ever opened again,  *)
(* though operations that were in flight go on to retry.                    *)
ClosedIsFinal == closed => live = {}

(* A nil error means the broker executed the operation at least once; a     *)
(* call repeats it only after a backoff wait, so its duplicates are bounded *)
(* by its own reconnects ("at-least-once", the comment of Request).         *)
AtLeastOnce ==
    \A c \in Callers :
        /\ result[c] = "ok" => applied[c] >= 1
        /\ applied[c] <= 1 + tries[c]

(* As long as the network drops nothing the wrapper duplicates nothing: no  *)
(* caller's retry, and no Close, makes another caller repeat its operation. *)
NoDropNoDuplicate == drops = 0 => \A c \in Callers : applied[c] <= 1

(* After Close the wrapper makes the broker execute nothing more, be it for *)
(* a call that starts late or for one that was already retrying.            *)
SilentAfterClose == [][closed => applied' = applied]_vars

(* A caller that lost its connection returns in the end: retryOp releases   *)
(* the mutex on every path and never waits for itself.                      *)
RetryReturns == \A c \in Callers : pc[c] = "failed" ~> pc[c] = "done"

(* Close, which needs the mutex that retryOp holds, gets through.           *)
CloseCompletes == <>closed

(* Together: one connection at most, and none after Close, whatever callers *)
(* reconnect meanwhile (ensureConnected, reconnect, Close).                 *)
Connections == TypeOK /\ NoLeak /\ ClosedIsFinal

(* Together: success means executed, only a reconnect repeats, and only     *)
(* after a dropped connection (retryOp).                                    *)
Executions == AtLeastOnce /\ NoDropNoDuplicate

(* Together: nobody waits for ever for the mutex that retryOp holds.        *)
GetsThrough == RetryReturns /\ CloseCompletes

=============================================================================
