------------------------------- MODULE Bridge -------------------------------
(***************************************************************************)
(* The cross-broker relay of cmd/bridge.go: the read loop of doBridge, the *)
(* pipe to the standard input of the target it spawned, the target itself  *)
(* (external: typically another xmc that sends one record after another)   *)
(* and the watcher of exec.CommandContext that kills the target.           *)
(*                                                                         *)
(* The loop and the target run concurrently; the loop never looks at the   *)
(* target until it is through, and displayMessageNDJSON tells it nothing   *)
(* of a write that failed.                                                 *)
(***************************************************************************)
EXTENDS Naturals, Sequences, FiniteSets

CONSTANTS
    Messages,     \* messages that may arrive at the source
    Unencodable,  \* those json.Marshal refuses (a NaN property)
    Limit,        \* --count, 0 for none
    PipeCap,      \* records the pipe holds before a write blocks
    Settings,     \* where xmc may run: on the command line, within a session
    NoMessage

(* Assumed where a bridge runs (MCRelay).                                   *)
BridgeAssumption ==
    /\ Unencodable \subseteq Messages
    /\ Limit \in Nat
    /\ PipeCap \in Nat \ {0}
    /\ Settings \subseteq {"cli", "session"}
    /\ NoMessage \notin Messages

VARIABLES
    setting,      \* where this bridge runs
    arrived,      \* messages that have come to the source
    queued,       \* those still there
    unsettled,    \* lost by an acknowledge whose answer was lost
    pc,           \* doBridge
    hand,         \* its msg
    bridged,      \* its counter
    outcome,      \* how its loop ended
    expired,      \* the --for deadline has passed
    cancelled,    \* cmd.Context() is done
    interrupted,  \* Ctrl-C was pressed (Esc, or k, in a session)
    pipe,         \* records written and not yet read
    open,         \* our end of the pipe
    target,       \* the target process
    working,      \* the record the target is sending
    published,    \* messages at the far broker
    recovered,    \* payloads on stdout
    dropped       \* messages nobody has any more

vars == <<setting, arrived, queued, unsettled, pc, hand, bridged, outcome, expired,
          cancelled, interrupted, pipe, open, target, working, published,
          recovered, dropped>>

source == <<setting, arrived, queued, unsettled>>
control == <<expired, cancelled, interrupted>>
ledger == <<recovered, dropped>>
child == <<pipe, open, target, working, published>>

Pcs == {"loop", "poll", "write", "close", "wait", "done", "killed"}

Init ==
    /\ setting \in Settings
    /\ arrived = {}
    /\ queued = {}
    /\ unsettled = {}
    /\ pc = "loop"
    /\ hand = NoMessage
    /\ bridged = 0
    /\ outcome = "none"
    /\ expired = FALSE
    /\ cancelled = FALSE
    /\ interrupted = FALSE
    /\ pipe = << >>
    /\ open = TRUE
    /\ target = "running"
    /\ working = NoMessage
    /\ published = {}
    /\ recovered = {}
    /\ dropped = {}

(* The context timedOrInterruptCtx derives from cmd.Context().              *)
ContextDone == expired \/ cancelled

Goto(l) == pc' = l /\ UNCHANGED outcome

(* The loop is over; the deferred functions come next. *)
Leave(how) == pc' = "close" /\ outcome' = how

Reading == target = "running"

----------------------------------------------------------------------------
(* The read loop. *)

Continues == (Limit = 0 \/ bridged < Limit) /\ ~ContextDone

Enter ==
    /\ pc = "loop"
    /\ IF Continues THEN Goto("poll") ELSE Leave("summary")
    /\ UNCHANGED <<source, hand, bridged, control, child, ledger>>

Take ==
    /\ pc = "poll"
    /\ \E m \in queued :
        /\ queued' = queued \ {m}
        /\ hand' = m
    /\ Goto("write")
    /\ UNCHANGED <<setting, arrived, unsettled, bridged, control, child, ledger>>

(* An error of the adapter: it ends the loop, but a timeout while the       *)
(* context lives only means that the source is empty.                       *)
AfterError ==
    \/ ContextDone /\ Leave("summary")
    \/ ~ContextDone /\ Goto("loop")
    \/ ~ContextDone /\ Leave("error")

NoTake ==
    /\ pc = "poll"
    /\ AfterError
    /\ UNCHANGED <<source, hand, bridged, control, child, ledger>>

SettleLost ==
    /\ pc = "poll"
    /\ \E m \in queued :
        /\ queued' = queued \ {m}
        /\ unsettled' = unsettled \cup {m}
    /\ AfterError
    /\ UNCHANGED <<setting, arrived, hand, bridged, control, child, ledger>>

(* Mutants: the payload is written to stdout and to the target; or it is    *)
(* handed back to a source that has forgotten it.                           *)
WriteRefusedTwice ==
    /\ pc = "write"
    /\ hand \in Unencodable
    /\ Len(pipe) < PipeCap
    /\ Reading
    /\ recovered' = recovered \cup {hand}
    /\ pipe' = Append(pipe, hand)
    /\ hand' = NoMessage
    /\ Leave("error")
    /\ UNCHANGED <<source, bridged, control, open, target, working, published, dropped>>

WriteRefusedRequeue ==
    /\ pc = "write"
    /\ hand \in Unencodable
    /\ queued' = queued \cup {hand}
    /\ hand' = NoMessage
    /\ Leave("error")
    /\ UNCHANGED <<setting, arrived, unsettled, bridged, control, child, ledger>>

(* displayMessageNDJSON: an error when the record cannot be encoded ...     *)
WriteRefused ==
    /\ pc = "write"
    /\ hand \in Unencodable
    /\ recovered' = recovered \cup {hand}
    /\ hand' = NoMessage
    /\ Leave("error")
    /\ UNCHANGED <<source, bridged, control, child, dropped>>

(* Mutant: a write that never blocks. *)
WriteUnbounded ==
    /\ pc = "write"
    /\ hand \notin Unencodable
    /\ pipe' = Append(pipe, hand)
    /\ hand' = NoMessage
    /\ bridged' = bridged + 1
    /\ Goto("loop")
    /\ UNCHANGED <<source, control, open, target, working, published, recovered, dropped>>

(* ... and nil otherwise, be the record in the pipe or, once the target has *)
(* gone, nowhere.  A full pipe blocks the loop.                             *)
Write ==
    /\ pc = "write"
    /\ hand \notin Unencodable
    /\ \/ /\ Reading
          /\ Len(pipe) < PipeCap
          /\ pipe' = Append(pipe, hand)
          /\ UNCHANGED dropped
       \/ /\ ~Reading
          /\ dropped' = dropped \cup {hand}
          /\ UNCHANGED pipe
    /\ hand' = NoMessage
    /\ bridged' = bridged + 1
    /\ Goto("loop")
    /\ UNCHANGED <<source, control, open, target, working, published, recovered>>

(* Mutant: the deferred functions in the wrong order. *)
WaitBeforeClose ==
    /\ pc = "close"
    /\ Goto("wait")
    /\ UNCHANGED <<source, hand, bridged, control, child, ledger>>

(* defer: stdinPipe.Close(), then proc.Wait(). *)
ClosePipe ==
    /\ pc = "close"
    /\ open' = FALSE
    /\ Goto("wait")
    /\ UNCHANGED <<source, hand, bridged, control, pipe, target, working,
                   published, ledger>>

Wait ==
    /\ pc = "wait"
    /\ ~Reading
    /\ Goto("done")
    /\ UNCHANGED <<source, hand, bridged, control, child, ledger>>

Loop == Enter \/ Take \/ NoTake \/ SettleLost \/ WriteRefused \/ Write \/ ClosePipe \/ Wait

----------------------------------------------------------------------------
(* The target.                                                              *)

TargetRead ==
    /\ Reading
    /\ working = NoMessage
    /\ pipe # << >>
    /\ working' = Head(pipe)
    /\ pipe' = Tail(pipe)
    /\ UNCHANGED <<source, pc, hand, bridged, outcome, control, open, target,
                   published, ledger>>

TargetSend ==
    /\ Reading
    /\ working # NoMessage
    /\ published' = published \cup {working}
    /\ working' = NoMessage
    /\ UNCHANGED <<source, pc, hand, bridged, outcome, control, pipe, open,
                   target, ledger>>

(* End of file on its standard input. *)
TargetFinish ==
    /\ Reading
    /\ working = NoMessage
    /\ pipe = << >>
    /\ ~open
    /\ target' = "finished"
    /\ UNCHANGED <<source, pc, hand, bridged, outcome, control, pipe, open,
                   working, published, ledger>>

(* The target ends early; the record it was sending may have arrived, what  *)
(* it had not read from the pipe is gone.                                   *)
TargetGone(how) ==
    LET holds == {working} \ {NoMessage}
    IN  /\ Reading
        /\ target' = how
        /\ published' \in {published, published \cup holds}
        /\ dropped' = (dropped \cup holds \cup {pipe[i] : i \in DOMAIN pipe}) \ published'
        /\ working' = NoMessage
        /\ pipe' = << >>

(* It exits at its first send that fails. *)
TargetFails ==
    /\ TargetGone("failed")
    /\ UNCHANGED <<source, pc, hand, bridged, outcome, control, open, recovered>>

(* Mutants: the target gets the context that --for ends as well, or one     *)
(* that only --for ends.                                                    *)
KillTargetAtDeadline ==
    /\ ContextDone
    /\ TargetGone("killed")
    /\ UNCHANGED <<source, pc, hand, bridged, outcome, control, open, recovered>>

KillTargetAtDeadlineOnly ==
    /\ expired
    /\ TargetGone("killed")
    /\ UNCHANGED <<source, pc, hand, bridged, outcome, control, open, recovered>>

(* exec.CommandContext, given cmd.Context() and not the bounded context.    *)
KillTarget ==
    /\ cancelled
    /\ TargetGone("killed")
    /\ UNCHANGED <<source, pc, hand, bridged, outcome, control, open, recovered>>

----------------------------------------------------------------------------
(* The world. *)

Arrive(m) ==
    /\ m \notin arrived
    /\ arrived' = arrived \cup {m}
    /\ queued' = queued \cup {m}
    /\ UNCHANGED <<setting, unsettled, pc, hand, bridged, outcome, control, child,
                   ledger>>

Expire ==
    /\ ~expired
    /\ expired' = TRUE
    /\ UNCHANGED <<source, pc, hand, bridged, outcome, cancelled, interrupted,
                   child, ledger>>

(* A session cancels the context it runs the command with.  On the command  *)
(* line cmd.Context() is the background context and no handler is installed:*)
(* SIGINT ends xmc where it stands, and what it held is gone.               *)
Interrupt ==
    /\ ~interrupted
    /\ pc \notin {"done", "killed"}
    /\ interrupted' = TRUE
    /\ \/ /\ setting = "session"
          /\ cancelled' = TRUE
          /\ UNCHANGED <<pc, hand, open, dropped>>
       \/ /\ setting = "cli"
          /\ pc' = "killed"
          /\ open' = FALSE
          /\ dropped' = dropped \cup ({hand} \ {NoMessage})
          /\ hand' = NoMessage
          /\ UNCHANGED cancelled
    /\ UNCHANGED <<source, bridged, outcome, expired, pipe, target, working,
                   published, recovered>>

Ended ==
    /\ pc \in {"done", "killed"}
    /\ UNCHANGED vars

Target == TargetRead \/ TargetSend \/ TargetFinish

Next ==
    \/ Loop \/ Target \/ TargetFails \/ KillTarget
    \/ Expire \/ Interrupt \/ Ended
    \/ \E m \in Messages : Arrive(m)

Spec == Init /\ [][Next]_vars

(* The loop runs and a cancelled context kills; the target may hang.        *)
HungTarget == Spec /\ WF_vars(Loop) /\ WF_vars(KillTarget)

----------------------------------------------------------------------------
InPipe == {pipe[i] : i \in DOMAIN pipe}
Taken == arrived \ (queued \cup unsettled)
Transit == ({hand, working} \ {NoMessage}) \cup InPipe

(* The type of every variable. *)
TypeOK ==
    /\ setting \in Settings
    /\ arrived \subseteq Messages
    /\ queued \subseteq Messages
    /\ unsettled \subseteq Messages
    /\ pc \in Pcs
    /\ hand \in Messages \cup {NoMessage}
    /\ bridged \in Nat
    /\ outcome \in {"none", "summary", "error"}
    /\ {expired, cancelled, interrupted, open} \subseteq BOOLEAN
    /\ pipe \in Seq(Messages) /\ Len(pipe) <= PipeCap
    /\ target \in {"running", "finished", "failed", "killed"}
    /\ working \in Messages \cup {NoMessage}
    /\ published \subseteq Messages
    /\ recovered \subseteq Messages
    /\ dropped \subseteq Messages

(* "once it ends, the deferred stdinPipe.Close()+proc.Wait() lets the       *)
(* target finish gracefully via EOF" (doBridge): unless the user interrupts *)
(* or the target fails by itself, the --for deadline, --count and every     *)
(* error of the source leave nothing behind.                                *)
GracefulDrain ==
    /\ ~interrupted /\ target # "failed" => dropped = {}
    /\ pc = "done" /\ target = "finished" => Taken \subseteq published \cup recovered

(* Each message the source gave up is at one place: with the loop, in the   *)
(* pipe, with the target, at the far broker, on stdout or lost.             *)
OnePlace ==
    /\ Taken = Transit \cup published \cup recovered \cup dropped
    /\ Transit \cap (published \cup recovered \cup dropped) = {}
    /\ published \cap (recovered \cup dropped) = {}
    /\ recovered \cap dropped = {}

CustodyOf(m) ==
    IF m \in queued THEN "source"
    ELSE IF m \in Transit THEN "transit"
    ELSE IF m \in published \cup recovered THEN "kept"
    ELSE IF m \in dropped \cup unsettled THEN "lost" ELSE "none"

Contract == INSTANCE Custody
            WITH custody <- [m \in Messages |-> CustodyOf(m)], Lossy <- TRUE

(* A message is relayed once: what was published is never again in transit, *)
(* and nothing is handed back to the source.                                *)
KeepsCustody == Contract!Spec

(* An interrupt within a session ends the bridge even when the target hangs *)
(* and the pipe is full: the kill is what frees the blocked write.          *)
InterruptEnds == interrupted /\ setting = "session" ~> pc = "done"

(* The --for deadline kills no target, but if the target goes on reading it *)
(* ends the bridge: the pipe drains and the loop gets to see the deadline.  *)
DeadlineEnds == WF_vars(Target) => (expired ~> pc \in {"done", "killed"})

(* Together: every message has one place, and what was taken is drained     *)
(* (doBridge).                                                              *)
Drains == TypeOK /\ OnePlace /\ GracefulDrain

(* Together: the bridge ends when the user or --for says so.                *)
BridgeEnds == InterruptEnds /\ DeadlineEnds

=============================================================================
