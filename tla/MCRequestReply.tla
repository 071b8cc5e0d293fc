--------------------------- MODULE MCRequestReply ---------------------------
(***************************************************************************)
(* Request/reply (two requesters, one responder that echoes the            *)
(* correlation id and one that does not) and the reconnect wrapper that    *)
(* its retries go through (two goroutines), for TLC.  The wrapper does not *)
(* know what runs through it, so the two are explored side by side, each   *)
(* while the other rests in its initial state; Parts says which.           *)
(***************************************************************************)
EXTENDS RequestReply, TLC

CONSTANTS
    Parts,  \* a subset of {"requests", "wrapper"}
    r1, r2, echo, mute,
    c1, c2, Callers, Blocking, NoCaller, MaxAdapters, MaxTries

VARIABLES
    part,   \* which of the two runs
    mu, closed, adapter, made, live, broken, callerPc, held, tries, result, applied, cancelled,
    drops

wrapper == <<mu, closed, adapter, made, live, broken, callerPc, held, tries, result, applied,
             cancelled, drops>>
all == <<part, vars, wrapper>>

W == INSTANCE Reconnect WITH pc <- callerPc

ASSUME WrapperHolds == W!ReconnectAssumption

Symmetry == Permutations({r1, r2})

MCInit ==
    /\ part \in Parts
    /\ Init /\ (part # "requests" => mode = CHOOSE m \in Modes : TRUE)
    /\ W!Init

Calls(A) == part = "wrapper" /\ A /\ UNCHANGED <<part, vars>>

RequestsNext == part = "requests" /\ Next /\ UNCHANGED <<part, wrapper>>
WrapperNext == part = "wrapper" /\ W!Next /\ UNCHANGED <<part, vars>>

(* Request/reply without fairness, and Reconnect's.                         *)
MCSpec == MCInit /\ [][RequestsNext \/ WrapperNext]_all

FairMCSpec ==
    /\ MCSpec
    /\ \A c \in Callers : WF_all(Calls(W!Steady(c)))
    /\ \A c \in Blocking : WF_all(Calls(W!Cancel(c)))
    /\ WF_all(Calls(W!Close))

----------------------------------------------------------------------------
(* One connection at most, and none after Close (ensureConnected,           *)
(* reconnect, Close): Reconnect's Connections.                              *)
Connections == W!Connections

(* Success means executed, and only a reconnect after a dropped connection  *)
(* repeats (retryOp): Reconnect's Executions.                               *)
Executions == W!Executions

(* Nothing reaches the broker through a closed wrapper (Close): Reconnect's *)
(* SilentAfterClose.                                                        *)
SilentAfterClose == W!SilentAfterClose

(* Nobody waits for ever for the mutex that retryOp holds: Reconnect's      *)
(* GetsThrough.                                                             *)
GetsThrough == W!GetsThrough
=============================================================================
