------------------------------ MODULE MCRelay ------------------------------
(***************************************************************************)
(* The relays of one broker (one move with a --count, one forward with a   *)
(* command, a shared source) and the bridge between two, for TLC.  They    *)
(* share no state, so they are explored side by side, each while the other *)
(* rests in its initial state, and not as a product.                       *)
(***************************************************************************)
EXTENDS Relay

CONSTANTS
    mover, forwarder,
    BridgeMessages, Unencodable, BridgeLimit, PipeCap, Settings

VARIABLES
    part,   \* which of the two runs
    setting, bridgeArrived, bridgeQueued, bridgeUnsettled, bridgePc, bridgeHand, bridged,
    bridgeOutcome, expired, cancelled, interrupted, pipe, open, target, working, published,
    bridgeRecovered, dropped

bridge == <<setting, bridgeArrived, bridgeQueued, bridgeUnsettled, bridgePc, bridgeHand, bridged,
            bridgeOutcome, expired, cancelled, interrupted, pipe, open, target, working,
            published, bridgeRecovered, dropped>>
all == <<part, vars, bridge>>

B == INSTANCE Bridge
     WITH Messages <- BridgeMessages, Limit <- BridgeLimit, arrived <- bridgeArrived,
          queued <- bridgeQueued, unsettled <- bridgeUnsettled, pc <- bridgePc,
          hand <- bridgeHand, outcome <- bridgeOutcome, recovered <- bridgeRecovered

ASSUME BridgeHolds == B!BridgeAssumption

MCLimit == [w \in Workers |-> IF w = mover THEN 2 ELSE 0]

MCInit ==
    /\ part \in {"relays", "bridge"}
    /\ Init
    /\ B!Init /\ (part # "bridge" => setting = CHOOSE s \in Settings : TRUE)

Relaying(A) == part = "relays" /\ A /\ UNCHANGED <<part, bridge>>
Bridging(A) == part = "bridge" /\ A /\ UNCHANGED <<part, vars>>

RelayNext == part = "relays" /\ Next /\ UNCHANGED <<part, bridge>>
BridgeNext == part = "bridge" /\ B!Next /\ UNCHANGED <<part, vars>>

(* The fairness of Relay, and Bridge's HungTarget.                          *)
MCSpec ==
    /\ MCInit /\ [][RelayNext \/ BridgeNext]_all
    /\ \A w \in Workers : WF_all(Relaying(BoundedStep(w)))
    /\ WF_all(Bridging(B!Loop)) /\ WF_all(Bridging(B!KillTarget))

----------------------------------------------------------------------------
(* A relay ends with its context, a move with its source too, unless a call *)
(* that nothing bounds never comes back (doMove, doForward): Relay's        *)
(* EndsWithContext and MoveEnds, of the relays that run.                    *)
RelaysEnd == part = "relays" => EndsWithContext /\ MoveEnds

(* Every message of a bridge has one place, and what was taken is drained   *)
(* (doBridge): Bridge's Drains.                                             *)
Drains == B!Drains

(* A bridge relays each message once (doBridge): Bridge's KeepsCustody.     *)
BridgeKeepsCustody == B!KeepsCustody

(* A bridge ends when the user or --for says so: Bridge's BridgeEnds.       *)
BridgeEnds == B!BridgeEnds
=============================================================================
