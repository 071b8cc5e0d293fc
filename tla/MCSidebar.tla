------------------------------ MODULE MCSidebar ------------------------------
(***************************************************************************)
(* The sidebar and the timers of the AI screen.  They share no state       *)
(* (Sidebar leaves open when a load starts), so they are explored side by  *)
(* side, each while the other rests, and not as a product.                 *)
(***************************************************************************)
EXTENDS Sidebar

CONSTANTS MaxTimers, MaxCommands, MaxBackoff

ASSUME MCSidebarAssumption ==
    /\ MaxTimers \in Nat \ {0}
    /\ MaxCommands \in Nat
    /\ MaxBackoff \in Nat

VARIABLES
    part,  \* "screen" or "timers": which of the two runs
    enabled, refreshing, gen, ticks, watchdogs, fetches,
    reconnecting, disabled, checked, unreachable, backoff, connTicks, probe, commands

timers == <<enabled, refreshing, gen, ticks, watchdogs, fetches, reconnecting, disabled,
            checked, unreachable, backoff, connTicks, probe, commands>>

U == INSTANCE Upkeep

(* Small lists: a name that is both a node and a child, subscriptions and   *)
(* other children, addresses of both kinds.                                 *)

Child(name, kind) == [name |-> name, kind |-> kind]
Node(name, kind, metric, children) ==
    [name |-> name, kind |-> kind, metric |-> metric, children |-> children]

MCScreens == {<<"Topics">>, <<"Addresses">>, <<"Queues", "Consumer Groups">>}
MCListings ==
    "Queues" :> {<<>>, <<Node(1, "none", 1, <<>>), Node(2, "none", 2, <<>>)>>} @@
    "Topics" :> {<<Node(2, "none", 1, <<>>)>>,
                 <<Node(1, "none", 1, <<Child(1, "subscription"), Child(3, "sqs")>>),
                   Node(2, "none", 2, <<Child(3, "subscription")>>)>>} @@
    "Addresses" :> {<<Node(1, "anycast", 1, <<>>), Node(2, "multicast", 2, <<Child(3, "none")>>)>>} @@
    "Consumer Groups" :> {<<Node(1, "none", 1, <<>>)>>}

----------------------------------------------------------------------------
MCInit ==
    /\ part \in {"screen", "timers"}
    /\ Init /\ (part = "timers" => wins = <<Window("Topics")>>)
    /\ U!Init /\ (part = "screen" => ~enabled)

ScreenNext == part = "screen" /\ Next /\ UNCHANGED <<part, timers>>
TimersNext == part = "timers" /\ U!Next /\ UNCHANGED <<part, vars>>

Timers(A) == part = "timers" /\ A /\ UNCHANGED <<part, vars>>

MCSpec ==
    /\ MCInit /\ [][ScreenNext \/ TimersNext]_<<part, vars, timers>>
    /\ WF_<<part, vars, timers>>(Timers(U!Tick))
    /\ \A age \in {"current", "old"} : WF_<<part, vars, timers>>(Timers(U!Watchdog(age)))

(* While the screen says it is reconnecting a timer or a probe is pending,  *)
(* so it does go on (cmd/aiconn.go): Upkeep's ReconnectsOn.                 *)
ReconnectsOn == U!ReconnectsOn

(* As long as the periodic refresh is on the lists are fetched again and    *)
(* again, even if a fetch hangs (refreshWatchdogMsg): Upkeep's RefreshGoesOn. *)
RefreshGoesOn == U!RefreshGoesOn
=============================================================================
