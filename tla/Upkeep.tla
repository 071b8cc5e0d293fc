------------------------------- MODULE Upkeep -------------------------------
(***************************************************************************)
(* What the AI screen keeps going by timers: the periodic refresh of the   *)
(* sidebar with its watchdog (cmd/aikeys.go, cmd/aitui.go), and the probe  *)
(* of the connection with its back-off (cmd/aiconn.go).  Both are chains:  *)
(* a timer's message starts some work, and the work's message sets the     *)
(* next timer.  A call to the broker may hang for ever.                    *)
(*                                                                         *)
(* The interval between refreshes and the countdown of the back-off are    *)
(* times; here a timer fires at some time.                                 *)
(***************************************************************************)
EXTENDS Integers

CONSTANTS
    MaxTimers,   \* bound: timers of one kind pending at once
    MaxCommands, \* bound: slash commands about the connection
    MaxBackoff   \* reconnectMaxBackoff, as the number of doublings it allows

VARIABLES
    enabled,     \* refreshEnabled
    refreshing,  \* a periodic refresh is under way
    gen,         \* refreshGen, which goes up by one, modulo 2
    ticks,       \* refresh timers pending
    watchdogs,   \* "current": the watchdog of the last refresh is pending, "old": an earlier one's
    fetches,     \* loads of the lists under way that may yet answer: "refresh", "plain"
    reconnecting, disabled, \* conn.reconnecting, conn.reconnectDisabled
    checked,     \* conn.checked
    unreachable, \* conn.err is set
    backoff,     \* how often the back-off has doubled
    connTicks,   \* reconnect timers pending
    probe,       \* what is under way: {"first"}, a "retry", or nothing
    commands     \* /connect and /disconnect entered

refresh == <<enabled, refreshing, gen, ticks, watchdogs, fetches>>
conn == <<reconnecting, disabled, checked, unreachable, backoff, connTicks, probe, commands>>
vars == <<refresh, conn>>

Init ==
    /\ enabled \in BOOLEAN
    /\ refreshing = FALSE
    /\ gen = 0
    /\ ticks = IF enabled THEN 1 ELSE 0
    /\ watchdogs = {}
    /\ fetches = {"plain"}
    /\ reconnecting = FALSE
    /\ disabled = FALSE
    /\ checked = FALSE
    /\ unreachable = FALSE
    /\ backoff = 0
    /\ connTicks = 0
    /\ probe = {"first"}
    /\ commands = 0

More(n) == IF n < MaxTimers THEN n + 1 ELSE n

----------------------------------------------------------------------------
(* The periodic refresh. *)

(* A fetch is started and its watchdog armed; those of before grow old.     *)
BeginRefresh(pending) ==
    /\ refreshing' = TRUE
    /\ gen' = 1 - gen
    /\ fetches' = fetches \cup {"refresh"}
    /\ watchdogs' = {"current"} \cup IF pending = {} THEN {} ELSE {"old"}

(* refreshTickMsg: ignored while a refresh is under way.                    *)
Tick ==
    /\ ticks > 0
    /\ ticks' = ticks - 1
    /\ IF ~refreshing /\ enabled THEN BeginRefresh(watchdogs) ELSE UNCHANGED <<refreshing, gen, fetches, watchdogs>>
    /\ UNCHANGED <<enabled, conn>>

(* objectsMsg, of whatever load: it ends the refresh under way.             *)
ObjectsDone(kind) ==
    /\ kind \in fetches
    /\ fetches' = fetches \ {kind}
    /\ refreshing' = FALSE
    /\ ticks' = IF refreshing /\ enabled THEN More(ticks) ELSE ticks
    /\ UNCHANGED <<enabled, gen, watchdogs, conn>>

WatchdogGivesUp(age) ==  \* mutant: a fetch that hangs is only noted
    /\ age \in watchdogs
    /\ watchdogs' = watchdogs \ {age}
    /\ UNCHANGED <<enabled, refreshing, gen, ticks, fetches, conn>>

(* refreshWatchdogMsg: the last refresh has hung, and another is begun.     *)
Watchdog(age) ==
    /\ age \in watchdogs
    /\ IF refreshing /\ age = "current"
       THEN BeginRefresh(watchdogs \ {age})
       ELSE /\ watchdogs' = watchdogs \ {age}
            /\ UNCHANGED <<refreshing, gen, fetches>>
    /\ UNCHANGED <<enabled, ticks, conn>>

(* /refresh without an argument, "r", and the end of a sidebar action.      *)
PlainLoad ==
    /\ fetches' = fetches \cup {"plain"}
    /\ UNCHANGED <<enabled, refreshing, gen, ticks, watchdogs, conn>>

(* procDoneMsg of a process whose command may have changed counts: a        *)
(* refresh too, even with the periodic one off.                             *)
ProcDone ==
    /\ ~refreshing /\ BeginRefresh(watchdogs)
    /\ UNCHANGED <<enabled, ticks, conn>>

(* /refresh off, and /refresh with an interval.                             *)
RefreshOff ==
    /\ enabled
    /\ enabled' = FALSE
    /\ UNCHANGED <<refreshing, gen, ticks, watchdogs, fetches, conn>>

RefreshOn ==
    /\ enabled' = TRUE
    /\ IF ~enabled /\ ~refreshing THEN BeginRefresh(watchdogs) ELSE UNCHANGED <<refreshing, gen, fetches, watchdogs>>
    /\ UNCHANGED <<ticks, conn>>

----------------------------------------------------------------------------
(* The connection. *)

(* connMsg: the first probe; a failure starts the back-off.                 *)
ConnDone(ok) ==
    /\ "first" \in probe
    /\ probe' = probe \ {"first"}
    /\ checked' = TRUE
    /\ unreachable' = ~ok
    /\ IF ok \/ disabled THEN UNCHANGED <<reconnecting, backoff, connTicks>>
       ELSE /\ reconnecting' = TRUE
            /\ backoff' = 0
            /\ connTicks' = More(connTicks)
    /\ UNCHANGED <<refresh, disabled, commands>>

(* reconnectTickMsg: the countdown, or its end and a probe.                 *)
ReconnectTick(due) ==
    /\ connTicks > 0
    /\ connTicks' = IF reconnecting /\ ~disabled /\ ~due THEN connTicks ELSE connTicks - 1
    /\ probe' = IF reconnecting /\ ~disabled /\ due THEN probe \cup {"retry"} ELSE probe
    /\ UNCHANGED <<refresh, reconnecting, disabled, checked, unreachable, backoff, commands>>

ProbeFailsAtMax(ok) ==  \* mutant: retries end once the back-off has reached its maximum
    /\ "retry" \in probe
    /\ probe' = probe \ {"retry"}
    /\ IF ok THEN /\ reconnecting' = FALSE
                  /\ unreachable' = FALSE
                  /\ checked' = TRUE
                  /\ UNCHANGED <<backoff, connTicks>>
       ELSE /\ backoff' = IF backoff < MaxBackoff THEN backoff + 1 ELSE backoff
            /\ connTicks' = IF backoff < MaxBackoff THEN More(connTicks) ELSE connTicks
            /\ UNCHANGED <<reconnecting, unreachable, checked>>
    /\ UNCHANGED <<refresh, disabled, commands>>

(* reconnectProbeMsg: connected, or the back-off doubles up to its maximum. *)
ReconnectProbe(ok) ==
    /\ "retry" \in probe
    /\ probe' = probe \ {"retry"}
    /\ IF ok THEN /\ reconnecting' = FALSE
                  /\ unreachable' = FALSE
                  /\ checked' = TRUE
                  /\ UNCHANGED <<backoff, connTicks>>
       ELSE /\ backoff' = IF backoff < MaxBackoff THEN backoff + 1 ELSE backoff
            /\ connTicks' = More(connTicks)
            /\ UNCHANGED <<reconnecting, unreachable, checked>>
    /\ UNCHANGED <<refresh, disabled, commands>>

Disconnect ==
    /\ commands < MaxCommands
    /\ commands' = commands + 1
    /\ reconnecting
    /\ reconnecting' = FALSE
    /\ disabled' = TRUE
    /\ UNCHANGED <<refresh, checked, unreachable, backoff, connTicks, probe>>

(* /connect probes at once, whatever is pending.                            *)
Connect ==
    /\ commands < MaxCommands
    /\ commands' = commands + 1
    /\ unreachable \/ reconnecting
    /\ disabled' = FALSE
    /\ reconnecting' = TRUE
    /\ probe' = probe \cup {"retry"}
    /\ UNCHANGED <<refresh, checked, unreachable, backoff, connTicks>>

----------------------------------------------------------------------------
Next ==
    \/ Tick
    \/ \E kind \in {"refresh", "plain"} : ObjectsDone(kind)
    \/ \E age \in {"current", "old"} : Watchdog(age)
    \/ PlainLoad \/ ProcDone \/ RefreshOff \/ RefreshOn
    \/ \E ok \in BOOLEAN : ConnDone(ok) \/ ReconnectProbe(ok)
    \/ \E due \in BOOLEAN : ReconnectTick(due)
    \/ Disconnect \/ Connect

Spec == Init /\ [][Next]_vars

(* Timers fire.  Nothing is assumed of the calls to the broker: a fetch or  *)
(* a probe need never answer.                                               *)
Fairness ==
    /\ WF_vars(Tick)
    /\ \A age \in {"current", "old"} : WF_vars(Watchdog(age))

FairSpec == Spec /\ Fairness

----------------------------------------------------------------------------
(* Properties. *)

TypeOK ==
    /\ enabled \in BOOLEAN /\ refreshing \in BOOLEAN
    /\ reconnecting \in BOOLEAN /\ disabled \in BOOLEAN
    /\ checked \in BOOLEAN /\ unreachable \in BOOLEAN
    /\ gen \in {0, 1}
    /\ ticks \in 0..MaxTimers
    /\ watchdogs \subseteq {"current", "old"}
    /\ fetches \subseteq {"refresh", "plain"}
    /\ backoff \in 0..MaxBackoff
    /\ connTicks \in 0..MaxTimers
    /\ probe \subseteq {"first", "retry"}

(* While the screen says it is reconnecting something will go on with it: a *)
(* timer is pending or a probe is under way, through any sequence of        *)
(* /disconnect and /connect and however late the probes answer.             *)
ReconnectsOn == TypeOK /\ (reconnecting => connTicks > 0 \/ "retry" \in probe)

(* As long as the periodic refresh is on, the lists are fetched again and   *)
(* again, even if a fetch hangs, the user loads them by hand in between, or *)
(* switches it off and on.                                                  *)
RefreshGoesOn == <>[]enabled => []<><<gen' # gen>>_gen
=============================================================================
