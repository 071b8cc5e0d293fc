------------------------------ MODULE Custody ------------------------------
(***************************************************************************)
(* What a relay (move, forward, bridge) promises about each message of its *)
(* source: it enters at the source, is taken once, and is then kept, that  *)
(* is delivered to the destination or written to stdout for recovery.      *)
(* A relay that cannot promise the last step (Lossy) may drop a message it *)
(* is in charge of, but never one that is kept, and it never hands one     *)
(* back to the source to be relayed a second time.                         *)
(***************************************************************************)
CONSTANTS
    Messages,  \* the messages that may arrive at the source
    Lossy      \* whether the relay may lose what it has taken

VARIABLE custody

Places == {"none", "source", "transit", "kept", "lost"}

Init == custody = [m \in Messages |-> "none"]

Pass(m, from, to) ==
    /\ custody[m] = from
    /\ custody' = [custody EXCEPT ![m] = to]

(* Losses come in groups: a target that dies takes with it all it had, and  *)
(* may yet have delivered what it was sending.                              *)
Lose(lost, kept) ==
    /\ Lossy
    /\ \A m \in lost : custody[m] \in {"source", "transit"}
    /\ \A m \in kept : custody[m] = "transit"
    /\ custody' = [m \in Messages |-> IF m \in lost THEN "lost"
                                      ELSE IF m \in kept THEN "kept" ELSE custody[m]]

Next ==
    \/ \E m \in Messages :
        \/ Pass(m, "none", "source")
        \/ Pass(m, "source", "transit")
        \/ Pass(m, "transit", "kept")
    \/ \E lost, kept \in SUBSET Messages : Lose(lost, kept)

Spec == Init /\ [][Next]_custody

=============================================================================
