---------------------------- MODULE ConsumeProofs ----------------------------
(***************************************************************************)
(* Safety of a reading command on any of the ten brokers, for any number   *)
(* of messages, faults and other consumers: what is removed and not shown  *)
(* was lost for one of the causes named in LossHasCause, and nothing is    *)
(* shown twice (ShownOnce).                                                *)
(*                                                                         *)
(* Both follow from where an unshown message can be: a command that        *)
(* removes has not yet shown what is on the queue, what it settles or what *)
(* the MQTT client holds for it (FreshInv), and a browser has shown        *)
(* nothing beyond its cursor (BrowseInv).  The loss is counted as it comes *)
(* (LossInv): by --omit, by the end of a settlement that was cut off, by a *)
(* write that failed, or by the error that ends the command.               *)
(***************************************************************************)
EXTENDS Consume, FiniteSetTheorems, NaturalsInduction, WellFoundedInduction, TLAPS

(* Which way of reading the command is on, and where it can be. *)
ModeInv ==
    /\ pc = "open" => mode = "none"
    /\ pc \in {"loop", "call", "settle"} => mode # "none"
    /\ mode = "browse" => ~cfg.ack /\ Browses(broker)
    /\ mode = "receive" => cfg.ack \/ ~Browses(broker) \/ broker = "rabbitmq"
    /\ mode = "none" => \A m \in Messages : seen[m] = 0
    /\ result = "error" => pc = "done"

(* Where messages are kept for the command: the one being settled, and what *)
(* the broker or the client keeps for it.  A peek removes nothing.          *)
HeldInv ==
    /\ held # None <=> pc = "settle"
    /\ held # None => /\ mode = "receive" /\ broker \notin {"ibmmq", "mqtt"}
                      /\ Matches(held) /\ held \in 1..sent /\ held \notin ready \cup away
    /\ away # {} => broker \in {"redis", "mqtt"} \/ (broker = "pulsar" /\ ~cfg.ack)
    /\ away \cap ready = {}
    /\ ~cfg.ack => gone = {}

(* Not yet shown, or delivered once more. *)
Unshown(m) == seen[m] = 0 \/ m \in again

(* A command that removes shows only what is new to it. *)
FreshInv ==
    cfg.ack =>
        /\ \A m \in ready : Unshown(m)
        /\ held # None => Unshown(held)
        /\ broker = "mqtt" => \A m \in away : Unshown(m)
        /\ \A m \in Messages : seen[m] > 0 => m <= sent

(* A browser has shown each message up to its cursor once at most. *)
BrowseInv ==
    mode = "browse" => \A m \in Messages : seen[m] <= 1 /\ (seen[m] > 0 => m <= cursor)

(* Messages removed without being shown. *)
Silent == {m \in gone : seen[m] = 0}

(* They are those omitted, cut off or not written, and one that failed. *)
LossInv ==
    broker # "mqtt" =>
        Cardinality(Silent \ (doubt \cup unwritten)) <= omitted + (IF result = "error" THEN 1 ELSE 0)

(* A command that does not follow ends with the first settlement that is    *)
(* cut off.                                                                 *)
DoubtInv ==
    ~cfg.follow =>
        \/ doubt = {}
        \/ /\ pc = "done" /\ (cfg.driver = "cli" => result # "error")
           /\ \E m \in doubt : doubt = {m}

IInv ==
    /\ TypeOK /\ ModeInv /\ HeldInv /\ FreshInv /\ BrowseInv /\ ShownOnce
    /\ LossInv /\ DoubtInv

USE DEF None, Messages

----------------------------------------------------------------------------
(* Sets of numbers. *)

(* Every set of numbers that is not empty has a least element. *)
LEMMA LeastNumber ==
    ASSUME NEW S \in SUBSET Nat, S # {}
    PROVE  Min(S) \in S /\ \A y \in S : Min(S) <= y
<1>1. \E x \in S : \A y \in S : x <= y
  <2>1. IsWellFoundedOn(OpToRel(<, Nat), Nat)
    BY NatLessThanWellFounded
  <2>2. PICK x \in S : \A y \in S : ~(<<y, x>> \in OpToRel(<, Nat))
    BY <2>1, WFMin, Zenon
  <2>3. \A y \in S : ~(y < x)
    BY <2>2 DEF OpToRel
  <2>4. QED
    BY <2>3
<1>2. QED
  BY <1>1 DEF Min

(* One element more makes a set larger by one at most. *)
LEMMA OneMore ==
    ASSUME NEW S, IsFiniteSet(S), NEW T, NEW x, T \subseteq S \cup {x}
    PROVE  /\ IsFiniteSet(T) /\ Cardinality(T) \in Nat /\ Cardinality(S) \in Nat
           /\ Cardinality(T) <= Cardinality(S) + 1
           /\ T \subseteq S => Cardinality(T) <= Cardinality(S)
<1>1. /\ IsFiniteSet(S \cup {x}) /\ Cardinality(S) \in Nat
      /\ Cardinality(S \cup {x}) = Cardinality(S) \/ Cardinality(S \cup {x}) = Cardinality(S) + 1
  BY FS_AddElement, FS_CardinalityType
<1>2. IsFiniteSet(T) /\ Cardinality(T) <= Cardinality(S \cup {x}) /\ Cardinality(T) \in Nat
  BY <1>1, FS_Subset, FS_CardinalityType
<1>3. T \subseteq S => Cardinality(T) <= Cardinality(S)
  BY FS_Subset
<1>4. QED
  BY <1>1, <1>2, <1>3

----------------------------------------------------------------------------
(* The command and its flags. *)
LEMMA CfgType ==
    ASSUME TypeOK
    PROVE  /\ broker \in AmqpBrokers \cup {"nats", "redis", "sqs", "azure", "gcp", "ibmmq",
                                           "pulsar", "mqtt"}
           /\ cfg.driver \in {"cli", "mcp"}
           /\ cfg.ack \in BOOLEAN /\ cfg.follow \in BOOLEAN /\ cfg.wait \in BOOLEAN
           /\ cfg.omit \in 0..1 /\ cfg.count \in 0..MaxCount
           /\ cfg.driver = "mcp" => ~cfg.follow
           /\ cfg.selector => Selects(broker)
BY ConsumeAssumption DEF TypeOK, Config

(* The types that a step does not spell out. *)
LEMMA Ranges ==
    ASSUME TypeOK
    PROVE  /\ sent \in 0..MaxMessages /\ sent \in Nat /\ MaxMessages \in Nat
           /\ MaxFaults \in Nat /\ MaxCount \in Nat
           /\ \A S \in {ready, away, gone, doubt, again} : S \subseteq 1..sent /\ S \subseteq Messages
           /\ cursor \in {None} \cup Messages /\ held \in {None} \cup Messages
           /\ omitted \in Nat /\ received \in Nat /\ faults \in Nat
           /\ unwritten \subseteq Messages
<1>1. /\ sent \in 0..MaxMessages /\ sent \in Nat /\ MaxMessages \in Nat
      /\ MaxFaults \in Nat /\ MaxCount \in Nat
      /\ unwritten \subseteq Messages
      /\ cursor \in {None} \cup Messages /\ held \in {None} \cup Messages
  BY ConsumeAssumption DEF TypeOK
<1>2. omitted \in Nat /\ received \in Nat /\ faults \in Nat
  BY <1>1, CfgType DEF TypeOK
<1>3. \A S \in {ready, away, gone, doubt, again} : S \subseteq 1..sent /\ S \subseteq Messages
  <2>1. 1..sent \subseteq Messages
    BY <1>1
  <2>2. QED
    BY <2>1 DEF TypeOK
<1>4. QED
  BY <1>1, <1>2, <1>3

(* The command does not change. *)
LEMMA SameRequest == [Next]_vars => broker' = broker /\ cfg' = cfg
BY DEF Next, Command, Settle, vars, request, Open, LoopHead, BrowseNext, BrowseEnd, BrowseCut,
   BrowseBreaks, Take, GetIbmMq, ReadMqtt, PeekMqtt, CtxEndsCall, TimesOut, CallBreaks,
   SettleAmqp, SettleNats, SettleRedis, SettleSqs, SettleAzure, SettleGcp, SettlePulsar,
   Kept, NackDelay, PushMqtt, Send, OtherConsumes, CtxEnds

(* What the loop makes of an error: it goes on, or the command is done.     *)
LEMMA GotEffect ==
    ASSUME TypeOK, NEW err \in {"error", "canceled", "none", "deadline"}, Got(err),
           result # "error"
    PROVE  /\ pc' \in {"loop", "done"} /\ result' \in {"ok", "none", "error"}
           /\ result' = "error" => pc' = "done"
           /\ err = "error" => result' = "error"
           /\ ~cfg.follow => pc' = "done"
           /\ err # "error" /\ cfg.driver = "cli" => result' # "error"
<1>1. result \in {"ok", "none"}
  BY DEF TypeOK
<1>2. CASE err = "error"
  BY <1>2 DEF Got, Done
<1>3. CASE err = "canceled"
  BY <1>3, CfgType DEF Got, Done
<1>4. CASE err \in {"none", "deadline"}
  <2>1. IF cfg.follow THEN pc' = "loop" /\ UNCHANGED result
        ELSE IF cfg.driver = "cli" /\ err = "none" /\ received = 0 /\ cfg.count > 0
             THEN Done("none")
             ELSE Done("ok")
    BY <1>4 DEF Got
  <2>2. QED
    BY <1>1, <1>4, <2>1, CfgType DEF Done
<1>5. QED
  BY <1>2, <1>3, <1>4

(* What becomes of the message m that the loop shows: it is skipped, shown, *)
(* or the command fails.                                                    *)
LEMMA ShowEffect ==
    ASSUME TypeOK, NEW m \in Messages, Show(m), result # "error"
    PROVE  /\ pc' \in {"loop", "done"} /\ result' \in {"ok", "none", "error"}
           /\ result' = "error" => pc' = "done"
           /\ omitted' \in 0..cfg.omit /\ omitted <= omitted'
           /\ received' \in 0..MaxCount /\ faults' \in 0..MaxFaults
           /\ seen' \in [Messages -> 0..2]
           /\ \A n \in Messages \ {m} : seen'[n] = seen[n]
           /\ seen'[m] = seen[m] \/ (seen'[m] > 0 /\ (seen[m] = 0 => seen'[m] = 1))
           /\ unwritten \subseteq unwritten' /\ unwritten' \subseteq Messages
           /\ \/ omitted' = omitted + 1 /\ result' = result
              \/ seen'[m] > 0 /\ result' = result
              \/ m \in unwritten' /\ result' = result
              \/ result' = "error"
<1>0. /\ omitted \in 0..cfg.omit /\ received \in 0..MaxCount /\ faults \in 0..MaxFaults
      /\ seen \in [Messages -> 0..2] /\ cfg.omit \in Nat /\ MaxCount \in Nat /\ MaxFaults \in Nat
  <2>1. /\ omitted \in 0..cfg.omit /\ received \in 0..MaxCount /\ faults \in 0..MaxFaults
        /\ seen \in [Messages -> 0..2]
    BY DEF TypeOK
  <2>2. cfg.omit \in Nat /\ MaxCount \in Nat /\ MaxFaults \in Nat
    BY CfgType, ConsumeAssumption
  <2>3. QED
    BY <2>1, <2>2
<1>01. unwritten \subseteq Messages /\ result \in {"ok", "none"}
  BY Ranges DEF TypeOK
<1>1. CASE Skip
  BY <1>0, <1>01, <1>1 DEF Skip
<1>2. CASE Write(m)
  <2>1. received' \in 0..MaxCount
    BY <1>0, <1>2 DEF Write
  <2>2. CASE seen' = [seen EXCEPT ![m] = IF @ < 2 THEN @ + 1 ELSE 2] /\ UNCHANGED unwritten
    <3>1. seen'[m] = (IF seen[m] < 2 THEN seen[m] + 1 ELSE 2) /\ seen[m] \in 0..2
      BY <1>0, <2>2
    <3>2. seen' \in [Messages -> 0..2] /\ \A n \in Messages \ {m} : seen'[n] = seen[n]
      BY <1>0, <2>2, <3>1
    <3>3. QED
      BY <1>0, <1>01, <1>2, <2>1, <2>2, <3>1, <3>2 DEF Write
  <2>3. CASE unwritten' = unwritten \cup {m} /\ UNCHANGED seen
    BY <1>0, <1>01, <1>2, <2>1, <2>3 DEF Write
  <2>4. QED
    BY <1>2, <2>2, <2>3 DEF Write
<1>3. CASE WriteFails
  BY <1>0, <1>01, <1>3 DEF WriteFails, Done, output
<1>4. QED
  BY <1>1, <1>2, <1>3 DEF Show

----------------------------------------------------------------------------
(* The initial states satisfy the invariant. *)
LEMMA InitIInv == Init => IInv
<1> SUFFICES ASSUME Init PROVE IInv
  OBVIOUS
<1>0. /\ broker \in Brokers /\ cfg \in Config(broker)
      /\ sent \in 0..MaxMessages /\ ready = 1..sent
      /\ away = {} /\ gone = {} /\ doubt = {} /\ again = {} /\ faults = 0
      /\ pc = "open" /\ mode = "none" /\ view = {} /\ cursor = None /\ held = None
      /\ ctx = "live" /\ omitted = 0 /\ received = 0 /\ result = "none"
      /\ seen = [m \in Messages |-> 0] /\ unwritten = {}
      /\ MaxFaults \in Nat /\ MaxCount \in Nat
  BY ConsumeAssumption DEF Init
<1>1. TypeOK
  <2>1. cfg.omit \in 0..1
    BY <1>0 DEF Config
  <2>2. omitted \in 0..cfg.omit /\ received \in 0..MaxCount /\ faults \in 0..MaxFaults
    BY <1>0, <2>1
  <2>3. /\ seen \in [Messages -> 0..2]
        /\ \A S \in {ready, away, gone, doubt, again} : S \subseteq 1..sent
    BY <1>0
  <2>4. QED
    BY <1>0, <2>2, <2>3 DEF TypeOK
<1>2. \A m \in Messages : seen[m] = 0
  BY <1>0
<1>3. ModeInv /\ HeldInv /\ BrowseInv /\ DoubtInv
  BY <1>0, <1>2 DEF ModeInv, HeldInv, BrowseInv, DoubtInv
<1>4. FreshInv /\ ShownOnce
  <2>1. ready \subseteq Messages
    BY <1>0, ConsumeAssumption
  <2>2. \A m \in Messages : Unshown(m) /\ seen[m] <= 1 /\ ~(seen[m] > 0)
    BY <1>2 DEF Unshown
  <2>3. FreshInv
    BY <1>0, <2>1, <2>2 DEF FreshInv
  <2>4. ShownOnce
    BY <2>2 DEF ShownOnce
  <2>5. QED
    BY <2>3, <2>4
<1>5. LossInv
  <2>1. Silent \ (doubt \cup unwritten) = {}
    BY <1>0 DEF Silent
  <2>2. Cardinality(Silent \ (doubt \cup unwritten)) = 0
    BY <2>1, FS_EmptySet
  <2>3. QED
    BY <1>0, <2>2 DEF LossInv
<1>6. QED
  BY <1>1, <1>3, <1>4, <1>5 DEF IInv

----------------------------------------------------------------------------
(* The count of what was lost, for every step: what is removed in silence   *)
(* is omitted, cut off, not written, or the command fails.                  *)
LEMMA LossStep ==
    ASSUME TypeOK, LossInv, broker # "mqtt", broker' = broker, result # "error",
           omitted' \in Nat, omitted <= omitted', doubt \subseteq doubt', unwritten \subseteq unwritten',
           \A n \in Messages : seen'[n] = 0 => seen[n] = 0,
           NEW x, gone' \subseteq gone \cup {x},
           \/ gone' \subseteq gone \/ x \in doubt' \/ x \in unwritten' \/ seen'[x] # 0
           \/ omitted' = omitted + 1 \/ result' = "error"
    PROVE  LossInv'
<1> DEFINE S == Silent \ (doubt \cup unwritten)
           T == {m \in gone' : seen'[m] = 0} \ (doubt' \cup unwritten')
<1>0. gone \subseteq 1..sent /\ gone \subseteq Messages /\ sent \in Nat /\ omitted \in Nat
  BY Ranges
<1>1. IsFiniteSet(S)
  <2>1. IsFiniteSet(1..sent)
    BY <1>0, FS_Interval
  <2>2. S \subseteq 1..sent
    BY <1>0 DEF Silent
  <2>3. QED
    BY <2>1, <2>2, FS_Subset
<1>2. T \subseteq S \cup {x}
  BY <1>0 DEF Silent
<1>3. \/ T \subseteq S
      \/ omitted' = omitted + 1 \/ result' = "error"
  BY <1>0 DEF Silent
<1>4. Cardinality(S) <= omitted
  BY <1>0 DEF LossInv
<1>5. T = (Silent \ (doubt \cup unwritten))'
  BY DEF Silent
<1> HIDE DEF S, T
<1>6. /\ Cardinality(T) \in Nat /\ Cardinality(S) \in Nat
      /\ Cardinality(T) <= Cardinality(S) + 1
      /\ T \subseteq S => Cardinality(T) <= Cardinality(S)
  BY <1>1, <1>2, OneMore
<1>7. Cardinality(T) <= omitted' + (IF result' = "error" THEN 1 ELSE 0)
  BY <1>0, <1>3, <1>4, <1>6
<1>8. QED
  BY <1>5, <1>7 DEF LossInv

----------------------------------------------------------------------------
(* Steps that move no message. *)

Places == <<ready, away, gone, doubt, again>>

(* What the flags say is the same after a step. *)
LEMMA SameFlags ==
    ASSUME broker' = broker, cfg' = cfg
    PROVE  /\ \A m : Matches(m)' <=> Matches(m)
           /\ Browses(broker)' <=> Browses(broker)
           /\ Config(broker)' = Config(broker)
BY DEF Matches, Browses, Config

(* The loop's own steps, and answers that bring nothing. *)
LEMMA TalkKeeps ==
    ASSUME IInv, broker' = broker, cfg' = cfg, sent' = sent, UNCHANGED Places,
           UNCHANGED browser, held' = held, UNCHANGED output,
           ctx' \in {"live", "canceled", "deadline"}, faults' \in 0..MaxFaults,
           pc \in {"loop", "call"}, pc' \in {"loop", "call", "done"},
           result' \in {"ok", "none", "error"}, result' = "error" => pc' = "done"
    PROVE  IInv'
<1> USE DEF IInv
<1>0. /\ UNCHANGED <<ready, away, gone, doubt, again, mode, view, cursor, omitted, received, seen,
                    unwritten>>
      /\ result # "error" /\ held = None
  BY DEF Places, browser, output, ModeInv, HeldInv
<1>1. TypeOK'
  BY <1>0, SameFlags DEF TypeOK
<1>2. ModeInv' /\ HeldInv' /\ BrowseInv'
  BY <1>0, SameFlags DEF ModeInv, HeldInv, BrowseInv
<1>3. FreshInv' /\ ShownOnce'
  BY <1>0, SameFlags DEF FreshInv, Unshown, ShownOnce
<1>4. DoubtInv'
  BY <1>0 DEF DoubtInv
<1>5. LossInv'
  BY <1>0, LossStep, Ranges DEF LossInv
<1>6. QED
  BY <1>1, <1>2, <1>3, <1>4, <1>5

(* The loop, and every call that ends without a message. *)
LEMMA QuietKeeps ==
    ASSUME IInv, \/ LoopHead \/ BrowseEnd \/ BrowseCut \/ BrowseBreaks
                 \/ CtxEndsCall \/ TimesOut \/ CallBreaks
    PROVE  IInv'
<1>0. /\ ctx \in {"live", "canceled", "deadline"} /\ faults \in 0..MaxFaults
      /\ result \in {"ok", "none", "error"} /\ MaxFaults \in Nat
      /\ pc # "done" => result # "error"
  BY ConsumeAssumption DEF IInv, TypeOK, ModeInv
<1>1. /\ UNCHANGED <<broker, cfg, sent, held, ctx>>
      /\ UNCHANGED Places /\ UNCHANGED browser /\ UNCHANGED output
      /\ pc \in {"loop", "call"}
  BY DEF LoopHead, BrowseEnd, BrowseCut, BrowseBreaks, CtxEndsCall, TimesOut, CallBreaks,
     Calling, request, removal, Places
<1>2. faults' \in 0..MaxFaults
  BY <1>0 DEF LoopHead, BrowseEnd, BrowseCut, BrowseBreaks, CtxEndsCall, TimesOut, CallBreaks
<1>3. CASE LoopHead
  <2>1. /\ pc' \in {"loop", "call", "done"} /\ result' \in {"ok", "none", "error"}
        /\ result' = "error" => pc' = "done"
    BY <1>0, <1>1, <1>3 DEF LoopHead, Done
  <2>2. QED
    BY <1>0, <1>1, <1>2, <2>1, TalkKeeps
<1>4. CASE \E err \in {"error", "canceled", "none", "deadline"} : Got(err)
  <2>1. /\ pc' \in {"loop", "call", "done"} /\ result' \in {"ok", "none", "error"}
        /\ result' = "error" => pc' = "done"
    BY <1>0, <1>1, <1>4, GotEffect DEF IInv
  <2>2. QED
    BY <1>0, <1>1, <1>2, <2>1, TalkKeeps
<1>5. ctx # "live" => ctx \in {"canceled", "deadline"}
  BY <1>0
<1>6. CtxEndsCall => CtxError \in {"canceled", "none", "deadline"}
  BY <1>5 DEF CtxEndsCall, CtxError
<1>7. QED
  BY <1>3, <1>4, <1>5, <1>6
     DEF BrowseEnd, BrowseCut, BrowseBreaks, CtxEndsCall, TimesOut, CallBreaks

(* The command opens its queue. *)
LEMMA OpenKeeps == IInv /\ Open => IInv'
<1> SUFFICES ASSUME IInv, Open PROVE IInv'
  OBVIOUS
<1> USE DEF IInv
<1>0. /\ UNCHANGED <<broker, cfg, sent, ready, away, gone, doubt, again, cursor, held, ctx,
                     omitted, received, seen, unwritten>>
      /\ pc = "open" /\ mode = "none" /\ held = None /\ result # "error"
      /\ result \in {"ok", "none", "error"} /\ MaxFaults \in Nat /\ faults \in 0..MaxFaults
      /\ \A m \in Messages : seen[m] = 0
  BY ConsumeAssumption DEF Open, request, removal, output, ModeInv, HeldInv, TypeOK
<1>1. \/ /\ ~cfg.ack /\ Browses(broker)
         /\ mode' = "browse" /\ view' = ViewOf(broker) /\ pc' = "loop" /\ UNCHANGED <<faults, result>>
      \/ /\ ~cfg.ack /\ broker = "rabbitmq" /\ faults < MaxFaults /\ faults' = faults + 1
         /\ mode' = "receive" /\ pc' = "loop" /\ UNCHANGED <<view, result>>
      \/ /\ faults < MaxFaults /\ faults' = faults + 1
         /\ pc' = "done" /\ result' = "error" /\ UNCHANGED <<mode, view>>
      \/ /\ cfg.ack \/ ~Browses(broker)
         /\ mode' = "receive" /\ pc' = "loop" /\ UNCHANGED <<view, faults, result>>
  BY DEF Open, Browse, BrowseFails, Done
<1>2. /\ pc' \in {"loop", "done"} /\ mode' \in {"none", "browse", "receive"}
      /\ result' \in {"ok", "none", "error"} /\ (result' = "error" => pc' = "done")
      /\ faults' \in 0..MaxFaults
  BY <1>0, <1>1
<1>3. view' \subseteq Messages
  <2>1. ViewOf(broker) \subseteq Messages
    BY Ranges DEF ViewOf
  <2>2. QED
    BY <1>1, <2>1 DEF TypeOK
<1>4. TypeOK'
  BY <1>0, <1>2, <1>3, SameFlags DEF TypeOK
<1>5. ModeInv' /\ HeldInv' /\ BrowseInv'
  BY <1>0, <1>1, <1>2, SameFlags DEF ModeInv, HeldInv, BrowseInv
<1>6. FreshInv'
  BY <1>0 DEF FreshInv, Unshown
<1>7. ShownOnce'
  BY <1>0 DEF ShownOnce
<1>8. DoubtInv'
  BY <1>0 DEF DoubtInv
<1>9. LossInv'
  <2>1. omitted' \in Nat /\ omitted <= omitted'
    BY <1>0, Ranges
  <2>2. gone' \subseteq gone \cup {None} /\ gone' \subseteq gone /\ doubt \subseteq doubt'
    BY <1>0
  <2>3. CASE broker # "mqtt"
    BY <1>0, <2>1, <2>2, <2>3, LossStep
  <2>4. QED
    BY <1>0, <2>3 DEF LossInv
<1>10. QED
  BY <1>4, <1>5, <1>6, <1>7, <1>8, <1>9

(* A browser shows what is ahead of its cursor. *)
LEMMA BrowseKeeps == IInv /\ BrowseNext => IInv'
<1> SUFFICES ASSUME IInv, BrowseNext PROVE IInv'
  OBVIOUS
<1> USE DEF IInv
<1> DEFINE m == Min(Ahead)
<1>0. /\ UNCHANGED <<broker, cfg, sent, ready, away, gone, doubt, again, mode, view, held, ctx>>
      /\ pc = "call" /\ mode = "browse" /\ held = None /\ result # "error"
      /\ Ahead # {} /\ cursor' = m /\ Show(m) /\ ~cfg.ack /\ Browses(broker)
  BY DEF BrowseNext, Calling, request, removal, ModeInv, HeldInv
<1>1. m \in Ahead
  <2>1. Ahead \subseteq Nat
    <3>1. view \subseteq Nat
      BY DEF TypeOK
    <3>2. QED
      BY <3>1 DEF Ahead
  <2>2. QED
    BY <1>0, <2>1, LeastNumber
<1> HIDE DEF m
<1>2. /\ m \in Messages /\ m > cursor /\ m \in Nat /\ cursor \in Nat /\ seen \in [Messages -> 0..2]
      /\ broker = "artemis" => Matches(m)
  BY <1>1, ConsumeAssumption, Ranges DEF Ahead, TypeOK
<1>3. seen[m] = 0
  <2>1. seen[m] \in 0..2 /\ ~(m <= cursor)
    BY <1>2
  <2>2. QED
    BY <1>0, <1>2, <2>1 DEF BrowseInv
<1>4. broker # "ibmmq" => Matches(m)
  BY <1>0, <1>2, CfgType DEF Browses, Matches, Selects, AmqpBrokers
<1>5. /\ pc' \in {"loop", "done"} /\ result' \in {"ok", "none", "error"}
      /\ result' = "error" => pc' = "done"
      /\ omitted' \in 0..cfg.omit /\ omitted <= omitted'
      /\ received' \in 0..MaxCount /\ faults' \in 0..MaxFaults
      /\ seen' \in [Messages -> 0..2]
      /\ unwritten \subseteq unwritten' /\ unwritten' \subseteq Messages
      /\ \A n \in Messages \ {m} : seen'[n] = seen[n]
      /\ seen'[m] \in {0, 1}
  BY <1>0, <1>2, <1>3, ShowEffect
<1>6. TypeOK'
  BY <1>0, <1>2, <1>5, SameFlags DEF TypeOK
<1>7. ModeInv' /\ HeldInv'
  BY <1>0, <1>5, SameFlags DEF ModeInv, HeldInv
<1>8. BrowseInv'
  <2> SUFFICES ASSUME NEW n \in Messages PROVE seen'[n] <= 1 /\ (seen'[n] > 0 => n <= m)
    BY <1>0 DEF BrowseInv
  <2>1. seen[n] \in 0..2 /\ seen[n] <= 1 /\ (seen[n] > 0 => n <= cursor) /\ n \in Nat
    BY <1>0, <1>2 DEF BrowseInv
  <2>2. CASE n = m
    BY <1>2, <1>5, <2>2
  <2>3. CASE n # m
    BY <1>2, <1>5, <2>1, <2>3
  <2>4. QED
    BY <2>2, <2>3
<1>9. FreshInv'
  BY <1>0 DEF FreshInv
<1>10. ShownOnce'
  <2> SUFFICES ASSUME NEW n \in Messages
               PROVE  seen'[n] <= 1 /\ (seen'[n] > 0 /\ broker # "ibmmq" => Matches(n))
    BY <1>0, SameFlags DEF ShownOnce
  <2>1. seen'[n] <= 1
    BY <1>0, <1>8 DEF BrowseInv
  <2>2. CASE n = m
    BY <1>4, <2>1, <2>2
  <2>3. CASE n # m
    BY <1>0, <1>5, <2>1, <2>3 DEF ShownOnce
  <2>4. QED
    BY <2>2, <2>3
<1>11. DoubtInv'
  BY <1>0 DEF DoubtInv
<1>12. LossInv'
  <2>1. gone' \subseteq gone \cup {m} /\ gone' \subseteq gone /\ doubt \subseteq doubt'
    BY <1>0
  <2>2. \A n \in Messages : seen'[n] = 0 => seen[n] = 0
    BY <1>3, <1>5
  <2>3. omitted' \in Nat
    BY <1>5, CfgType
  <2>4. CASE broker # "mqtt"
    BY <1>0, <1>5, <2>1, <2>2, <2>3, <2>4, LossStep
  <2>5. QED
    BY <1>0, <2>4 DEF LossInv
<1>13. QED
  BY <1>6, <1>7, <1>8, <1>9, <1>10, <1>11, <1>12

----------------------------------------------------------------------------
(* Receiving. *)

(* A message that is shown by a receive is one the command wanted, and one  *)
(* it has not shown, unless it came once more.                              *)
LEMMA ShowKeepsOnce ==
    ASSUME TypeOK, ShownOnce, mode = "receive", mode' = mode, broker' = broker, cfg' = cfg,
           result # "error", NEW m \in Messages, Show(m), Matches(m),
           cfg.ack => Unshown(m) \/ m \in again', again \subseteq again'
    PROVE  ShownOnce'
<1> SUFFICES ASSUME NEW n \in Messages
             PROVE  /\ cfg.ack => seen'[n] <= 1 \/ n \in again'
                    /\ seen'[n] > 0 => Matches(n)
  BY SameFlags DEF ShownOnce
<1>1. cfg.ack => seen[n] <= 1 \/ n \in again
  BY DEF ShownOnce
<1>2. seen[n] > 0 => Matches(n)
  BY DEF ShownOnce
<1>3. CASE n = m
  BY <1>3, <1>1, ShowEffect DEF Unshown
<1>4. CASE n # m
  BY <1>1, <1>2, <1>4, ShowEffect
<1>5. QED
  BY <1>3, <1>4

(* What the queue has for the command. *)
LEMMA WaitingFor ==
    ASSUME IInv, NEW m \in Waiting
    PROVE  /\ m \in ready /\ m \in Messages /\ m \in 1..sent /\ m # None /\ Matches(m)
           /\ cfg.ack => Unshown(m)
BY Ranges DEF IInv, Waiting, FreshInv

(* Where there is something, the first of it is there. *)
LEMMA FirstWaiting ==
    ASSUME IInv, Waiting # {}
    PROVE  Min(Waiting) \in Waiting
<1>1. Waiting \subseteq Nat
  BY WaitingFor
<1>2. QED
  BY <1>1, LeastNumber

(* A message is taken from the queue, to be settled. *)
LEMMA TakeKeeps == IInv /\ Take => IInv'
<1> SUFFICES ASSUME IInv, Take PROVE IInv'
  OBVIOUS
<1> USE DEF IInv
<1>1. PICK m \in Waiting : held' = m /\ ready' = ready \ {m}
  BY DEF Take, Next1
<1>2. /\ UNCHANGED <<broker, cfg, sent, away, gone, doubt, again, faults, mode, view, cursor, ctx,
                     omitted, received, seen, unwritten, result>>
      /\ pc = "call" /\ pc' = "settle" /\ mode = "receive" /\ broker \notin {"ibmmq", "mqtt"}
      /\ result # "error"
  BY DEF Take, Calling, request, removal, browser, output, ModeInv
<1>3. /\ m \in ready /\ m \in Messages /\ m \in 1..sent /\ m # None /\ Matches(m)
      /\ cfg.ack => Unshown(m)
  BY <1>1, WaitingFor
<1>4. TypeOK'
  <2>1. \A S \in {ready, away, gone, doubt, again}' : S \subseteq 1..sent
    BY <1>1, <1>2 DEF TypeOK
  <2>2. QED
    BY <1>1, <1>2, <1>3, <2>1, SameFlags DEF TypeOK
<1>5. ModeInv' /\ BrowseInv'
  BY <1>2, SameFlags DEF ModeInv, BrowseInv
<1>6. HeldInv'
  BY <1>1, <1>2, <1>3, SameFlags DEF HeldInv
<1>7. FreshInv' /\ ShownOnce'
  BY <1>1, <1>2, <1>3, SameFlags DEF FreshInv, Unshown, ShownOnce
<1>8. DoubtInv'
  BY <1>2 DEF DoubtInv
<1>9. LossInv'
  <2>1. omitted' \in Nat /\ omitted <= omitted'
    BY <1>2, Ranges
  <2>2. gone' \subseteq gone \cup {m} /\ gone' \subseteq gone /\ doubt \subseteq doubt'
    BY <1>2
  <2>3. QED
    BY <1>2, <2>1, <2>2, LossStep
<1>10. QED
  BY <1>4, <1>5, <1>6, <1>7, <1>8, <1>9

(* IBM MQ removes with the get. *)
LEMMA GetKeeps == IInv /\ GetIbmMq => IInv'
<1> SUFFICES ASSUME IInv, GetIbmMq PROVE IInv'
  OBVIOUS
<1> USE DEF IInv
<1> DEFINE m == Min(Waiting)
<1>0. /\ UNCHANGED <<broker, cfg, sent, away, doubt, again, mode, view, cursor, held, ctx>>
      /\ ready' = ready \ {m} /\ gone' = gone \cup {m}
      /\ Waiting # {} /\ pc = "call" /\ mode = "receive" /\ broker = "ibmmq"
      /\ result # "error" /\ held = None /\ away = {}
      /\ \/ Show(m)
         \/ faults < MaxFaults /\ faults' = faults + 1 /\ Got("error") /\ UNCHANGED output
  BY DEF GetIbmMq, Calling, request, browser, ModeInv, HeldInv
<1>1. m \in Waiting
  BY <1>0, FirstWaiting
<1> HIDE DEF m
<1>2. /\ m \in ready /\ m \in Messages /\ m \in 1..sent /\ m # None /\ Matches(m)
      /\ cfg.ack => Unshown(m)
  BY <1>1, WaitingFor
<1>3. cfg.ack
  BY <1>0 DEF ModeInv, Browses
<1>4. /\ pc' \in {"loop", "done"} /\ result' \in {"ok", "none", "error"}
      /\ result' = "error" => pc' = "done"
      /\ omitted' \in 0..cfg.omit /\ omitted <= omitted'
      /\ received' \in 0..MaxCount /\ faults' \in 0..MaxFaults
      /\ seen' \in [Messages -> 0..2]
      /\ unwritten \subseteq unwritten' /\ unwritten' \subseteq Messages
      /\ \A n \in Messages \ {m} : seen'[n] = seen[n]
      /\ seen'[m] = 0 => seen[m] = 0
      /\ seen'[m] > 0 \/ m \in unwritten' \/ omitted' = omitted + 1 \/ result' = "error"
  <2>1. CASE Show(m)
    BY <1>0, <1>2, <2>1, ShowEffect DEF TypeOK
  <2>2. CASE faults < MaxFaults /\ faults' = faults + 1 /\ Got("error") /\ UNCHANGED output
    <3>1. pc' = "done" /\ result' = "error"
      BY <2>2 DEF Got, Done
    <3>2. omitted \in Nat /\ MaxFaults \in Nat /\ faults \in 0..MaxFaults
      BY Ranges DEF TypeOK
    <3>3. QED
      BY <2>2, <3>1, <3>2 DEF output, TypeOK
  <2>3. QED
    BY <1>0, <2>1, <2>2
<1>5. TypeOK'
  <2>1. \A S \in {ready, away, gone, doubt, again}' : S \subseteq 1..sent
    BY <1>0, <1>2 DEF TypeOK
  <2>2. QED
    BY <1>0, <1>4, <2>1, SameFlags DEF TypeOK
<1>6. ModeInv' /\ BrowseInv'
  BY <1>0, <1>4, SameFlags DEF ModeInv, BrowseInv
<1>7. HeldInv'
  BY <1>0, <1>3, <1>4 DEF HeldInv
<1>8. FreshInv'
  <2>1. \A n \in ready' : n # m /\ n \in Messages /\ Unshown(n)
    BY <1>0, <1>3, Ranges DEF FreshInv
  <2>2. \A n \in Messages : seen'[n] > 0 => n <= sent
    BY <1>2, <1>3, <1>4 DEF FreshInv
  <2>3. QED
    BY <1>0, <1>4, <2>1, <2>2 DEF FreshInv, Unshown
<1>9. ShownOnce'
  <2>1. CASE Show(m)
    BY <1>0, <1>2, <2>1, ShowKeepsOnce
  <2>2. CASE UNCHANGED output
    BY <1>0, <2>2, SameFlags DEF output, ShownOnce
  <2>3. QED
    BY <1>0, <2>1, <2>2
<1>10. DoubtInv'
  BY <1>0 DEF DoubtInv
<1>11. LossInv'
  <2>1. omitted' \in Nat
    BY <1>4, CfgType
  <2>2. gone' \subseteq gone \cup {m} /\ doubt \subseteq doubt' /\ broker # "mqtt"
    BY <1>0
  <2>3. \A n \in Messages : seen'[n] = 0 => seen[n] = 0
    BY <1>4
  <2>4. seen'[m] # 0 \/ m \in unwritten' \/ omitted' = omitted + 1 \/ result' = "error"
    BY <1>4
  <2>5. QED
    BY <1>0, <1>4, <2>1, <2>2, <2>3, <2>4, LossStep
<1>12. QED
  BY <1>5, <1>6, <1>7, <1>8, <1>9, <1>10, <1>11

----------------------------------------------------------------------------
(* Settling. *)

(* What a settlement does to the message that it answers with. *)
Outcome ==
    \/ cfg.ack /\ Removed
    \/ ~cfg.ack /\ Back
    \/ cfg.ack /\ Redelivered
    \/ /\ broker = "redis" \/ (broker = "pulsar" /\ ~cfg.ack)
       /\ away' = away \cup {held} /\ UNCHANGED <<ready, gone, again>>

(* A settlement succeeds, or seems to, and the message is shown; or it      *)
(* fails.  The brokers that cannot give a message back are asked for one    *)
(* only to remove it.                                                       *)
LEMMA SettleEffect ==
    ASSUME IInv, Settle
    PROVE  /\ UNCHANGED <<broker, cfg, sent, mode, view, cursor, ctx>>
           /\ pc = "settle" /\ held' = None
           /\ \/ Show(held) /\ UNCHANGED doubt /\ Outcome
              \/ \E err \in {"error", "canceled", "none", "deadline"} : Unsettled(err)
<1>1. /\ UNCHANGED <<broker, cfg, sent, mode, view, cursor, ctx>>
      /\ pc = "settle" /\ held' = None
  BY DEF Settle, SettleAmqp, SettleNats, SettleRedis, SettleSqs, SettleAzure, SettleGcp,
     SettlePulsar, Settling, Kept, request, browser
<1>2. held # None /\ mode = "receive"
  BY <1>1 DEF IInv, HeldInv
<1>3. broker \in {"nats", "redis", "azure"} => cfg.ack
  BY <1>2 DEF IInv, ModeInv, Browses
<1>4. ctx # "live" => ctx \in {"canceled", "deadline"} /\ CtxError \in {"canceled", "none", "deadline"}
  BY DEF IInv, TypeOK, CtxError
<1> DEFINE Goal == \/ Show(held) /\ UNCHANGED doubt /\ Outcome
                   \/ \E err \in {"error", "canceled", "none", "deadline"} : Unsettled(err)
<1>5. CASE SettleAmqp
  <2>1. Unsettled(IF broker = "rabbitmq" THEN "none" ELSE "deadline") => Goal
    OBVIOUS
  <2>2. QED
    BY <1>1, <1>4, <1>5, <2>1 DEF SettleAmqp, Outcome
<1>6. CASE SettleNats \/ SettleRedis
  BY <1>1, <1>3, <1>6 DEF SettleNats, SettleRedis, Outcome
<1>7. CASE SettleSqs \/ SettleAzure
  BY <1>1, <1>3, <1>4, <1>7 DEF SettleSqs, SettleAzure, Outcome
<1>8. CASE SettleGcp \/ SettlePulsar
  BY <1>1, <1>8 DEF SettleGcp, SettlePulsar, Outcome
<1>9. QED
  BY <1>1, <1>5, <1>6, <1>7, <1>8 DEF Settle

(* A message is settled and shown. *)
LEMMA SettledKeeps ==
    ASSUME IInv, UNCHANGED <<broker, cfg, sent, mode, view, cursor, ctx>>,
           pc = "settle", held' = None, Show(held), UNCHANGED doubt, Outcome
    PROVE  IInv'
<1> USE DEF IInv
<1>1. /\ held # None /\ held \in Messages /\ held \in 1..sent
      /\ mode = "receive" /\ broker \notin {"ibmmq", "mqtt"} /\ Matches(held)
      /\ held \notin ready \cup away /\ away \cap ready = {} /\ result # "error"
      /\ cfg.ack => Unshown(held)
  BY Ranges DEF HeldInv, ModeInv, FreshInv, TypeOK
<1>2. /\ pc' \in {"loop", "done"} /\ result' \in {"ok", "none", "error"}
      /\ result' = "error" => pc' = "done"
      /\ omitted' \in 0..cfg.omit /\ omitted <= omitted'
      /\ received' \in 0..MaxCount /\ faults' \in 0..MaxFaults
      /\ seen' \in [Messages -> 0..2]
      /\ unwritten \subseteq unwritten' /\ unwritten' \subseteq Messages
      /\ \A n \in Messages \ {held} : seen'[n] = seen[n]
      /\ seen'[held] = 0 => seen[held] = 0
      /\ seen'[held] > 0 \/ held \in unwritten' \/ omitted' = omitted + 1 \/ result' = "error"
  <2>1. seen[held] \in 0..2
    BY <1>1 DEF TypeOK
  <2>2. QED
    BY <1>1, <2>1, ShowEffect
<1>3. /\ ready' \subseteq ready \cup {held} /\ away' \subseteq away \cup {held}
      /\ gone' \subseteq gone \cup {held} /\ again \subseteq again'
      /\ again' \subseteq again \cup {held}
      /\ cfg.ack => held \notin ready' \/ held \in again'
      /\ ~cfg.ack => gone' = gone
      /\ away' \cap ready' = {}
      /\ away' # away => broker = "redis" \/ (broker = "pulsar" /\ ~cfg.ack)
  <2>1. cfg.ack \in BOOLEAN
    BY CfgType
  <2>2. CASE cfg.ack /\ Removed
    BY <1>1, <2>2 DEF Removed
  <2>3. CASE ~cfg.ack /\ Back
    BY <1>1, <2>3 DEF Back
  <2>4. CASE cfg.ack /\ Redelivered
    BY <1>1, <2>4 DEF Redelivered
  <2>5. CASE /\ broker = "redis" \/ (broker = "pulsar" /\ ~cfg.ack)
             /\ away' = away \cup {held} /\ UNCHANGED <<ready, gone, again>>
    BY <1>1, <2>5
  <2>6. QED
    BY <2>2, <2>3, <2>4, <2>5 DEF Outcome
<1>4. TypeOK'
  <2>1. \A S \in {ready, away, gone, doubt, again}' : S \subseteq 1..sent
    BY <1>1, <1>3 DEF TypeOK
  <2>2. QED
    BY <1>1, <1>2, <2>1, SameFlags DEF TypeOK
<1>5. ModeInv' /\ BrowseInv'
  BY <1>1, <1>2, SameFlags DEF ModeInv, BrowseInv
<1>6. HeldInv'
  BY <1>1, <1>2, <1>3, SameFlags DEF HeldInv
<1>7. FreshInv'
  <2> SUFFICES ASSUME cfg.ack
               PROVE  /\ \A n \in ready' : seen'[n] = 0 \/ n \in again'
                      /\ \A n \in Messages : seen'[n] > 0 => n <= sent
    BY <1>1 DEF FreshInv, Unshown
  <2>1. ASSUME NEW n \in ready' PROVE seen'[n] = 0 \/ n \in again'
    <3>1. CASE n = held
      BY <1>3, <3>1
    <3>2. CASE n # held
      <4>1. n \in ready /\ n \in Messages /\ Unshown(n)
        BY <1>3, <3>2, Ranges DEF FreshInv
      <4>2. QED
        BY <1>2, <1>3, <3>2, <4>1 DEF Unshown
    <3>3. QED
      BY <3>1, <3>2
  <2>2. ASSUME NEW n \in Messages, seen'[n] > 0 PROVE n <= sent
    BY <1>1, <1>2, <2>2 DEF FreshInv
  <2>3. QED
    BY <2>1, <2>2
<1>8. ShownOnce'
  BY <1>1, <1>3, ShowKeepsOnce
<1>9. DoubtInv'
  BY DEF DoubtInv
<1>10. LossInv'
  <2>1. omitted' \in Nat
    BY <1>2, CfgType
  <2>2. \A n \in Messages : seen'[n] = 0 => seen[n] = 0
    BY <1>2
  <2>3. \/ gone' \subseteq gone \/ held \in doubt' \/ held \in unwritten' \/ seen'[held] # 0
        \/ omitted' = omitted + 1 \/ result' = "error"
    BY <1>2
  <2>4. CASE broker # "mqtt"
    BY <1>1, <1>2, <1>3, <2>1, <2>2, <2>3, <2>4, LossStep
  <2>5. QED
    BY <1>1, <2>4
<1>11. QED
  BY <1>4, <1>5, <1>6, <1>7, <1>8, <1>9, <1>10

(* A settlement fails: the message may be gone, and the loop has an error.  *)
LEMMA UnsettledKeeps ==
    ASSUME IInv, UNCHANGED <<broker, cfg, sent, mode, view, cursor, ctx>>,
           pc = "settle", held' = None,
           NEW err \in {"error", "canceled", "none", "deadline"}, Unsettled(err)
    PROVE  IInv'
<1> USE DEF IInv
<1>1. /\ held # None /\ held \in Messages /\ held \in 1..sent
      /\ mode = "receive" /\ broker \notin {"ibmmq", "mqtt"} /\ Matches(held)
      /\ held \notin ready \cup away /\ away \cap ready = {} /\ result # "error"
      /\ cfg.ack => Unshown(held)
      /\ faults \in 0..MaxFaults /\ MaxFaults \in Nat
  BY Ranges DEF HeldInv, ModeInv, FreshInv, TypeOK
<1>2. /\ pc' \in {"loop", "done"} /\ result' \in {"ok", "none", "error"}
      /\ result' = "error" => pc' = "done"
      /\ err = "error" => result' = "error"
      /\ ~cfg.follow => pc' = "done"
      /\ err # "error" /\ cfg.driver = "cli" => result' # "error"
  BY <1>1, GotEffect DEF Unsettled
<1>3. /\ UNCHANGED <<omitted, received, seen, unwritten>> /\ faults' \in 0..MaxFaults
      /\ UNCHANGED <<away, again>>
      /\ \/ /\ cfg.ack /\ ready' = ready /\ gone' = gone \cup {held}
            /\ doubt' = IF err = "error" THEN doubt ELSE doubt \cup {held}
         \/ ready' = ready \cup {held} /\ gone' = gone /\ doubt' = doubt
  BY <1>1 DEF Unsettled, Fault, Removed, Back, output
<1>4. TypeOK'
  <2>1. \A S \in {ready, away, gone, doubt, again}' : S \subseteq 1..sent
    BY <1>1, <1>3 DEF TypeOK
  <2>2. QED
    BY <1>1, <1>2, <1>3, <2>1, SameFlags DEF TypeOK
<1>5. ModeInv' /\ BrowseInv'
  BY <1>1, <1>2, <1>3, SameFlags DEF ModeInv, BrowseInv
<1>6. HeldInv'
  BY <1>1, <1>2, <1>3, SameFlags DEF HeldInv
<1>7. FreshInv'
  BY <1>1, <1>3 DEF FreshInv, Unshown
<1>8. ShownOnce'
  BY <1>3, SameFlags DEF ShownOnce
<1>9. DoubtInv'
  <2> SUFFICES ASSUME ~cfg.follow
               PROVE  \/ doubt' = {}
                      \/ /\ cfg.driver = "cli" => result' # "error"
                         /\ doubt' = {held}
    BY <1>2 DEF DoubtInv
  <2>1. doubt = {}
    BY DEF DoubtInv
  <2>2. CASE err = "error"
    BY <1>3, <2>1, <2>2
  <2>3. CASE err # "error"
    BY <1>2, <1>3, <2>1, <2>3
  <2>4. QED
    BY <2>2, <2>3
<1>10. LossInv'
  <2>1. omitted' \in Nat /\ omitted <= omitted'
    BY <1>3, Ranges
  <2>2. gone' \subseteq gone \cup {held} /\ doubt \subseteq doubt' /\ unwritten' = unwritten
    BY <1>3
  <2>3. gone' \subseteq gone \/ held \in doubt' \/ result' = "error"
    BY <1>2, <1>3
  <2>4. \A n \in Messages : seen'[n] = 0 => seen[n] = 0
    BY <1>3
  <2>5. QED
    BY <1>1, <2>1, <2>2, <2>3, <2>4, LossStep
<1>11. QED
  BY <1>4, <1>5, <1>6, <1>7, <1>8, <1>9, <1>10

(* However a settlement goes. *)
LEMMA SettleKeeps == IInv /\ Settle => IInv'
BY SettleEffect, SettledKeeps, UnsettledKeeps

----------------------------------------------------------------------------
(* MQTT. *)

(* The client is handed a message that nobody has asked for. *)
LEMMA PushKeeps == IInv /\ PushMqtt => IInv'
<1> SUFFICES ASSUME IInv, PushMqtt PROVE IInv'
  OBVIOUS
<1> USE DEF IInv
<1> DEFINE m == Min(ready)
<1>1. /\ UNCHANGED <<broker, cfg, sent, doubt, again, faults, pc, mode, view, cursor, held, ctx,
                     omitted, received, seen, unwritten, result>>
      /\ broker = "mqtt" /\ cfg.ack /\ ready # {} /\ held = None
      /\ ready' = ready \ {m} /\ gone' = gone \cup {m}
      /\ away' \subseteq away \cup {m}
  BY DEF PushMqtt, request, browser, output, HeldInv
<1>2. m \in ready
  <2>1. ready \subseteq Nat
    BY Ranges
  <2>2. QED
    BY <1>1, <2>1, LeastNumber
<1> HIDE DEF m
<1>3. TypeOK'
  <2>1. \A S \in {ready, away, gone, doubt, again}' : S \subseteq 1..sent
    BY <1>1, <1>2 DEF TypeOK
  <2>2. QED
    BY <1>1, <2>1, SameFlags DEF TypeOK
<1>4. ModeInv' /\ BrowseInv' /\ ShownOnce'
  BY <1>1, SameFlags DEF ModeInv, BrowseInv, ShownOnce
<1>5. HeldInv'
  BY <1>1, <1>2 DEF HeldInv
<1>6. FreshInv'
  BY <1>1, <1>2 DEF FreshInv, Unshown
<1>7. DoubtInv' /\ LossInv'
  BY <1>1 DEF DoubtInv, LossInv
<1>8. QED
  BY <1>3, <1>4, <1>5, <1>6, <1>7

(* What the client holds is shown. *)
LEMMA ReadKeeps == IInv /\ ReadMqtt => IInv'
<1> SUFFICES ASSUME IInv, ReadMqtt PROVE IInv'
  OBVIOUS
<1> USE DEF IInv
<1> DEFINE m == Min(away)
<1>1. /\ UNCHANGED <<broker, cfg, sent, ready, gone, doubt, again, mode, view, cursor, held, ctx>>
      /\ broker = "mqtt" /\ pc = "call" /\ mode = "receive" /\ result # "error" /\ held = None
      /\ away # {} /\ away' = away \ {m} /\ Show(m)
  BY DEF ReadMqtt, Calling, request, removal, browser, ModeInv, HeldInv
<1>2. m \in away
  <2>1. away \subseteq Nat
    BY Ranges
  <2>2. QED
    BY <1>1, <2>1, LeastNumber
<1> HIDE DEF m
<1>3. /\ m \in Messages /\ m \in 1..sent /\ m \notin ready
      /\ cfg.ack => Unshown(m)
  BY <1>1, <1>2, Ranges DEF HeldInv, FreshInv
<1>4. Matches(m)
  BY <1>1, CfgType DEF Matches, Selects, AmqpBrokers
<1>5. /\ pc' \in {"loop", "done"} /\ result' \in {"ok", "none", "error"}
      /\ result' = "error" => pc' = "done"
      /\ omitted' \in 0..cfg.omit
      /\ received' \in 0..MaxCount /\ faults' \in 0..MaxFaults
      /\ seen' \in [Messages -> 0..2]
      /\ unwritten \subseteq unwritten' /\ unwritten' \subseteq Messages
      /\ \A n \in Messages \ {m} : seen'[n] = seen[n]
  BY <1>1, <1>3, ShowEffect
<1>6. TypeOK'
  <2>1. \A S \in {ready, away, gone, doubt, again}' : S \subseteq 1..sent
    BY <1>1, <1>2 DEF TypeOK
  <2>2. QED
    BY <1>1, <1>5, <2>1, SameFlags DEF TypeOK
<1>7. ModeInv' /\ BrowseInv'
  BY <1>1, <1>5, SameFlags DEF ModeInv, BrowseInv
<1>8. HeldInv'
  BY <1>1, <1>2, <1>5 DEF HeldInv
<1>9. FreshInv'
  <2>1. ready \subseteq Messages /\ away \subseteq Messages
    BY Ranges
  <2>2. QED
    BY <1>1, <1>3, <1>5, <2>1 DEF FreshInv, Unshown
<1>10. ShownOnce'
  BY <1>1, <1>3, <1>4, ShowKeepsOnce
<1>11. DoubtInv' /\ LossInv'
  BY <1>1 DEF DoubtInv, LossInv
<1>12. QED
  BY <1>6, <1>7, <1>8, <1>9, <1>10, <1>11

(* A peek is shown what is sent from now on. *)
LEMMA PeekKeeps == IInv /\ PeekMqtt => IInv'
<1> SUFFICES ASSUME IInv, PeekMqtt PROVE IInv'
  OBVIOUS
<1> USE DEF IInv
<1> DEFINE m == sent + 1
<1>1. /\ UNCHANGED <<broker, cfg, away, gone, doubt, again, mode, view, cursor, held, ctx>>
      /\ broker = "mqtt" /\ pc = "call" /\ mode = "receive" /\ result # "error" /\ held = None
      /\ ~cfg.ack /\ sent < MaxMessages
      /\ sent' = m /\ ready' = ready \cup {m} /\ Show(m)
  BY DEF PeekMqtt, Calling, request, removal, browser, ModeInv, HeldInv
<1>2. m \in Messages /\ sent \in Nat /\ m \notin away
  BY <1>1, Ranges
<1>3. 1..sent \subseteq 1..m /\ m \in 1..m /\ m \in 0..MaxMessages
  BY <1>1, <1>2
<1> HIDE DEF m
<1>4. Matches(m)
  BY <1>1, CfgType DEF Matches, Selects, AmqpBrokers
<1>5. /\ pc' \in {"loop", "done"} /\ result' \in {"ok", "none", "error"}
      /\ result' = "error" => pc' = "done"
      /\ omitted' \in 0..cfg.omit
      /\ received' \in 0..MaxCount /\ faults' \in 0..MaxFaults
      /\ seen' \in [Messages -> 0..2]
      /\ unwritten \subseteq unwritten' /\ unwritten' \subseteq Messages
  BY <1>1, <1>2, ShowEffect
<1>6. TypeOK'
  <2>1. \A S \in {ready, away, gone, doubt, again}' : S \subseteq 1..m
    BY <1>1, <1>3 DEF TypeOK
  <2>2. QED
    BY <1>1, <1>3, <1>5, <2>1, SameFlags DEF TypeOK
<1>7. ModeInv' /\ BrowseInv'
  BY <1>1, <1>5, SameFlags DEF ModeInv, BrowseInv
<1>8. HeldInv'
  BY <1>1, <1>2, <1>5 DEF HeldInv
<1>9. FreshInv'
  BY <1>1 DEF FreshInv
<1>10. ShownOnce'
  BY <1>1, <1>2, <1>4, ShowKeepsOnce
<1>11. DoubtInv' /\ LossInv'
  BY <1>1 DEF DoubtInv, LossInv
<1>12. QED
  BY <1>6, <1>7, <1>8, <1>9, <1>10, <1>11

----------------------------------------------------------------------------
(* Others. *)

(* What happens beside the command neither removes nor shows for it, and    *)
(* puts only new messages before a receive.                                 *)
LEMMA BesideKeeps ==
    ASSUME IInv, UNCHANGED <<request, removal, faults, pc, browser, held, output, result>>,
           pc # "done", ctx' \in {"live", "canceled", "deadline"},
           sent' \in 0..MaxMessages, sent <= sent',
           ready' \subseteq 1..sent', away' \subseteq away, away' \cap ready' = {},
           held # None => held \notin ready',
           cfg.ack => \A n \in ready' : n \in ready \/ seen[n] = 0
    PROVE  IInv'
<1> USE DEF IInv
<1>1. UNCHANGED <<broker, cfg, gone, doubt, again, mode, view, cursor, omitted, received, seen, unwritten>>
  BY DEF request, removal, browser, output
<1>2. TypeOK'
  <2>1. 1..sent \subseteq 1..sent'
    BY Ranges
  <2>2. \A S \in {ready, away, gone, doubt, again}' : S \subseteq 1..sent'
    BY <1>1, <2>1 DEF TypeOK
  <2>3. QED
    BY <1>1, <2>2, SameFlags DEF TypeOK
<1>3. ModeInv' /\ BrowseInv' /\ ShownOnce'
  BY <1>1, SameFlags DEF ModeInv, BrowseInv, ShownOnce
<1>4. HeldInv'
  <2>1. held \in 1..sent => held \in 1..sent'
    BY Ranges
  <2>2. QED
    BY <1>1, <2>1, SameFlags DEF HeldInv
<1>5. FreshInv'
  <2>1. \A n \in Messages : n <= sent => n <= sent'
    BY Ranges
  <2>2. QED
    BY <1>1, <2>1 DEF FreshInv, Unshown
<1>6. DoubtInv' /\ LossInv'
  BY <1>1 DEF DoubtInv, LossInv, Silent
<1>7. QED
  BY <1>2, <1>3, <1>4, <1>5, <1>6

(* Producers, other consumers, late redeliveries and the end of the context. *)
LEMMA OthersKeep == IInv /\ (NackDelay \/ Send \/ OtherConsumes \/ CtxEnds) => IInv'
<1> SUFFICES ASSUME IInv PROVE NackDelay \/ Send \/ OtherConsumes \/ CtxEnds => IInv'
  OBVIOUS
<1> USE DEF IInv
<1>0. /\ sent \in 0..MaxMessages /\ MaxMessages \in Nat /\ ready \subseteq 1..sent
      /\ away \subseteq 1..sent /\ away \cap ready = {}
      /\ ctx \in {"live", "canceled", "deadline"}
      /\ held # None => held \in 1..sent /\ held \notin ready \cup away
  BY Ranges DEF TypeOK, HeldInv
<1>1. ASSUME NackDelay PROVE IInv'
  <2>1. ~cfg.ack
    BY <1>1 DEF NackDelay, HeldInv
  <2>2. QED
    BY <1>0, <1>1, <2>1, BesideKeeps DEF NackDelay
<1>2. ASSUME Send PROVE IInv'
  <2>1. /\ sent' = sent + 1 /\ ready' = ready \cup {sent + 1} /\ sent < MaxMessages
        /\ UNCHANGED <<request, away, removal, faults, pc, browser, held, ctx, output, result>>
        /\ pc # "done"
    BY <1>2 DEF Send
  <2>2. /\ sent' \in 0..MaxMessages /\ sent <= sent' /\ ready' \subseteq 1..sent'
        /\ away' \cap ready' = {} /\ (held # None => held \notin ready')
    BY <1>0, <2>1
  <2>3. cfg.ack => seen[sent + 1] = 0
    <3>1. sent + 1 \in Messages /\ seen[sent + 1] \in 0..2
      BY <1>0, <2>1 DEF TypeOK
    <3>2. cfg.ack => ~(seen[sent + 1] > 0)
      BY <1>0, <3>1 DEF FreshInv
    <3>3. QED
      BY <3>1, <3>2
  <2>4. QED
    BY <1>0, <2>1, <2>2, <2>3, BesideKeeps
<1>3. ASSUME OtherConsumes PROVE IInv'
  <2>1. /\ ready' \subseteq ready
        /\ UNCHANGED <<request, sent, away, removal, faults, pc, browser, held, ctx, output, result>>
        /\ pc # "done"
    BY <1>3 DEF OtherConsumes
  <2>2. /\ sent' \in 0..MaxMessages /\ sent <= sent' /\ ready' \subseteq 1..sent'
        /\ away' \cap ready' = {} /\ (held # None => held \notin ready')
    BY <1>0, <2>1
  <2>3. QED
    BY <1>0, <2>1, <2>2, BesideKeeps
<1>4. ASSUME CtxEnds PROVE IInv'
  BY <1>0, <1>4, BesideKeeps DEF CtxEnds
<1>5. QED
  BY <1>1, <1>2, <1>3, <1>4

----------------------------------------------------------------------------
(* The invariant holds, and with it what the command promises. *)

(* Every step keeps the invariant. *)
LEMMA StepIInv == IInv /\ [Next]_vars => IInv'
<1>1. ASSUME IInv, UNCHANGED vars PROVE IInv'
  BY <1>1 DEF IInv, vars, TypeOK, Config, ModeInv, HeldInv, FreshInv, BrowseInv, ShownOnce,
     LossInv, DoubtInv, Silent, Unshown, Matches, Browses
<1>2. IInv /\ Command => IInv'
  BY OpenKeeps, QuietKeeps, BrowseKeeps, TakeKeeps, GetKeeps, ReadKeeps, PeekKeeps, SettleKeeps
     DEF Command
<1>3. QED
  BY <1>1, <1>2, PushKeeps, OthersKeep DEF Next

(* The invariant holds in every reachable state. *)
LEMMA Invariance == Spec => []IInv
BY InitIInv, StepIInv, PTL DEF Spec

(* What a command that is done has lost. *)
LEMMA LossAtTheEnd == IInv => LossHasCause
<1> SUFFICES ASSUME IInv PROVE LossHasCause
  OBVIOUS
<1> USE DEF IInv
<1>1. TypeOK /\ (~cfg.ack => gone = {})
  BY DEF HeldInv
<1> SUFFICES ASSUME pc = "done", broker # "mqtt"
             PROVE  /\ result # "error" => Cardinality(Lost \ (doubt \cup unwritten)) <= omitted
                    /\ cfg.driver = "cli" => Cardinality(Lost \ (doubt \cup unwritten)) <= omitted + 1
                    /\ cfg.driver = "cli" /\ ~cfg.follow => Cardinality(Lost \ unwritten) <= omitted + 1
  BY <1>1 DEF LossHasCause
<1>2. cfg.driver \in {"cli", "mcp"} /\ omitted \in Nat
  BY CfgType, Ranges
<1>3. cfg.driver = "cli" \/ result # "error" => Lost = Silent
  BY <1>2 DEF Lost, Silent
<1>4. IsFiniteSet(Silent \ (doubt \cup unwritten))
  <2>1. Silent \ (doubt \cup unwritten) \subseteq 1..sent /\ IsFiniteSet(1..sent)
    BY Ranges, FS_Interval DEF Silent
  <2>2. QED
    BY <2>1, FS_Subset
<1>5. /\ Cardinality(Silent \ (doubt \cup unwritten)) <= omitted + (IF result = "error" THEN 1 ELSE 0)
      /\ Cardinality(Silent \ (doubt \cup unwritten)) \in Nat
  BY <1>4, FS_CardinalityType DEF LossInv
<1>6. ASSUME cfg.driver = "cli", ~cfg.follow PROVE Cardinality(Silent \ unwritten) <= omitted + 1
  <2>1. CASE doubt = {}
    <3>1. Silent \ (doubt \cup unwritten) = Silent \ unwritten
      BY <2>1
    <3>2. QED
      BY <1>2, <1>5, <3>1
  <2>2. CASE doubt # {}
    <3>1. result # "error" /\ \E m \in doubt : doubt = {m}
      BY <1>6, <2>2 DEF DoubtInv
    <3>2. PICK m : doubt = {m}
      BY <3>1
    <3>3. Silent \ unwritten \subseteq (Silent \ (doubt \cup unwritten)) \cup {m}
      BY <3>2
    <3>4. /\ Cardinality(Silent \ unwritten) \in Nat
          /\ Cardinality(Silent \ unwritten) <= Cardinality(Silent \ (doubt \cup unwritten)) + 1
      BY <1>4, <3>3, OneMore
    <3>5. QED
      BY <1>2, <1>5, <3>1, <3>4
  <2>3. QED
    BY <2>1, <2>2
<1>7. QED
  BY <1>2, <1>3, <1>5, <1>6

(* A read that ends well has shown all it has removed, except what --omit   *)
(* skipped, what could not be written out and what the end of the context   *)
(* or of the call's timer cut off; one that fails has lost a single message *)
(* more.  A peek removes nothing.                                           *)
THEOREM LossAlwaysHasCause == Spec => []LossHasCause
BY Invariance, LossAtTheEnd, PTL

(* Each message is shown once at most, and only if it was asked for. *)
THEOREM ShownOnceHolds == Spec => []ShownOnce
<1>1. IInv => ShownOnce
  BY DEF IInv
<1>2. QED
  BY Invariance, <1>1, PTL

=============================================================================
