---------------------------- MODULE RelayProofs ----------------------------
(***************************************************************************)
(* Safety of the relays, on one broker and across two, for any messages,   *)
(* any number of relays and any --count: what is taken is accounted for,   *)
(* and the relays implement the contract of Custody.                       *)
(*                                                                         *)
(* The accounts of the same-broker relays are not inductive.  They rest on *)
(* who took what: a message is given up once, to one relay (OneTaker), it  *)
(* goes through that relay's hand (HandInv) and from there to one place    *)
(* (PlaceInv); and a relay's counter is the number of its own messages at  *)
(* the destination, from which the bound of --count on what a move removes *)
(* follows (CountInv).                                                     *)
(***************************************************************************)
EXTENDS MCRelay, Sequences, FiniteSetTheorems, TLAPS

Bounded(w) == Limit[w] = 0 \/ relayed[w] < Limit[w]
Done(w) == taken[w] \cap Delivered

(* A relay holds a message exactly between its poll and its send; it is one *)
(* it took, and nobody else has it.                                         *)
HandInv ==
    \A w \in Workers :
        /\ hand[w] # NoMessage <=> pc[w] \in {"got", "ready"}
        /\ hand[w] # NoMessage =>
            /\ hand[w] \in taken[w]
            /\ delivered[hand[w]] = 0
            /\ hand[w] \notin recovered \cup unsettled

(* A relay has an outcome when it has ended.                                *)
EndInv == \A w \in Workers : pc[w] = "done" <=> outcome[w] # "none"

(* What the source gave up, it gave to one relay.                           *)
OneTaker ==
    /\ \A w \in Workers : taken[w] \subseteq arrived \ queued
    /\ \A v, w \in Workers : v # w => taken[v] \cap taken[w] = {}
    /\ queued \subseteq arrived

(* Where the messages are that a relay has taken and does not hold.         *)
PlaceInv ==
    /\ arrived = queued \cup InHand \cup Delivered \cup recovered \cup unsettled
    /\ \A m \in Delivered \cup recovered \cup unsettled : \E w \in Workers : m \in taken[w]
    /\ unsettled \cap (Delivered \cup recovered) = {}
    /\ \A m \in Messages : delivered[m] <= 1
    /\ \A m \in Delivered \cap recovered :
            \E w \in Workers : m \in taken[w] /\ outcome[w] = "error"

(* The counter of a relay that has not failed, and what a move has removed  *)
(* by the place it has reached.                                             *)
Counts(w) ==
    /\ outcome[w] # "error" => relayed[w] = Cardinality(Done(w))
    /\ w \in Movers =>
        LET removed == Cardinality(taken[w])
        IN  /\ pc[w] = "loop" => removed = relayed[w] /\ (Bounded(w) \/ relayed[w] = Limit[w])
            /\ pc[w] = "poll" => removed = relayed[w] /\ Bounded(w)
            /\ pc[w] \in {"got", "ready"} => removed = relayed[w] + 1 /\ Bounded(w)
            /\ pc[w] = "done" => Limit[w] = 0 \/ removed <= Limit[w]

CountInv == \A w \in Workers : Counts(w)

IInv == TypeOK /\ EndInv /\ HandInv /\ OneTaker /\ PlaceInv /\ CountInv

USE DEF Workers, Pcs, place

----------------------------------------------------------------------------
(* The initial states satisfy the invariant. *)
LEMMA InitIInv == Init => IInv
<1> SUFFICES ASSUME Init PROVE IInv
  OBVIOUS
<1>1. TypeOK /\ EndInv /\ HandInv /\ OneTaker
  BY DEF Init, TypeOK, EndInv, HandInv, OneTaker
<1>2. InHand = {} /\ Delivered = {}
  BY RelayAssumption DEF Init, InHand, Delivered
<1>3. PlaceInv
  BY <1>2 DEF Init, PlaceInv
<1>4. CountInv
  <2>1. \A w \in Workers : Cardinality(taken[w]) = 0 /\ Cardinality(Done(w)) = 0
    BY FS_EmptySet DEF Init, Done
  <2>2. QED
    BY <2>1, RelayAssumption DEF Init, CountInv, Counts, Bounded
<1>5. QED
  BY <1>1, <1>3, <1>4 DEF IInv

(* Every step keeps the types. *)
LEMMA TypeStep == TypeOK /\ HandInv /\ [Next]_vars => TypeOK'
<1> SUFFICES ASSUME TypeOK, HandInv, [Next]_vars PROVE TypeOK'
  OBVIOUS
<1> USE DEF TypeOK, Goto, Stop
<1>1. ASSUME NEW w \in Workers, Enter(w) \/ Complete(w) \/ Transform(w) PROVE TypeOK'
  BY <1>1 DEF Enter, Complete, Transform
<1>2. ASSUME NEW w \in Workers, Take(w) PROVE TypeOK'
  BY <1>2 DEF Take, FromSource
<1>3. ASSUME NEW w \in Workers, NoTake(w) PROVE TypeOK'
  BY <1>3 DEF NoTake, AfterError
<1>4. ASSUME NEW w \in Workers, SettleLost(w) PROVE TypeOK'
  BY <1>4 DEF SettleLost, FromSource, AfterError
<1>5. ASSUME NEW w \in Workers, TransformFails(w) PROVE TypeOK'
  BY <1>5 DEF TransformFails, Recover, LetGo, HandInv
<1>6. ASSUME NEW w \in Workers, Send(w) PROVE TypeOK'
  BY <1>6 DEF Send, Deliver, LetGo, HandInv
<1>7. ASSUME NEW w \in Workers, SendFails(w) PROVE TypeOK'
  BY <1>7 DEF SendFails, Deliver, Recover, LetGo, HandInv
<1>8. ASSUME NEW w \in Workers, EndContext(w) PROVE TypeOK'
  BY <1>8 DEF EndContext
<1>9. ASSUME NEW m \in Messages, Arrive(m) PROVE TypeOK'
  BY <1>9 DEF Arrive
<1>10. CASE UNCHANGED vars
  BY <1>10 DEF vars
<1>11. QED
  BY <1>1, <1>2, <1>3, <1>4, <1>5, <1>6, <1>7, <1>8, <1>9, <1>10 DEF Next, Step, Finished

----------------------------------------------------------------------------
(* Only Take, SettleLost and Arrive touch the source, and each message is   *)
(* given up to one relay.                                                   *)
LEMMA OneTakerStep == TypeOK /\ OneTaker /\ [Next]_vars => OneTaker'
<1> SUFFICES ASSUME TypeOK, OneTaker, [Next]_vars PROVE OneTaker'
  OBVIOUS
<1>1. ASSUME NEW w \in Workers, Take(w) \/ SettleLost(w) PROVE OneTaker'
  <2>1. PICK m \in Messages : FromSource(w, m)
    BY <1>1 DEF Take, SettleLost
  <2>2. arrived' = arrived
    BY <1>1 DEF Take, SettleLost
  <2>3. QED
    BY <2>1, <2>2 DEF FromSource, OneTaker, TypeOK
<1>2. ASSUME NEW m \in Messages, Arrive(m) PROVE OneTaker'
  BY <1>2 DEF Arrive, OneTaker
<1>3. ASSUME NEW w \in Workers,
             Enter(w) \/ Complete(w) \/ NoTake(w) \/ Transform(w) \/ TransformFails(w)
               \/ Send(w) \/ SendFails(w) \/ EndContext(w)
      PROVE  UNCHANGED <<arrived, queued, taken>>
  BY <1>3 DEF Enter, Complete, NoTake, Transform, TransformFails, Send, SendFails, EndContext
<1>4. CASE UNCHANGED <<arrived, queued, taken>>
  BY <1>4 DEF OneTaker
<1>5. QED
  BY <1>1, <1>2, <1>3, <1>4 DEF Next, Step, Finished, vars

(* What a relay holds is nobody else's and is not at the source.            *)
LEMMA HandIsOwn ==
    ASSUME HandInv, OneTaker, NEW v \in Workers, NEW w \in Workers,
           hand[w] # NoMessage
    PROVE  /\ hand[w] \notin queued
           /\ hand[v] = hand[w] => v = w
           /\ v # w => hand[w] \notin taken[v]
BY DEF HandInv, OneTaker

(* A poll that gives a message puts it in the hand, a send takes it out.    *)
LEMMA TakeHand ==
    ASSUME TypeOK, NEW w \in Workers, NEW m \in Messages, hand[w] = NoMessage,
           hand' = [hand EXCEPT ![w] = m]
    PROVE  InHand' = InHand \cup {m}
BY RelayAssumption DEF InHand, TypeOK

(* What a relay lets go of is in no hand: no other relay has it. *)
LEMMA LetGoHand ==
    ASSUME TypeOK, HandInv, OneTaker, NEW w \in Workers, hand[w] # NoMessage, LetGo(w)
    PROVE  InHand' = InHand \ {hand[w]}
<1>1. \A v \in Workers : hand[v] = hand[w] => v = w
  BY HandIsOwn
<1>2. QED
  BY <1>1, RelayAssumption DEF InHand, TypeOK, LetGo

(* A delivery puts one message at the destination that was not there.       *)
LEMMA DeliverEffect ==
    ASSUME TypeOK, HandInv, NEW w \in Workers, hand[w] # NoMessage, Deliver(w)
    PROVE  /\ Delivered' = Delivered \cup {hand[w]}
           /\ \A m \in Messages : delivered'[m] = IF m = hand[w] THEN 1 ELSE delivered[m]
BY DEF TypeOK, HandInv, Deliver, Delivered

----------------------------------------------------------------------------
(* A step that changes neither the hands nor what is where leaves the hand  *)
(* of a relay as it should be.                                              *)
LEMMA HandStep == TypeOK /\ HandInv /\ OneTaker /\ PlaceInv /\ [Next]_vars => HandInv'
<1> SUFFICES ASSUME TypeOK, HandInv, OneTaker, PlaceInv, [Next]_vars PROVE HandInv'
  OBVIOUS
<1> USE DEF Goto, Stop
<1>1. ASSUME NEW w \in Workers, Enter(w) \/ Complete(w) \/ NoTake(w) \/ Transform(w)
      PROVE HandInv'
  BY <1>1 DEF Enter, Complete, NoTake, AfterError, Transform, HandInv, TypeOK
<1>2. ASSUME NEW w \in Workers, Take(w) PROVE HandInv'
  <2>1. PICK m \in Messages : FromSource(w, m) /\ hand' = [hand EXCEPT ![w] = m]
    BY <1>2 DEF Take
  <2>2. delivered[m] = 0 /\ m \notin recovered \cup unsettled
    BY <2>1 DEF FromSource, OneTaker, PlaceInv, TypeOK, Delivered
  <2>3. QED
    BY <1>2, <2>1, <2>2, RelayAssumption DEF Take, FromSource, HandInv, TypeOK
<1>3. ASSUME NEW w \in Workers, SettleLost(w) PROVE HandInv'
  <2>1. PICK m \in Messages : FromSource(w, m) /\ unsettled' = unsettled \cup {m}
    BY <1>3 DEF SettleLost
  <2>2. \A v \in Workers : hand[v] # m
    BY <2>1, HandIsOwn, RelayAssumption DEF FromSource
  <2>3. QED
    BY <1>3, <2>1, <2>2 DEF SettleLost, AfterError, FromSource, HandInv, TypeOK
<1>4. ASSUME NEW w \in Workers, TransformFails(w) \/ Send(w) \/ SendFails(w) PROVE HandInv'
  <2>1. hand[w] # NoMessage /\ hand[w] \in Messages
    BY <1>4 DEF TransformFails, Send, SendFails, HandInv, TypeOK
  <2>2. \A v \in Workers : hand[v] = hand[w] => v = w
    BY <2>1, HandIsOwn
  <2>3. /\ hand' = [hand EXCEPT ![w] = NoMessage]
        /\ recovered' \subseteq recovered \cup {hand[w]}
        /\ \A m \in Messages \ {hand[w]} : delivered'[m] = delivered[m]
        /\ UNCHANGED <<taken, unsettled>>
    BY <1>4, <2>1 DEF TransformFails, Send, SendFails, Recover, LetGo, Deliver, TypeOK
  <2>4. pc' \in {[pc EXCEPT ![w] = "loop"], [pc EXCEPT ![w] = "done"]}
    BY <1>4 DEF TransformFails, Send, SendFails
  <2>5. QED
    BY <2>1, <2>2, <2>3, <2>4 DEF HandInv, TypeOK
<1>5. ASSUME NEW m \in Messages, Arrive(m) PROVE HandInv'
  BY <1>5 DEF Arrive, HandInv
<1>6. ASSUME NEW w \in Workers, EndContext(w) PROVE HandInv'
  BY <1>6 DEF EndContext, HandInv
<1>7. CASE UNCHANGED vars
  BY <1>7 DEF vars, HandInv
<1>8. QED
  BY <1>1, <1>2, <1>3, <1>4, <1>5, <1>6, <1>7 DEF Next, Step, Finished

(* Only a step that stops a relay gives it an outcome. *)
LEMMA EndStep == TypeOK /\ EndInv /\ [Next]_vars => EndInv'
BY DEF EndInv, TypeOK, Next, Step, Finished, vars, Enter, Complete, Take, NoTake, SettleLost,
       AfterError, Transform, TransformFails, Send, SendFails, EndContext, Arrive, Goto, Stop

(* How a relay ended does not change any more. *)
LEMMA OutcomeStays ==
    ASSUME TypeOK, EndInv, [Next]_vars, NEW w \in Workers, outcome[w] # "none"
    PROVE  outcome'[w] = outcome[w]
BY DEF EndInv, TypeOK, Next, Step, Finished, vars, Enter, Complete, Take, NoTake, SettleLost,
       AfterError, Transform, TransformFails, Send, SendFails, EndContext, Arrive, Goto, Stop

(* Every message that has come is at one place after a step as before.      *)
LEMMA PlaceStep ==
    TypeOK /\ EndInv /\ HandInv /\ OneTaker /\ PlaceInv /\ [Next]_vars => PlaceInv'
<1> SUFFICES ASSUME TypeOK, EndInv, HandInv, OneTaker, PlaceInv, [Next]_vars PROVE PlaceInv'
  OBVIOUS
<1>o. \A w \in Workers : outcome[w] = "error" => outcome'[w] = "error"
  BY OutcomeStays
<1>1. CASE UNCHANGED <<arrived, place, hand, taken>>
  BY <1>o, <1>1 DEF PlaceInv, InHand, Delivered
<1>2. ASSUME NEW w \in Workers, Take(w) PROVE PlaceInv'
  <2>1. PICK m \in Messages : FromSource(w, m) /\ hand' = [hand EXCEPT ![w] = m]
    BY <1>2 DEF Take
  <2>2. InHand' = InHand \cup {m}
    BY <1>2, <2>1, TakeHand DEF Take, HandInv
  <2>3. queued' = queued \ {m} /\ m \in queued /\ UNCHANGED <<arrived, delivered, recovered, unsettled>>
    BY <1>2, <2>1 DEF Take, FromSource
  <2>4. \A v \in Workers : taken[v] \subseteq taken'[v]
    BY <2>1 DEF FromSource, TypeOK
  <2>5. Delivered' = Delivered
    BY <2>3 DEF Delivered
  <2>6. QED
    BY <1>o, <2>2, <2>3, <2>4, <2>5 DEF PlaceInv
<1>3. ASSUME NEW w \in Workers, SettleLost(w) PROVE PlaceInv'
  <2>1. PICK m \in Messages : FromSource(w, m) /\ unsettled' = unsettled \cup {m}
    BY <1>3 DEF SettleLost
  <2>2. queued' = queued \ {m} /\ m \in queued /\ UNCHANGED <<arrived, delivered, recovered, hand>>
    BY <1>3, <2>1 DEF SettleLost, FromSource
  <2>3. \A v \in Workers : taken[v] \subseteq taken'[v]
    BY <2>1 DEF FromSource, TypeOK
  <2>4. m \in taken'[w]
    BY <2>1 DEF FromSource, TypeOK
  <2>5. Delivered' = Delivered /\ InHand' = InHand
    BY <2>2 DEF Delivered, InHand
  <2>6. m \notin Delivered \cup recovered
    BY <2>2 DEF PlaceInv, OneTaker
  <2>7. QED
    BY <1>o, <2>1, <2>2, <2>3, <2>4, <2>5, <2>6 DEF PlaceInv
<1>4. ASSUME NEW w \in Workers, TransformFails(w) PROVE PlaceInv'
  <2>1. hand[w] # NoMessage /\ hand[w] \in taken[w] /\ hand[w] \notin Delivered \cup unsettled
    BY <1>4 DEF TransformFails, HandInv, Delivered
  <2>2. InHand' = InHand \ {hand[w]} /\ hand[w] \in InHand
    BY <1>4, <2>1, LetGoHand DEF TransformFails, Recover, InHand, TypeOK
  <2>3. recovered' = recovered \cup {hand[w]}
    BY <1>4 DEF TransformFails, Recover
  <2>4. Delivered' = Delivered /\ UNCHANGED <<arrived, queued, delivered, unsettled, taken>>
    BY <1>4 DEF TransformFails, Delivered
  <2>5. QED
    BY <1>o, <2>1, <2>2, <2>3, <2>4 DEF PlaceInv
<1>5. ASSUME NEW w \in Workers, Send(w) PROVE PlaceInv'
  <2>1. hand[w] # NoMessage /\ hand[w] \in taken[w] /\ hand[w] \notin recovered \cup unsettled
    BY <1>5 DEF Send, HandInv
  <2>2. InHand' = InHand \ {hand[w]} /\ hand[w] \in InHand
    BY <1>5, <2>1, LetGoHand DEF Send, InHand, TypeOK
  <2>3. /\ Delivered' = Delivered \cup {hand[w]}
        /\ \A m \in Messages : delivered'[m] = IF m = hand[w] THEN 1 ELSE delivered[m]
    BY <1>5, <2>1, DeliverEffect DEF Send
  <2>4. UNCHANGED <<arrived, queued, recovered, unsettled, taken>>
    BY <1>5 DEF Send
  <2>5. QED
    BY <1>o, <2>1, <2>2, <2>3, <2>4 DEF PlaceInv
<1>6. ASSUME NEW w \in Workers, SendFails(w) PROVE PlaceInv'
  <2>1. hand[w] # NoMessage /\ hand[w] \in taken[w] /\ hand[w] \notin unsettled
    BY <1>6 DEF SendFails, HandInv
  <2>2. InHand' = InHand \ {hand[w]} /\ hand[w] \in InHand
    BY <1>6, <2>1, LetGoHand DEF SendFails, Recover, InHand, TypeOK
  <2>3. /\ Delivered' \in {Delivered, Delivered \cup {hand[w]}}
        /\ \A m \in Messages : delivered'[m] = delivered[m] \/ delivered'[m] = 1
    <3>1. CASE Deliver(w)
      BY <2>1, <3>1, DeliverEffect
    <3>2. CASE UNCHANGED delivered
      BY <3>2 DEF Delivered
    <3>3. QED
      BY <1>6, <3>1, <3>2 DEF SendFails
  <2>4. /\ UNCHANGED <<arrived, queued, unsettled, taken>>
        /\ recovered' = recovered \cup {hand[w]}
        /\ outcome'[w] = "error"
    BY <1>6 DEF SendFails, Recover, Stop, TypeOK
  <2>5. QED
    BY <1>o, <2>1, <2>2, <2>3, <2>4 DEF PlaceInv
<1>7. ASSUME NEW m \in Messages, Arrive(m) PROVE PlaceInv'
  BY <1>o, <1>7 DEF Arrive, PlaceInv, InHand, Delivered
<1>8. ASSUME NEW w \in Workers,
             Enter(w) \/ Complete(w) \/ NoTake(w) \/ Transform(w) \/ EndContext(w)
      PROVE  UNCHANGED <<arrived, place, hand, taken>>
  BY <1>8 DEF Enter, Complete, NoTake, Transform, EndContext
<1>9. QED
  BY <1>1, <1>2, <1>3, <1>4, <1>5, <1>6, <1>7, <1>8 DEF Next, Step, Finished, vars

----------------------------------------------------------------------------
(* What a relay has taken, and what of it is delivered, is finite. *)
LEMMA FiniteTaken ==
    ASSUME TypeOK, NEW w \in Workers
    PROVE  /\ IsFiniteSet(taken[w]) /\ Cardinality(taken[w]) \in Nat
           /\ IsFiniteSet(Done(w)) /\ Cardinality(Done(w)) \in Nat
<1>1. taken[w] \in SUBSET Messages /\ Done(w) \in SUBSET Messages
  BY DEF TypeOK, Done
<1>2. QED
  BY <1>1, RelayAssumption, FS_Subset, FS_CardinalityType

(* A relay whose place, counter and messages stay keeps its accounts. *)
LEMMA CountsKept ==
    ASSUME NEW w \in Workers, Counts(w), taken'[w] = taken[w], Done(w)' = Done(w),
           pc'[w] = pc[w], relayed'[w] = relayed[w], outcome'[w] = outcome[w]
    PROVE  Counts(w)'
BY DEF Counts, Bounded

(* A message given up is one more that its relay has removed, and not yet   *)
(* one that it has delivered.                                               *)
LEMMA TakenCount ==
    ASSUME TypeOK, OneTaker, PlaceInv, NEW w \in Workers, NEW m \in Messages,
           FromSource(w, m), UNCHANGED delivered
    PROVE  /\ Cardinality(taken'[w]) = Cardinality(taken[w]) + 1
           /\ \A v \in Workers : Done(v)' = Done(v) /\ (v # w => taken'[v] = taken[v])
<1>1. taken'[w] = taken[w] \cup {m} /\ \A v \in Workers : v # w => taken'[v] = taken[v]
  BY DEF FromSource, TypeOK
<1>2. m \notin taken[w] /\ m \notin Delivered
  BY DEF FromSource, OneTaker, PlaceInv
<1>3. Cardinality(taken'[w]) = Cardinality(taken[w]) + 1
  BY <1>1, <1>2, FiniteTaken, FS_AddElement
<1>4. Delivered' = Delivered
  BY DEF Delivered
<1>5. QED
  BY <1>1, <1>2, <1>3, <1>4 DEF Done

(* A message delivered is one more of its relay's, and of no other's. *)
LEMMA DeliveredCount ==
    ASSUME TypeOK, HandInv, OneTaker, NEW w \in Workers, hand[w] # NoMessage, Deliver(w),
           UNCHANGED taken
    PROVE  /\ Cardinality(Done(w)') = Cardinality(Done(w)) + 1
           /\ \A v \in Workers : v # w => Done(v)' = Done(v)
<1>1. Delivered' = Delivered \cup {hand[w]}
  BY DeliverEffect
<1>2. hand[w] \in taken[w] /\ hand[w] \notin Delivered
  BY DEF HandInv, Delivered
<1>3. Done(w)' = Done(w) \cup {hand[w]} /\ hand[w] \notin Done(w)
  BY <1>1, <1>2 DEF Done
<1>4. \A v \in Workers : v # w => hand[w] \notin taken[v]
  BY HandIsOwn
<1>5. Cardinality(Done(w)') = Cardinality(Done(w)) + 1
  BY <1>3, FiniteTaken, FS_AddElement
<1>6. \A v \in Workers : v # w => Done(v)' = Done(v)
  BY <1>1, <1>4 DEF Done
<1>7. QED
  BY <1>5, <1>6

(* The counters stay exact. *)
LEMMA CountStep == IInv /\ [Next]_vars => CountInv'
<1> SUFFICES ASSUME IInv, [Next]_vars, NEW w \in Workers PROVE Counts(w)'
  BY DEF CountInv
<1> USE DEF IInv
<1>a. /\ Counts(w) /\ relayed[w] \in Nat /\ Limit[w] \in Nat
      /\ Cardinality(taken[w]) \in Nat /\ Cardinality(Done(w)) \in Nat
  BY FiniteTaken, RelayAssumption DEF CountInv, TypeOK
<1>b. (w \in Movers => w \notin Forwarders \cup Transforming) /\ (w \notin Movers => w \in Forwarders)
  BY RelayAssumption
<1>c. pc[w] # "done" => outcome[w] = "none"
  BY DEF EndInv
<1>1. ASSUME taken' = taken, Done(w)' = Done(w), pc'[w] = pc[w], relayed'[w] = relayed[w],
             outcome'[w] = outcome[w]
      PROVE  Counts(w)'
  BY <1>a, <1>1, CountsKept
<1>2. CASE UNCHANGED <<delivered, pc, relayed, outcome, taken>>
  BY <1>1, <1>2 DEF Done, Delivered
<1>3. ASSUME NEW v \in Workers, Enter(v) \/ Complete(v) \/ NoTake(v) \/ Transform(v)
      PROVE  Counts(w)'
  <2>1. UNCHANGED <<taken, relayed>> /\ Done(w)' = Done(w)
    BY <1>3 DEF Enter, Complete, NoTake, Transform, place, Done, Delivered
  <2>2. CASE v # w
    BY <1>1, <1>3, <2>1, <2>2 DEF Enter, Complete, NoTake, AfterError, Transform, Goto, Stop, TypeOK
  <2>3. CASE v = w
    <3>1. CASE Enter(w)
      BY <1>a, <2>1, <3>1 DEF Enter, Goto, Counts, Bounded, Continues, TypeOK
    <3>2. CASE Complete(w)
      BY <1>a, <1>b, <1>c, <2>1, <3>2 DEF Complete, Stop, Counts, Bounded, Continues, TypeOK
    <3>3. CASE NoTake(w)
      BY <1>a, <1>b, <1>c, <2>1, <3>3 DEF NoTake, AfterError, Goto, Stop, Counts, Bounded, TypeOK
    <3>4. CASE Transform(w)
      BY <1>a, <2>1, <3>4 DEF Transform, Goto, Counts, Bounded, TypeOK
    <3>5. QED
      BY <1>3, <2>3, <3>1, <3>2, <3>3, <3>4
  <2>4. QED
    BY <2>2, <2>3
<1>4. ASSUME NEW v \in Workers, Take(v) \/ SettleLost(v) PROVE Counts(w)'
  <2>1. PICK m \in Messages : FromSource(v, m)
    BY <1>4 DEF Take, SettleLost
  <2>2. UNCHANGED <<delivered, relayed>>
    BY <1>4 DEF Take, SettleLost
  <2>3. /\ Cardinality(taken'[v]) = Cardinality(taken[v]) + 1
        /\ Done(w)' = Done(w) /\ (w # v => taken'[w] = taken[w])
    BY <2>1, <2>2, TakenCount
  <2>4. CASE v # w
    <3>1. pc'[w] = pc[w] /\ outcome'[w] = outcome[w]
      BY <1>4, <2>4 DEF Take, SettleLost, AfterError, Goto, Stop, TypeOK
    <3>2. QED
      BY <1>a, <2>2, <2>3, <2>4, <3>1, CountsKept
  <2>5. CASE v = w
    <3>1. CASE Take(w)
      BY <1>a, <2>2, <2>3, <2>5, <3>1 DEF Take, Goto, Counts, Bounded, TypeOK
    <3>2. CASE SettleLost(w)
      BY <1>a, <1>b, <1>c, <2>2, <2>3, <2>5, <3>2
         DEF SettleLost, AfterError, Goto, Stop, Counts, Bounded, TypeOK
    <3>3. QED
      BY <1>4, <2>5, <3>1, <3>2
  <2>6. QED
    BY <2>4, <2>5
<1>5. ASSUME NEW v \in Workers, TransformFails(v) PROVE Counts(w)'
  <2>1. UNCHANGED <<taken, relayed, outcome>> /\ Done(w)' = Done(w)
    BY <1>5 DEF TransformFails, Goto, Done, Delivered
  <2>2. CASE v # w
    BY <1>1, <1>5, <2>1, <2>2 DEF TransformFails, Goto, TypeOK
  <2>3. CASE v = w
    BY <1>a, <1>b, <1>5, <2>1, <2>3 DEF TransformFails, Counts
  <2>4. QED
    BY <2>2, <2>3
<1>6. ASSUME NEW v \in Workers, Send(v) PROVE Counts(w)'
  <2>1. /\ Cardinality(Done(v)') = Cardinality(Done(v)) + 1
        /\ v # w => Done(w)' = Done(w)
    BY <1>6, DeliveredCount DEF Send, HandInv
  <2>2. CASE v # w
    BY <1>1, <1>6, <2>1, <2>2 DEF Send, Goto, TypeOK
  <2>3. CASE v = w
    BY <1>a, <1>6, <2>1, <2>3 DEF Send, Goto, Counts, Bounded, TypeOK
  <2>4. QED
    BY <2>2, <2>3
<1>7. ASSUME NEW v \in Workers, SendFails(v) PROVE Counts(w)'
  <2>1. UNCHANGED <<taken, relayed>> /\ hand[v] # NoMessage
    BY <1>7 DEF SendFails, HandInv
  <2>2. CASE v # w
    <3>1. Done(w)' = Done(w)
      <4>1. CASE Deliver(v)
        BY <2>1, <2>2, <4>1, DeliveredCount
      <4>2. CASE UNCHANGED delivered
        BY <2>1, <4>2 DEF Done, Delivered
      <4>3. QED
        BY <1>7, <4>1, <4>2 DEF SendFails
    <3>2. QED
      BY <1>1, <1>7, <2>1, <2>2, <3>1 DEF SendFails, Stop, TypeOK
  <2>3. CASE v = w
    BY <1>a, <1>7, <2>1, <2>3 DEF SendFails, Stop, Counts, Bounded, TypeOK
  <2>4. QED
    BY <2>2, <2>3
<1>8. ASSUME NEW v \in Workers, EndContext(v)
      PROVE  UNCHANGED <<delivered, pc, relayed, outcome, taken>>
  BY <1>8 DEF EndContext, place
<1>9. ASSUME NEW m \in Messages, Arrive(m)
      PROVE  UNCHANGED <<delivered, pc, relayed, outcome, taken>>
  BY <1>9 DEF Arrive
<1>10. CASE UNCHANGED vars
  BY <1>2, <1>10 DEF vars
<1>11. QED
  BY <1>2, <1>3, <1>4, <1>5, <1>6, <1>7, <1>8, <1>9, <1>10 DEF Next, Step, Finished

----------------------------------------------------------------------------
(* Every step keeps the invariant. *)
LEMMA StepIInv == IInv /\ [Next]_vars => IInv'
BY TypeStep, EndStep, HandStep, OneTakerStep, PlaceStep, CountStep DEF IInv

(* The invariant holds throughout. *)
LEMMA Invariance == Spec => []IInv
<1>1. QED
  BY InitIInv, StepIInv, PTL DEF Spec

(* The accounts follow from it. *)
LEMMA AccountsFollow == IInv => Accounts
<1> SUFFICES ASSUME IInv PROVE Accounts
  OBVIOUS
<1> USE DEF IInv
<1>1. Accounted
  <2>1. \A v, w \in Workers : hand[v] = hand[w] /\ hand[v] # NoMessage => v = w
    BY HandIsOwn
  <2>2. queued \cap InHand = {}
    BY HandIsOwn, RelayAssumption DEF InHand
  <2>3. \A w \in Workers : pc[w] = "done" => hand[w] = NoMessage
    BY DEF HandInv
  <2>4. QED
    BY <2>1, <2>2, <2>3 DEF Accounted, PlaceInv
<1>2. NoDuplicate
  <2> SUFFICES ASSUME NEW m \in Messages
               PROVE  /\ delivered[m] <= 1
                      /\ delivered[m] = 1 => m \notin queued \cup InHand \cup unsettled
                      /\ delivered[m] = 1 /\ m \in recovered =>
                            \E w \in Workers : m \in taken[w] /\ outcome[w] = "error"
    BY DEF NoDuplicate
  <2>1. delivered[m] = 1 => m \in Delivered
    BY DEF Delivered
  <2>2. m \in InHand => delivered[m] = 0
    BY RelayAssumption DEF InHand, HandInv
  <2>3. m \in Delivered => m \notin queued \cup unsettled
    BY DEF PlaceInv, OneTaker
  <2>4. QED
    BY <2>1, <2>2, <2>3 DEF PlaceInv
<1>3. CountsExact
  <2>1. ASSUME NEW w \in Workers, outcome[w] = "summary"
        PROVE  relayed[w] = Cardinality(taken[w] \cap Delivered)
    BY <2>1 DEF CountInv, Counts, Done
  <2>2. ASSUME NEW w \in Movers, Limit[w] > 0
        PROVE  Cardinality(taken[w]) <= Limit[w]
    <3>1. /\ relayed[w] \in Nat /\ Limit[w] \in Nat /\ Cardinality(taken[w]) \in Nat
          /\ pc[w] \in Pcs
      BY FiniteTaken, RelayAssumption DEF TypeOK
    <3>2. QED
      BY <2>2, <3>1 DEF CountInv, Counts, Bounded
  <2>3. QED
    BY <2>1, <2>2 DEF CountsExact
<1>4. QED
  BY <1>1, <1>2, <1>3 DEF Accounts

(* "the in-flight message is written to stdout so it is not lost": every    *)
(* message is accounted for, none is delivered twice by relays that share a *)
(* source, the summary counts what was delivered, and move -n N removes no  *)
(* more than N, whatever fails and whoever is interrupted.                  *)
THEOREM AccountsHold == Spec => []Accounts
  BY Invariance, AccountsFollow, PTL

----------------------------------------------------------------------------
(* The relays implement Custody: the place of each message is a function of *)
(* these sets, and every step moves one message by one place, or none.      *)

custodies == [m \in Messages |-> CustodyOf(m)]

(* Where no place changes, no custody does. *)
LEMMA SamePlaces ==
    ASSUME UNCHANGED <<queued, recovered, unsettled>>, InHand' = InHand, Delivered' = Delivered
    PROVE  custodies' = custodies
BY DEF custodies, CustodyOf

(* One message whose custody alone changes is passed on. *)
LEMMA OneMessageMoves ==
    ASSUME NEW m \in Messages, NEW from, NEW to, CustodyOf(m) = from, CustodyOf(m)' = to,
           \A n \in Messages \ {m} : CustodyOf(n)' = CustodyOf(n)
    PROVE  Contract!Pass(m, from, to)
BY DEF Contract!Pass

(* So is one that is lost on the way out of the source. *)
LEMMA OneMessageLost ==
    ASSUME NEW m \in Messages, CustodyOf(m) = "source", CustodyOf(m)' = "lost",
           \A n \in Messages \ {m} : CustodyOf(n)' = CustodyOf(n)
    PROVE  Contract!Lose({m}, {})
BY DEF Contract!Lose

(* A message that leaves a hand for the destination or stdout is kept. *)
LEMMA HandToKept ==
    ASSUME IInv, NEW w \in Workers, NEW m \in Messages, hand[w] = m, LetGo(w),
           UNCHANGED <<queued, unsettled>>,
           Delivered' \cup recovered' = Delivered \cup recovered \cup {m}
    PROVE  Contract!Pass(m, "transit", "kept")
<1>1. m # NoMessage /\ m \in InHand /\ m \notin queued
  BY HandIsOwn, RelayAssumption DEF IInv, TypeOK, InHand
<1>2. InHand' = InHand \ {m}
  BY <1>1, LetGoHand DEF IInv
<1>3. CustodyOf(m) = "transit"
  BY <1>1 DEF CustodyOf
<1>4. CustodyOf(m)' = "kept"
  BY <1>1, <1>2 DEF CustodyOf
<1>5. \A n \in Messages \ {m} : CustodyOf(n)' = CustodyOf(n)
  BY <1>2 DEF CustodyOf
<1>6. QED
  BY <1>3, <1>4, <1>5, OneMessageMoves

(* Every step is one of the contract's, or hands nothing over. *)
LEMMA CustodyStep == IInv /\ [Next]_vars => [Contract!Next]_custodies
<1> SUFFICES ASSUME IInv, [Next]_vars PROVE Contract!Next \/ custodies' = custodies
  OBVIOUS
<1> USE DEF IInv
<1>1. ASSUME NEW m \in Messages, Arrive(m) PROVE Contract!Pass(m, "none", "source")
  <2>1. InHand' = InHand /\ Delivered' = Delivered
    BY <1>1 DEF Arrive, InHand, Delivered
  <2>2. m \notin queued \cup InHand \cup Delivered \cup recovered \cup unsettled
    BY <1>1 DEF Arrive, PlaceInv
  <2>3. CustodyOf(m) = "none" /\ CustodyOf(m)' = "source"
    BY <1>1, <2>2 DEF Arrive, CustodyOf
  <2>4. \A n \in Messages \ {m} : CustodyOf(n)' = CustodyOf(n)
    BY <1>1, <2>1 DEF Arrive, CustodyOf
  <2>5. QED
    BY <2>3, <2>4, OneMessageMoves
<1>2. ASSUME NEW w \in Workers, Take(w)
      PROVE  \E m \in Messages : Contract!Pass(m, "source", "transit")
  <2>1. PICK m \in Messages : FromSource(w, m) /\ hand' = [hand EXCEPT ![w] = m]
    BY <1>2 DEF Take
  <2>2. InHand' = InHand \cup {m} /\ Delivered' = Delivered
    BY <1>2, <2>1, TakeHand DEF Take, HandInv, Delivered
  <2>3. CustodyOf(m) = "source" /\ CustodyOf(m)' = "transit"
    BY <2>1, <2>2 DEF FromSource, CustodyOf
  <2>4. \A n \in Messages \ {m} : CustodyOf(n)' = CustodyOf(n)
    BY <1>2, <2>1, <2>2 DEF Take, FromSource, CustodyOf
  <2>5. QED
    BY <2>3, <2>4, OneMessageMoves
<1>3. ASSUME NEW w \in Workers, SettleLost(w) PROVE \E m \in Messages : Contract!Lose({m}, {})
  <2>1. PICK m \in Messages : FromSource(w, m) /\ unsettled' = unsettled \cup {m}
    BY <1>3 DEF SettleLost
  <2>2. InHand' = InHand /\ Delivered' = Delivered /\ recovered' = recovered
    BY <1>3 DEF SettleLost, InHand, Delivered
  <2>3. m \notin InHand \cup Delivered \cup recovered
    BY <2>1, HandIsOwn, RelayAssumption DEF FromSource, InHand, PlaceInv, OneTaker
  <2>4. CustodyOf(m) = "source" /\ CustodyOf(m)' = "lost"
    BY <2>1, <2>2, <2>3 DEF FromSource, CustodyOf
  <2>5. \A n \in Messages \ {m} : CustodyOf(n)' = CustodyOf(n)
    BY <2>1, <2>2 DEF FromSource, CustodyOf
  <2>6. QED
    BY <2>4, <2>5, OneMessageLost
<1>4. ASSUME NEW w \in Workers, TransformFails(w) \/ Send(w) \/ SendFails(w)
      PROVE  \E m \in Messages : Contract!Pass(m, "transit", "kept")
  <2>1. PICK m \in Messages : hand[w] = m
    BY <1>4 DEF TransformFails, Send, SendFails, HandInv, TypeOK
  <2>2. LetGo(w) /\ UNCHANGED <<queued, unsettled>>
    BY <1>4 DEF TransformFails, Send, SendFails, Recover
  <2>3. Deliver(w) => Delivered' = Delivered \cup {m}
    BY <2>1, RelayAssumption, DeliverEffect
  <2>4. UNCHANGED delivered => Delivered' = Delivered
    BY DEF Delivered
  <2>5. Delivered' \cup recovered' = Delivered \cup recovered \cup {m}
    BY <1>4, <2>1, <2>3, <2>4 DEF TransformFails, Send, SendFails, Recover
  <2>6. QED
    BY <2>1, <2>2, <2>5, HandToKept
<1>5. ASSUME UNCHANGED <<place, hand>> PROVE custodies' = custodies
  BY <1>5, SamePlaces DEF place, InHand, Delivered
<1>6. ASSUME NEW w \in Workers,
             Enter(w) \/ Complete(w) \/ NoTake(w) \/ Transform(w) \/ EndContext(w)
      PROVE  UNCHANGED <<place, hand>>
  BY <1>6 DEF Enter, Complete, NoTake, Transform, EndContext
<1>7. Contract!Next <=>
        \/ \E m \in Messages : \/ Contract!Pass(m, "none", "source")
                               \/ Contract!Pass(m, "source", "transit")
                               \/ Contract!Pass(m, "transit", "kept")
        \/ \E lost, kept \in SUBSET Messages : Contract!Lose(lost, kept)
  BY DEF Contract!Next
<1>8. CASE UNCHANGED vars
  BY <1>5, <1>8 DEF vars, place
<1>9. QED
  BY <1>1, <1>2, <1>3, <1>4, <1>5, <1>6, <1>7, <1>8 DEF Next, Step, Finished

(* Whatever moves or forwards from the source, and however it ends, each    *)
(* message keeps to the contract of Custody.                                *)
THEOREM Relays == Spec => KeepsCustody
<1>1. Init => Contract!Init
  <2>1. Init => InHand = {} /\ Delivered = {}
    BY RelayAssumption DEF Init, InHand, Delivered
  <2>2. QED
    BY <2>1 DEF Init, Contract!Init, CustodyOf
<1>2. QED
  BY <1>1, CustodyStep, Invariance, PTL DEF Spec, KeepsCustody, Contract!Spec, custodies

----------------------------------------------------------------------------
(* The cross-broker relay.                                                  *)
(*                                                                          *)
(* It implements the same contract, for any messages, any --count and any   *)
(* size of the pipe.                                                        *)
(*                                                                          *)
(* That each message has one place is inductive only with the three places  *)
(* of the transit kept apart (Apart): a record that was in the pipe twice   *)
(* would be published and yet in transit.  The drain rests on how the       *)
(* target can have ended (TargetEndInv): at the end of its input, which is  *)
(* after the last write, or with what it had dropped.                       *)

(* The loop holds a message to write it, and closes its pipe once.          *)
LoopInv ==
    /\ bridgeHand # NoMessage <=> bridgePc = "write"
    /\ ~open <=> bridgePc \in {"wait", "done", "killed"}

(* What the source gave up it does not have, and nobody it never had.       *)
SourceInv ==
    /\ bridgeQueued \subseteq bridgeArrived
    /\ bridgeUnsettled \subseteq bridgeArrived \ bridgeQueued

(* The hand, the pipe and the target hold different messages.               *)
Apart ==
    /\ bridgeHand # NoMessage => bridgeHand # working /\ bridgeHand \notin B!InPipe
    /\ working \notin B!InPipe
    /\ \A i, j \in DOMAIN pipe : pipe[i] = pipe[j] => i = j

(* How the target may have ended, and what that leaves.                     *)
TargetEndInv ==
    /\ cancelled => interrupted
    /\ target = "killed" \/ bridgePc = "killed" => interrupted
    /\ target = "finished" => ~open
    /\ target # "running" => working = NoMessage /\ pipe = << >>
    /\ dropped # {} => target \in {"failed", "killed"} \/ bridgePc = "killed"

BridgeInv == B!TypeOK /\ LoopInv /\ SourceInv /\ Apart /\ TargetEndInv /\ B!OnePlace

USE DEF B!Pcs, B!source, B!control, B!ledger, B!child, B!Goto, B!Leave, B!Reading, B!Ended

----------------------------------------------------------------------------
(* The initial states satisfy the invariant. *)
LEMMA BridgeInit ==
    ASSUME B!BridgeAssumption PROVE B!Init => BridgeInv
<1> SUFFICES ASSUME B!Init PROVE BridgeInv
  OBVIOUS
<1>1. B!TypeOK
  <2>1. pipe \in Seq(BridgeMessages) /\ Len(pipe) <= PipeCap
    BY DEF B!BridgeAssumption, B!Init
  <2>2. {expired, cancelled, interrupted, open} \subseteq BOOLEAN
    BY DEF B!Init
  <2>3. QED
    BY <2>1, <2>2 DEF B!Init, B!TypeOK
<1>2. LoopInv /\ SourceInv /\ TargetEndInv
  BY DEF B!Init, LoopInv, SourceInv, TargetEndInv
<1>3. B!InPipe = {} /\ Apart
  BY DEF B!Init, B!InPipe, Apart
<1>4. B!OnePlace
  BY <1>3 DEF B!Init, B!OnePlace, B!Taken, B!Transit
<1>5. QED
  BY <1>1, <1>2, <1>3, <1>4 DEF BridgeInv

(* The pipe of a target that is gone. *)
LEMMA EmptyPipe ==
    ASSUME B!BridgeAssumption PROVE << >> \in Seq(BridgeMessages) /\ Len(<< >>) = 0 /\ 0 <= PipeCap
BY DEF B!BridgeAssumption

(* What the pipe holds after a write. *)
LEMMA PipeAppend ==
    ASSUME pipe \in Seq(BridgeMessages), NEW m \in BridgeMessages, pipe' = Append(pipe, m)
    PROVE  B!InPipe' = B!InPipe \cup {m}
BY DEF B!InPipe

(* What the target reads, and what it leaves in the pipe. *)
LEMMA PipeRead ==
    ASSUME pipe \in Seq(BridgeMessages), pipe # << >>, pipe' = Tail(pipe)
    PROVE  /\ Head(pipe) \in BridgeMessages
           /\ pipe' \in Seq(BridgeMessages) /\ Len(pipe') <= Len(pipe)
           /\ B!InPipe = B!InPipe' \cup {Head(pipe)}
<1>1. /\ Head(pipe) = pipe[1] /\ Len(pipe) \in Nat \ {0} /\ Len(pipe') = Len(pipe) - 1
      /\ DOMAIN pipe = 1..Len(pipe) /\ DOMAIN pipe' = 1..Len(pipe')
      /\ \A i \in DOMAIN pipe' : pipe'[i] = pipe[i + 1]
  OBVIOUS
<1>2. B!InPipe \subseteq B!InPipe' \cup {Head(pipe)}
  <2> SUFFICES ASSUME NEW i \in DOMAIN pipe PROVE pipe[i] \in B!InPipe' \cup {Head(pipe)}
    BY DEF B!InPipe
  <2>1. CASE i = 1
    BY <1>1, <2>1
  <2>2. CASE i # 1
    <3>1. i - 1 \in DOMAIN pipe' /\ pipe'[i - 1] = pipe[i]
      BY <1>1, <2>2
    <3>2. QED
      BY <3>1 DEF B!InPipe
  <2>3. QED
    BY <2>1, <2>2
<1>3. B!InPipe' \cup {Head(pipe)} \subseteq B!InPipe
  BY <1>1 DEF B!InPipe
<1>4. QED
  BY <1>1, <1>2, <1>3

(* A target that goes takes along what it was sending and what was in the   *)
(* pipe, all but the record it may still have published.                    *)
LEMMA GoneEffect ==
    ASSUME B!TypeOK, NEW how, B!TargetGone(how)
    PROVE  /\ working' = NoMessage /\ pipe' = << >> /\ B!InPipe' = {} /\ target' = how
           /\ \/ published' = published
              \/ published' = published \cup ({working} \ {NoMessage})
           /\ dropped' = (dropped \cup ({working} \ {NoMessage}) \cup B!InPipe) \ published'
BY DEF B!TargetGone, B!InPipe

(* Every step keeps the types. *)
LEMMA BridgeTypeStep ==
    ASSUME B!BridgeAssumption PROVE BridgeInv /\ [B!Next]_(B!vars) => B!TypeOK'
<1> SUFFICES ASSUME B!TypeOK, LoopInv, [B!Next]_(B!vars) PROVE B!TypeOK'
  BY DEF BridgeInv
<1> USE DEF B!BridgeAssumption, B!TypeOK
<1>1. CASE B!Enter \/ B!NoTake \/ B!ClosePipe \/ B!Wait
  BY <1>1 DEF B!Enter, B!NoTake, B!AfterError, B!ClosePipe, B!Wait
<1>2. CASE B!Take \/ B!SettleLost
  BY <1>2 DEF B!Take, B!SettleLost, B!AfterError
<1>3. CASE B!WriteRefused
  BY <1>3 DEF B!WriteRefused, LoopInv
<1>4. CASE B!Write
  <2>1. bridgeHand \in BridgeMessages
    BY <1>4 DEF B!Write, LoopInv
  <2>2. pipe' \in Seq(BridgeMessages) /\ Len(pipe') <= PipeCap
    BY <1>4, <2>1 DEF B!Write
  <2>3. dropped' \subseteq BridgeMessages
    BY <1>4, <2>1 DEF B!Write
  <2>4. QED
    BY <1>4, <2>2, <2>3 DEF B!Write
<1>5. CASE B!TargetRead
  <2>1. Head(pipe) \in BridgeMessages /\ pipe' \in Seq(BridgeMessages) /\ Len(pipe') <= PipeCap
    BY <1>5, PipeRead DEF B!TargetRead
  <2>2. QED
    BY <1>5, <2>1 DEF B!TargetRead
<1>6. CASE B!TargetSend \/ B!TargetFinish
  BY <1>6 DEF B!TargetSend, B!TargetFinish
<1>7. CASE B!TargetFails \/ B!KillTarget
  <2>1. PICK how \in {"failed", "killed"} :
            /\ B!TargetGone(how)
            /\ UNCHANGED <<B!source, bridgePc, bridgeHand, bridged, bridgeOutcome, B!control,
                           open, bridgeRecovered>>
    BY <1>7 DEF B!TargetFails, B!KillTarget
  <2>2. B!InPipe \subseteq BridgeMessages /\ {working} \ {NoMessage} \subseteq BridgeMessages
    BY DEF B!InPipe
  <2>3. published' \subseteq BridgeMessages /\ dropped' \subseteq BridgeMessages
    BY <2>1, <2>2, GoneEffect
  <2>4. pipe' \in Seq(BridgeMessages) /\ Len(pipe') <= PipeCap
    BY <2>1, GoneEffect, EmptyPipe
  <2>5. QED
    BY <2>1, <2>3, <2>4, GoneEffect
<1>8. CASE B!Expire \/ B!Interrupt
  BY <1>8 DEF B!Expire, B!Interrupt
<1>9. ASSUME NEW m \in BridgeMessages, B!Arrive(m) PROVE B!TypeOK'
  BY <1>9 DEF B!Arrive
<1>10. CASE UNCHANGED B!vars
  BY <1>10 DEF B!vars
<1>11. QED
  BY <1>1, <1>2, <1>3, <1>4, <1>5, <1>6, <1>7, <1>8, <1>9, <1>10 DEF B!Next, B!Loop, B!Target

(* The loop and its hand. *)
LEMMA LoopStep ==
    ASSUME B!BridgeAssumption PROVE BridgeInv /\ [B!Next]_(B!vars) => LoopInv'
<1> SUFFICES ASSUME B!TypeOK, LoopInv, [B!Next]_(B!vars) PROVE LoopInv'
  BY DEF BridgeInv
<1> USE DEF B!BridgeAssumption, LoopInv
<1>1. CASE B!Loop
  BY <1>1 DEF B!Loop, B!Enter, B!Take, B!NoTake, B!SettleLost, B!AfterError, B!WriteRefused,
              B!Write, B!ClosePipe, B!Wait, B!TypeOK
<1>2. CASE B!Target \/ B!TargetFails \/ B!KillTarget \/ B!Expire
  BY <1>2 DEF B!Target, B!TargetRead, B!TargetSend, B!TargetFinish, B!TargetFails, B!KillTarget,
              B!Expire
<1>3. CASE B!Interrupt
  BY <1>3 DEF B!Interrupt
<1>4. ASSUME NEW m \in BridgeMessages, B!Arrive(m) PROVE LoopInv'
  BY <1>4 DEF B!Arrive
<1>5. CASE UNCHANGED B!vars
  BY <1>5 DEF B!vars
<1>6. QED
  BY <1>1, <1>2, <1>3, <1>4, <1>5 DEF B!Next

(* What the bridge holds came from the source. *)
LEMMA TransitIsTaken ==
    ASSUME B!BridgeAssumption, BridgeInv
    PROVE  /\ B!Transit \subseteq BridgeMessages \ {NoMessage}
           /\ B!Transit \cap (bridgeQueued \cup bridgeUnsettled) = {}
           /\ B!InPipe \subseteq B!Transit
           /\ bridgeHand # NoMessage => bridgeHand \in B!Transit
           /\ working # NoMessage => working \in B!Transit
BY DEF B!BridgeAssumption, BridgeInv, B!TypeOK, B!OnePlace, B!Taken, B!Transit, B!InPipe

(* A message leaves the source for good. *)
LEMMA SourceStep ==
    ASSUME B!BridgeAssumption PROVE BridgeInv /\ [B!Next]_(B!vars) => SourceInv'
<1> SUFFICES ASSUME BridgeInv, [B!Next]_(B!vars) PROVE SourceInv'
  OBVIOUS
<1> USE DEF SourceInv, BridgeInv
<1>1. CASE B!Take \/ B!SettleLost
  BY <1>1 DEF B!Take, B!SettleLost
<1>2. ASSUME NEW m \in BridgeMessages, B!Arrive(m) PROVE SourceInv'
  BY <1>2 DEF B!Arrive
<1>3. CASE UNCHANGED <<bridgeArrived, bridgeQueued, bridgeUnsettled>>
  BY <1>3
<1>4. QED
  BY <1>1, <1>2, <1>3 DEF B!Next, B!Loop, B!Target, B!Enter, B!NoTake, B!WriteRefused, B!Write,
    B!ClosePipe, B!Wait, B!TargetRead, B!TargetSend, B!TargetFinish, B!TargetFails, B!KillTarget,
    B!Expire, B!Interrupt, B!vars

(* The hand, the pipe and the target keep apart. *)
LEMMA ApartStep ==
    ASSUME B!BridgeAssumption PROVE BridgeInv /\ [B!Next]_(B!vars) => Apart'
<1> SUFFICES ASSUME BridgeInv, [B!Next]_(B!vars) PROVE Apart'
  OBVIOUS
<1> USE DEF BridgeInv, Apart
<1>0. NoMessage \notin B!InPipe /\ pipe \in Seq(BridgeMessages)
  BY TransitIsTaken DEF B!TypeOK
<1>1. CASE B!Take
  <2>1. PICK m \in bridgeQueued : bridgeHand' = m
    BY <1>1 DEF B!Take
  <2>2. m # working /\ m \notin B!InPipe
    BY <2>1, TransitIsTaken DEF B!BridgeAssumption, B!TypeOK
  <2>3. QED
    BY <1>1, <2>1, <2>2 DEF B!Take, B!InPipe
<1>2. CASE B!Write
  <2>1. bridgeHand \in BridgeMessages \ {NoMessage} /\ bridgeHand' = NoMessage /\ working' = working
    BY <1>2 DEF B!BridgeAssumption, B!Write, LoopInv, B!TypeOK
  <2>2. CASE pipe' = pipe
    BY <2>1, <2>2 DEF B!InPipe
  <2>3. CASE pipe' = Append(pipe, bridgeHand)
    <3>1. B!InPipe' = B!InPipe \cup {bridgeHand}
      BY <1>0, <2>1, <2>3, PipeAppend
    <3>2. \A i \in DOMAIN pipe : pipe[i] # bridgeHand
      BY <2>1 DEF B!InPipe
    <3>3. \A i, j \in DOMAIN pipe' : pipe'[i] = pipe'[j] => i = j
      BY <1>0, <2>3, <3>2
    <3>4. QED
      BY <2>1, <3>1, <3>3
  <2>4. QED
    BY <1>2, <2>2, <2>3 DEF B!Write
<1>3. CASE B!TargetRead
  <2>1. pipe # << >> /\ working' = Head(pipe) /\ pipe' = Tail(pipe) /\ bridgeHand' = bridgeHand
    BY <1>3 DEF B!TargetRead
  <2>2. /\ Head(pipe) = pipe[1] /\ Len(pipe) \in Nat \ {0} /\ Len(pipe') = Len(pipe) - 1
        /\ DOMAIN pipe = 1..Len(pipe) /\ DOMAIN pipe' = 1..Len(pipe')
        /\ \A i \in DOMAIN pipe' : pipe'[i] = pipe[i + 1]
    BY <1>0, <2>1
  <2>3. B!InPipe = B!InPipe' \cup {working'}
    BY <1>0, <2>1, PipeRead
  <2>4. \A i \in DOMAIN pipe' : pipe'[i] # working'
    BY <2>1, <2>2
  <2>5. \A i, j \in DOMAIN pipe' : pipe'[i] = pipe'[j] => i = j
    BY <2>2
  <2>6. QED
    BY <2>1, <2>3, <2>4, <2>5 DEF B!InPipe
<1>4. CASE B!TargetSend
  BY <1>0, <1>4, TransitIsTaken DEF B!TargetSend, B!InPipe
<1>5. CASE B!TargetFails \/ B!KillTarget
  <2>1. B!InPipe' = {} /\ working' = NoMessage /\ pipe' = << >>
    BY <1>5, GoneEffect DEF B!TargetFails, B!KillTarget
  <2>2. QED
    BY <2>1 DEF B!InPipe
<1>6. CASE bridgeHand' = NoMessage /\ UNCHANGED <<pipe, working>>
  BY <1>6 DEF B!InPipe
<1>7. CASE UNCHANGED <<bridgeHand, pipe, working>>
  BY <1>7 DEF B!InPipe
<1>8. B!WriteRefused \/ B!Interrupt =>
        (bridgeHand' = NoMessage \/ bridgeHand' = bridgeHand) /\ UNCHANGED <<pipe, working>>
  BY DEF B!WriteRefused, B!Interrupt
<1>9. QED
  BY <1>1, <1>2, <1>3, <1>4, <1>5, <1>6, <1>7, <1>8 DEF B!Next, B!Loop, B!Target, B!Enter,
    B!NoTake, B!SettleLost, B!ClosePipe, B!Wait, B!TargetFinish, B!Expire, B!Arrive, B!vars

(* The target ends at the end of its input, or drops what it had. *)
LEMMA TargetEndStep ==
    ASSUME B!BridgeAssumption PROVE BridgeInv /\ [B!Next]_(B!vars) => TargetEndInv'
<1> SUFFICES ASSUME BridgeInv, [B!Next]_(B!vars) PROVE TargetEndInv'
  OBVIOUS
<1> USE DEF BridgeInv, TargetEndInv
<1>1. CASE B!Write
  BY <1>1 DEF B!Write, LoopInv, B!TypeOK
<1>2. CASE B!TargetRead \/ B!TargetSend \/ B!TargetFinish
  BY <1>2 DEF B!TargetRead, B!TargetSend, B!TargetFinish
<1>3. CASE B!TargetFails
  BY <1>3, GoneEffect DEF B!TargetFails
<1>4. CASE B!KillTarget
  BY <1>4, GoneEffect DEF B!KillTarget
<1>5. CASE B!Interrupt
  BY <1>5 DEF B!Interrupt
<1>6. CASE B!ClosePipe
  BY <1>6 DEF B!ClosePipe
<1>7. CASE B!Enter \/ B!Take \/ B!NoTake \/ B!SettleLost \/ B!WriteRefused \/ B!Wait
  BY <1>7 DEF B!Enter, B!Take, B!NoTake, B!SettleLost, B!AfterError, B!WriteRefused, B!Wait,
              B!TypeOK
<1>8. ASSUME NEW m \in BridgeMessages, B!Arrive(m) PROVE TargetEndInv'
  BY <1>8 DEF B!Arrive
<1>9. CASE B!Expire \/ UNCHANGED B!vars
  BY <1>9 DEF B!Expire, B!vars
<1>10. QED
  BY <1>1, <1>2, <1>3, <1>4, <1>5, <1>6, <1>7, <1>8, <1>9 DEF B!Next, B!Loop, B!Target

----------------------------------------------------------------------------
(* What each step does to the transit, to be used for the places and for    *)
(* the contract.                                                            *)

(* Take: the source gives up a message, which is now on its way. *)
LEMMA TakeEffect ==
    ASSUME B!BridgeAssumption, BridgeInv, B!Take
    PROVE  \E m \in bridgeQueued : /\ bridgeQueued' = bridgeQueued \ {m}
                                   /\ B!Transit' = B!Transit \cup {m} /\ B!Taken' = B!Taken \cup {m}
                                   /\ UNCHANGED <<bridgeArrived, bridgeUnsettled, published, B!ledger>>
<1>1. PICK m \in bridgeQueued : bridgeQueued' = bridgeQueued \ {m} /\ bridgeHand' = m
  BY DEF B!Take
<1>2. bridgeHand = NoMessage /\ m # NoMessage
  BY DEF B!BridgeAssumption, B!Take, BridgeInv, LoopInv, B!TypeOK
<1>3. B!Transit' = B!Transit \cup {m}
  BY <1>1, <1>2 DEF B!Take, B!Transit, B!InPipe
<1>4. B!Taken' = B!Taken \cup {m}
  BY <1>1 DEF B!Take, B!Taken, BridgeInv, SourceInv
<1>5. QED
  BY <1>1, <1>3, <1>4 DEF B!Take

(* A write puts the message in the pipe, or nowhere. *)
LEMMA WriteEffect ==
    ASSUME B!BridgeAssumption, BridgeInv, B!Write
    PROVE  /\ bridgeHand \in B!Transit
           /\ UNCHANGED <<bridgeArrived, bridgeQueued, bridgeUnsettled, published, bridgeRecovered>>
           /\ \/ B!Transit' = B!Transit /\ dropped' = dropped
              \/ B!Transit' = B!Transit \ {bridgeHand} /\ dropped' = dropped \cup {bridgeHand}
<1> USE DEF BridgeInv
<1>1. bridgeHand \in BridgeMessages \ {NoMessage} /\ bridgeHand' = NoMessage /\ working' = working
  BY DEF B!BridgeAssumption, B!Write, LoopInv, B!TypeOK
<1>2. CASE pipe' = Append(pipe, bridgeHand) /\ dropped' = dropped
  <2>1. B!InPipe' = B!InPipe \cup {bridgeHand}
    BY <1>1, <1>2, PipeAppend DEF B!TypeOK
  <2>2. QED
    BY <1>1, <1>2, <2>1 DEF B!Write, B!Transit
<1>3. CASE pipe' = pipe /\ dropped' = dropped \cup {bridgeHand}
  <2>1. B!InPipe' = B!InPipe
    BY <1>3 DEF B!InPipe
  <2>2. QED
    BY <1>1, <1>3, <2>1 DEF B!Write, B!Transit, Apart
<1>4. QED
  BY <1>2, <1>3 DEF B!Write

(* What is not written leaves the hand for stdout. *)
LEMMA RefusedEffect ==
    ASSUME B!BridgeAssumption, BridgeInv, B!WriteRefused
    PROVE  /\ bridgeHand \in B!Transit /\ B!Transit' = B!Transit \ {bridgeHand}
           /\ bridgeRecovered' = bridgeRecovered \cup {bridgeHand}
           /\ UNCHANGED <<bridgeArrived, bridgeQueued, bridgeUnsettled, published, dropped>>
BY DEF B!BridgeAssumption, BridgeInv, B!WriteRefused, LoopInv, B!Transit, B!InPipe, Apart

(* Reading moves a record within the transit. *)
LEMMA ReadEffect ==
    ASSUME B!BridgeAssumption, BridgeInv, B!TargetRead
    PROVE  /\ B!Transit' = B!Transit
           /\ UNCHANGED <<bridgeArrived, bridgeQueued, bridgeUnsettled, published, B!ledger>>
<1>1. /\ Head(pipe) \in BridgeMessages /\ B!InPipe = B!InPipe' \cup {Head(pipe)}
      /\ working = NoMessage /\ working' = Head(pipe) /\ bridgeHand' = bridgeHand
  BY PipeRead DEF BridgeInv, B!TypeOK, B!TargetRead
<1>2. QED
  BY <1>1 DEF B!BridgeAssumption, B!Transit, B!TargetRead

(* Sending takes the record to the far broker. *)
LEMMA SendEffect ==
    ASSUME B!BridgeAssumption, BridgeInv, B!TargetSend
    PROVE  /\ working \in B!Transit /\ B!Transit' = B!Transit \ {working}
           /\ published' = published \cup {working}
           /\ UNCHANGED <<bridgeArrived, bridgeQueued, bridgeUnsettled, B!ledger>>
BY DEF BridgeInv, B!TargetSend, B!Transit, B!InPipe, Apart

(* The end of the target takes along part of the transit. *)
LEMMA TargetGoneEffect ==
    ASSUME B!BridgeAssumption, BridgeInv, B!TargetFails \/ B!KillTarget
    PROVE  LET gone == B!Transit \ B!Transit'
           IN  /\ B!Transit' \subseteq B!Transit /\ published' \subseteq published \cup gone
               /\ published \subseteq published'
               /\ dropped' = dropped \cup (gone \ published')
               /\ UNCHANGED <<bridgeArrived, bridgeQueued, bridgeUnsettled, bridgeRecovered>>
<1> USE DEF BridgeInv
<1>1. UNCHANGED <<bridgeArrived, bridgeQueued, bridgeUnsettled, bridgeHand, bridgeRecovered>>
  BY DEF B!TargetFails, B!KillTarget
<1>2. /\ working' = NoMessage /\ B!InPipe' = {}
      /\ \/ published' = published
         \/ published' = published \cup ({working} \ {NoMessage})
      /\ dropped' = (dropped \cup ({working} \ {NoMessage}) \cup B!InPipe) \ published'
  BY GoneEffect DEF B!TargetFails, B!KillTarget
<1>3. /\ B!Transit \ B!Transit' = ({working} \ {NoMessage}) \cup B!InPipe
      /\ B!Transit' \subseteq B!Transit
  BY <1>1, <1>2 DEF B!Transit, Apart
<1>4. dropped \cap published' = {}
  BY <1>2, <1>3 DEF B!OnePlace
<1>5. QED
  BY <1>1, <1>2, <1>3, <1>4

(* An interrupt on the command line takes along the message in hand. *)
LEMMA InterruptEffect ==
    ASSUME B!BridgeAssumption, BridgeInv, B!Interrupt
    PROVE  LET gone == B!Transit \ B!Transit'
           IN  /\ B!Transit' \subseteq B!Transit /\ dropped' = dropped \cup gone
               /\ UNCHANGED <<bridgeArrived, bridgeQueued, bridgeUnsettled, published, bridgeRecovered>>
<1> USE DEF BridgeInv
<1>1. /\ UNCHANGED <<bridgeArrived, bridgeQueued, bridgeUnsettled, published, bridgeRecovered,
                     working>>
      /\ B!InPipe' = B!InPipe
  BY DEF B!Interrupt, B!InPipe
<1>2. CASE bridgeHand' = bridgeHand /\ dropped' = dropped
  BY <1>1, <1>2 DEF B!Transit
<1>3. CASE bridgeHand' = NoMessage /\ dropped' = dropped \cup ({bridgeHand} \ {NoMessage})
  BY <1>1, <1>3 DEF B!Transit, Apart
<1>4. QED
  BY <1>2, <1>3 DEF B!Interrupt

(* The steps that touch no message. *)
LEMMA QuietEffect ==
    ASSUME \/ B!Enter \/ B!NoTake \/ B!ClosePipe \/ B!Wait \/ B!TargetFinish \/ B!Expire
           \/ UNCHANGED B!vars
    PROVE  /\ B!Transit' = B!Transit
           /\ UNCHANGED <<bridgeArrived, bridgeQueued, bridgeUnsettled, published, B!ledger>>
BY DEF B!Enter, B!NoTake, B!ClosePipe, B!Wait, B!TargetFinish, B!Expire, B!vars, B!Transit, B!InPipe

(* Every step leaves each message in one place, and the record of what was  *)
(* taken true.                                                              *)
LEMMA OnePlaceStep ==
    ASSUME B!BridgeAssumption PROVE BridgeInv /\ [B!Next]_(B!vars) => B!OnePlace'
<1> SUFFICES ASSUME BridgeInv, [B!Next]_(B!vars) PROVE B!OnePlace'
  OBVIOUS
<1>0. B!OnePlace /\ SourceInv /\ B!Transit \cap (bridgeQueued \cup bridgeUnsettled) = {}
  BY TransitIsTaken DEF BridgeInv
<1>1. CASE B!Take
  <2>1. PICK m \in bridgeQueued : /\ B!Transit' = B!Transit \cup {m} /\ B!Taken' = B!Taken \cup {m}
                                  /\ UNCHANGED <<published, B!ledger>>
    BY <1>1, TakeEffect
  <2>2. m \notin B!Taken
    BY DEF B!Taken
  <2>3. QED
    BY <1>0, <2>1, <2>2 DEF B!OnePlace
<1> USE DEF B!OnePlace, B!Taken
<1>2. CASE B!SettleLost
  <2>1. UNCHANGED <<bridgeHand, pipe, working, published, B!ledger>>
    BY <1>2 DEF B!SettleLost
  <2>2. B!Transit' = B!Transit /\ B!Taken' = B!Taken
    BY <1>2, <2>1 DEF B!SettleLost, B!Transit, B!InPipe
  <2>3. QED
    BY <1>0, <2>1, <2>2
<1>3. CASE B!Write
  BY <1>0, <1>3, WriteEffect
<1>4. CASE B!WriteRefused
  BY <1>0, <1>4, RefusedEffect
<1>5. CASE B!TargetRead
  BY <1>0, <1>5, ReadEffect
<1>6. CASE B!TargetSend
  BY <1>0, <1>6, SendEffect
<1>7. CASE B!TargetFails \/ B!KillTarget
  BY <1>0, <1>7, TargetGoneEffect
<1>8. CASE B!Interrupt
  BY <1>0, <1>8, InterruptEffect
<1>9. ASSUME NEW m \in BridgeMessages, B!Arrive(m) PROVE B!OnePlace'
  <2>1. UNCHANGED <<bridgeHand, pipe, working, published, B!ledger>>
    BY <1>9 DEF B!Arrive
  <2>2. B!Transit' = B!Transit /\ B!Taken' = B!Taken
    BY <1>0, <1>9, <2>1 DEF B!Arrive, B!Transit, B!InPipe, SourceInv
  <2>3. QED
    BY <1>0, <2>1, <2>2
<1>10. CASE \/ B!Enter \/ B!NoTake \/ B!ClosePipe \/ B!Wait \/ B!TargetFinish \/ B!Expire
           \/ UNCHANGED B!vars
  BY <1>0, <1>10, QuietEffect
<1>11. QED
  BY <1>1, <1>2, <1>3, <1>4, <1>5, <1>6, <1>7, <1>8, <1>9, <1>10 DEF B!Next, B!Loop, B!Target

(* The invariant holds in every reachable state. *)
LEMMA BridgeInvariance ==
    ASSUME B!BridgeAssumption PROVE B!Spec => []BridgeInv
<1>1. BridgeInv /\ [B!Next]_(B!vars) => BridgeInv'
  BY BridgeTypeStep, LoopStep, SourceStep, ApartStep, TargetEndStep, OnePlaceStep DEF BridgeInv
<1>2. QED
  BY BridgeInit, <1>1, PTL DEF B!Spec

(* An undisturbed bridge has dropped nothing, and one that saw its target   *)
(* finish has nothing in transit.                                           *)
LEMMA DrainsFollow ==
    ASSUME B!BridgeAssumption PROVE BridgeInv => B!Drains
<1> SUFFICES ASSUME BridgeInv PROVE B!GracefulDrain
  BY DEF BridgeInv, B!Drains
<1>1. ~interrupted /\ target # "failed" => dropped = {}
  BY DEF BridgeInv, TargetEndInv
<1>2. ASSUME bridgePc = "done", target = "finished"
      PROVE  B!Taken \subseteq published \cup bridgeRecovered
  <2>1. bridgeHand = NoMessage /\ working = NoMessage /\ pipe = << >>
    BY <1>2 DEF BridgeInv, LoopInv, TargetEndInv
  <2>2. B!Transit = {}
    BY <2>1 DEF B!Transit, B!InPipe
  <2>3. dropped = {}
    BY <1>2 DEF BridgeInv, TargetEndInv
  <2>4. QED
    BY <2>2, <2>3 DEF BridgeInv, B!OnePlace
<1>3. QED
  BY <1>1, <1>2 DEF B!GracefulDrain

(* "the deferred stdinPipe.Close()+proc.Wait() lets the target finish       *)
(* gracefully via EOF" (doBridge): every message the source gave up has one *)
(* place, and without an interrupt or a failing target nothing is left      *)
(* behind.                                                                  *)
THEOREM DrainsHold == B!Spec => []Drains
  BY BridgeHolds, BridgeInvariance, DrainsFollow, PTL DEF Drains

----------------------------------------------------------------------------
(* The bridge implements Custody. *)

bridgeCustodies == [m \in BridgeMessages |-> B!CustodyOf(m)]

(* One message passes from one place to the next. *)
LEMMA OneRecordMoves ==
    ASSUME NEW m \in BridgeMessages, NEW from, NEW to, B!CustodyOf(m) = from, B!CustodyOf(m)' = to,
           \A n \in BridgeMessages \ {m} : B!CustodyOf(n)' = B!CustodyOf(n)
    PROVE  B!Contract!Pass(m, from, to)
BY DEF B!Contract!Pass

(* Part of the transit is lost, part of it has got through. *)
LEMMA GroupLost ==
    ASSUME B!BridgeAssumption, BridgeInv, B!Transit' \subseteq B!Transit,
           published' \subseteq published \cup (B!Transit \ B!Transit'),
           published \subseteq published',
           dropped' = dropped \cup ((B!Transit \ B!Transit') \ published'),
           UNCHANGED <<bridgeQueued, bridgeUnsettled, bridgeRecovered>>
    PROVE  \E lost, kept \in SUBSET BridgeMessages : B!Contract!Lose(lost, kept)
<1>1. PICK lost, kept \in SUBSET BridgeMessages :
        /\ lost = (B!Transit \ B!Transit') \ published'
        /\ kept = (B!Transit \ B!Transit') \cap published'
  BY TransitIsTaken
<1>2. \A m \in lost \cup kept : B!CustodyOf(m) = "transit"
  BY <1>1, TransitIsTaken DEF B!CustodyOf
<1>3. \A m \in BridgeMessages : B!CustodyOf(m)' =
        IF m \in lost THEN "lost" ELSE IF m \in kept THEN "kept" ELSE B!CustodyOf(m)
  <2> SUFFICES ASSUME NEW m \in BridgeMessages
               PROVE  B!CustodyOf(m)' = IF m \in lost THEN "lost"
                                      ELSE IF m \in kept THEN "kept" ELSE B!CustodyOf(m)
    OBVIOUS
  <2>1. CASE m \in lost
    BY <1>1, <2>1, TransitIsTaken DEF B!CustodyOf, BridgeInv, B!OnePlace
  <2>2. CASE m \in kept
    BY <1>1, <2>2, TransitIsTaken DEF B!CustodyOf
  <2>3. CASE m \notin lost \cup kept
    <3>1. /\ m \in B!Transit' <=> m \in B!Transit
          /\ m \in published' <=> m \in published
          /\ m \in dropped' <=> m \in dropped
      BY <1>1, <2>3
    <3>2. QED
      BY <2>3, <3>1 DEF B!CustodyOf
  <2>4. QED
    BY <2>1, <2>2, <2>3
<1>4. B!Contract!Lose(lost, kept)
  BY <1>2, <1>3 DEF B!Contract!Lose
<1>5. QED
  BY <1>4

(* Every step is one of the contract's, or hands nothing over. *)
LEMMA BridgeCustodyStep ==
    ASSUME B!BridgeAssumption
    PROVE  BridgeInv /\ [B!Next]_(B!vars) => [B!Contract!Next]_bridgeCustodies
<1> SUFFICES ASSUME BridgeInv, [B!Next]_(B!vars)
             PROVE  B!Contract!Next \/ bridgeCustodies' = bridgeCustodies
  OBVIOUS
<1>0. /\ B!Transit \cap (bridgeQueued \cup bridgeUnsettled) = {} /\ B!OnePlace
      /\ B!Transit \cup bridgeQueued \cup bridgeUnsettled \cup published \cup bridgeRecovered \cup dropped
             \subseteq bridgeArrived
  BY TransitIsTaken DEF BridgeInv, SourceInv, B!OnePlace, B!Taken
<1>1. ASSUME NEW m \in BridgeMessages, B!Arrive(m) PROVE B!Contract!Pass(m, "none", "source")
  <2>1. B!Transit' = B!Transit /\ UNCHANGED <<bridgeUnsettled, published, B!ledger>>
    BY <1>1 DEF B!Arrive, B!Transit, B!InPipe
  <2>2. B!CustodyOf(m) = "none" /\ B!CustodyOf(m)' = "source"
    BY <1>0, <1>1 DEF B!Arrive, B!CustodyOf
  <2>3. \A n \in BridgeMessages \ {m} : B!CustodyOf(n)' = B!CustodyOf(n)
    BY <1>1, <2>1 DEF B!Arrive, B!CustodyOf
  <2>4. QED
    BY <2>2, <2>3, OneRecordMoves
<1>2. CASE B!Take
  <2>1. PICK m \in BridgeMessages : /\ m \in bridgeQueued /\ bridgeQueued' = bridgeQueued \ {m}
                                    /\ B!Transit' = B!Transit \cup {m}
                                    /\ UNCHANGED <<bridgeUnsettled, published, B!ledger>>
    BY <1>2, TakeEffect DEF BridgeInv, B!TypeOK
  <2>2. B!CustodyOf(m) = "source" /\ B!CustodyOf(m)' = "transit"
    BY <2>1 DEF B!CustodyOf
  <2>3. \A n \in BridgeMessages \ {m} : B!CustodyOf(n)' = B!CustodyOf(n)
    BY <2>1 DEF B!CustodyOf
  <2>4. B!Contract!Pass(m, "source", "transit")
    BY <2>2, <2>3, OneRecordMoves
  <2>5. QED
    BY <2>4 DEF B!Contract!Next
<1>3. CASE B!SettleLost
  <2>1. PICK m \in BridgeMessages : /\ m \in bridgeQueued /\ bridgeQueued' = bridgeQueued \ {m}
                                    /\ bridgeUnsettled' = bridgeUnsettled \cup {m}
    BY <1>3 DEF B!SettleLost, BridgeInv, B!TypeOK
  <2>2. B!Transit' = B!Transit /\ UNCHANGED <<published, B!ledger>>
    BY <1>3 DEF B!SettleLost, B!Transit, B!InPipe
  <2>3. m \notin B!Transit \cup published \cup bridgeRecovered
    BY <1>0, <2>1 DEF B!OnePlace, B!Taken
  <2>4. B!CustodyOf(m) = "source" /\ B!CustodyOf(m)' = "lost"
    BY <2>1, <2>2, <2>3 DEF B!CustodyOf
  <2>5. \A n \in BridgeMessages \ {m} : B!CustodyOf(n)' = B!CustodyOf(n)
    BY <2>1, <2>2 DEF B!CustodyOf
  <2>6. B!Contract!Lose({m}, {})
    BY <2>4, <2>5 DEF B!Contract!Lose
  <2>7. QED
    BY <2>6 DEF B!Contract!Next
<1>4. CASE B!Write
  <2>1. CASE B!Transit' = B!Transit /\ dropped' = dropped
    BY <1>4, <2>1, WriteEffect DEF bridgeCustodies, B!CustodyOf
  <2>2. CASE B!Transit' = B!Transit \ {bridgeHand} /\ dropped' = dropped \cup {bridgeHand}
    BY <1>0, <1>4, <2>2, WriteEffect, GroupLost DEF B!Contract!Next, B!OnePlace
  <2>3. QED
    BY <1>4, <2>1, <2>2, WriteEffect
<1>5. CASE B!WriteRefused \/ B!TargetSend
  <2>1. PICK m \in BridgeMessages : /\ m \in B!Transit /\ B!Transit' = B!Transit \ {m}
                                    /\ published' \cup bridgeRecovered' = published \cup bridgeRecovered \cup {m}
                                    /\ UNCHANGED <<bridgeQueued, bridgeUnsettled, dropped>>
    BY <1>5, RefusedEffect, SendEffect, TransitIsTaken
  <2>2. B!CustodyOf(m) = "transit" /\ B!CustodyOf(m)' = "kept"
    BY <1>0, <2>1 DEF B!CustodyOf
  <2>3. \A n \in BridgeMessages \ {m} : B!CustodyOf(n)' = B!CustodyOf(n)
    BY <2>1 DEF B!CustodyOf
  <2>4. B!Contract!Pass(m, "transit", "kept")
    BY <2>2, <2>3, OneRecordMoves
  <2>5. QED
    BY <2>4 DEF B!Contract!Next
<1>6. CASE B!TargetRead
  BY <1>6, ReadEffect DEF bridgeCustodies, B!CustodyOf
<1>7. CASE B!TargetFails \/ B!KillTarget
  BY <1>7, TargetGoneEffect, GroupLost DEF B!Contract!Next
<1>8. CASE B!Interrupt
  BY <1>0, <1>8, InterruptEffect, GroupLost DEF B!Contract!Next, B!OnePlace
<1>9. CASE \/ B!Enter \/ B!NoTake \/ B!ClosePipe \/ B!Wait \/ B!TargetFinish \/ B!Expire
           \/ UNCHANGED B!vars
  BY <1>9, QuietEffect DEF bridgeCustodies, B!CustodyOf
<1>10. (\E m \in BridgeMessages : B!Contract!Pass(m, "none", "source")) => B!Contract!Next
  BY DEF B!Contract!Next
<1>11. QED
  BY <1>1, <1>2, <1>3, <1>4, <1>5, <1>6, <1>7, <1>8, <1>9, <1>10 DEF B!Next, B!Loop, B!Target

(* However the bridge, its target and the user end, each message keeps to   *)
(* the contract of Custody.                                                 *)
THEOREM BridgeRelays == B!Spec => BridgeKeepsCustody
<1>1. B!Init => B!Contract!Init
  <2>1. B!Init => B!Transit = {}
    BY DEF B!Init, B!Transit, B!InPipe
  <2>2. QED
    BY <2>1 DEF B!Init, B!Contract!Init, B!CustodyOf
<1>2. QED
  BY <1>1, BridgeHolds, BridgeCustodyStep, BridgeInvariance, PTL
     DEF B!Spec, BridgeKeepsCustody, B!KeepsCustody, B!Contract!Spec, bridgeCustodies

=============================================================================
