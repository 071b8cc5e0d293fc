--------------------------- MODULE PipelineProofs ---------------------------
(***************************************************************************)
(* Safety of a pipeline of any number of blocks, with pipes of any size:   *)
(* no message is in two places, a pipeline that reports no error has       *)
(* delivered what it took, one that fails takes one message more at most,  *)
(* and the whole keeps to the contract of Custody.                         *)
(*                                                                         *)
(* The proof has two halves.  What a block holds follows from where it is  *)
(* (BlockInv), so that each step of the pipeline is one of nine moves of   *)
(* messages between places (Effects); that the places stay apart, and that *)
(* the moves are those of Custody, is proved of the moves.  What success   *)
(* means follows from the order in which the blocks end: as long as        *)
(* nothing failed, a block ends after the one in front of it, on an empty  *)
(* pipe (SuccessInv).                                                      *)
(***************************************************************************)
EXTENDS Pipeline, SequenceTheorems, FiniteSetTheorems, TLAPS

(* A producer that reads all of its input before it sends. *)
Gathers(i) == Producer(i) /\ ~Streams(i)

(* What a block holds, by where it is: a record in hand when it writes, or  *)
(* all of its input once that has ended.                                    *)
BlockAt(i) ==
    /\ pc[i] = "poll" => Consumer(i)
    /\ hand[i] # NoMessage => pc[i] = "write"
    /\ gathered[i] # {} => Gathers(i) /\ pc[i] \in {"run", "write"}
    /\ pc[i] = "write" /\ ~Gathers(i) => hand[i] # NoMessage
    /\ pc[i] = "write" /\ Gathers(i) =>
          hand[i] = NoMessage /\ pipe[i] = <<>> /\ pc[i - 1] = "done"

BlockInv == pipe[1] = <<>> /\ \A i \in Blocks : BlockAt(i)

Once(s) == \A a, b \in DOMAIN s : s[a] = s[b] => a = b

(* Every message has one place, in one pipe once. *)
PlaceInv ==
    /\ OnePlace
    /\ queued \cap unsettled = {}
    /\ \A i \in Blocks : Once(pipe[i])

(* Without a failure nothing is lost, and the blocks end in their order.    *)
SuccessInv ==
    /\ setup = "returned" => \A i \in Blocks : pc[i] = "done"
    /\ failure = 0 /\ ~early /\ setup # "failed" =>
        /\ lost = {}
        /\ \A i \in 2..Last :
            /\ i \in collected => pc[i] = "done"
            /\ pc[i] = "done" => pipe[i] = <<>> /\ pc[i - 1] = "done"

(* A message taken late was the last. *)
LateInv ==
    late # {} =>
        /\ cancelled
        /\ pc[1] # "poll"
        /\ \E m \in late : late = {m}

IInv == TypeOK /\ BlockInv /\ PlaceInv /\ SuccessInv /\ LateInv

----------------------------------------------------------------------------
(* Sequences without repetition. *)

(* What appending to a pipe adds. *)
LEMMA AppendEffect ==
    ASSUME NEW S, NEW s \in Seq(S), NEW m \in S
    PROVE  /\ Append(s, m) \in Seq(S)
           /\ Len(Append(s, m)) = Len(s) + 1
           /\ Range(Append(s, m)) = Range(s) \cup {m}
           /\ Once(s) /\ m \notin Range(s) => Once(Append(s, m))
<1> DEFINE t == Append(s, m)
<1>1. /\ t \in Seq(S) /\ Len(t) = Len(s) + 1 /\ Len(s) \in Nat
      /\ DOMAIN s = 1..Len(s) /\ DOMAIN t = 1..Len(t)
      /\ t[Len(s) + 1] = m /\ \A a \in DOMAIN s : t[a] = s[a]
  OBVIOUS
<1> HIDE DEF t
<1>2. DOMAIN t = DOMAIN s \cup {Len(s) + 1}
  BY <1>1
<1>3. Range(t) = Range(s) \cup {m}
  BY <1>1, <1>2 DEF Range
<1>4. ASSUME Once(s), m \notin Range(s) PROVE Once(t)
  <2>1. \A a \in DOMAIN s : s[a] # m
    BY <1>4 DEF Range
  <2>2. QED
    BY <1>1, <1>2, <1>4, <2>1 DEF Once
<1>5. QED
  BY <1>1, <1>3, <1>4 DEF t

(* What reading from a pipe takes. *)
LEMMA TailEffect ==
    ASSUME NEW S, NEW s \in Seq(S), s # <<>>, Once(s)
    PROVE  /\ Head(s) \in S /\ Head(s) \in Range(s)
           /\ Tail(s) \in Seq(S)
           /\ Len(Tail(s)) <= Len(s)
           /\ Range(Tail(s)) = Range(s) \ {Head(s)}
           /\ Once(Tail(s))
<1> DEFINE t == Tail(s)
<1>1. /\ t \in Seq(S) /\ Len(s) \in Nat \ {0} /\ Len(t) = Len(s) - 1
      /\ DOMAIN s = 1..Len(s) /\ DOMAIN t = 1..Len(t)
      /\ Head(s) = s[1] /\ s[1] \in S
      /\ \A a \in DOMAIN t : t[a] = s[a + 1]
  OBVIOUS
<1> HIDE DEF t
<1>2. \A a \in DOMAIN t : a + 1 \in DOMAIN s /\ a + 1 # 1 /\ 1 \in DOMAIN s
  BY <1>1
<1>3. \A b \in DOMAIN s : b = 1 \/ (b - 1 \in DOMAIN t /\ t[b - 1] = s[b])
  BY <1>1
<1>4. 1 \in DOMAIN s /\ Head(s) = s[1]
  BY <1>1
<1>5. Range(t) \subseteq Range(s) /\ Head(s) \notin Range(t)
  BY <1>1, <1>2, <1>4 DEF Range, Once
<1>6. Range(s) \subseteq Range(t) \cup {Head(s)}
  BY <1>3, <1>4 DEF Range
<1>7. Once(t)
  <2> SUFFICES ASSUME NEW a \in DOMAIN t, NEW b \in DOMAIN t, t[a] = t[b] PROVE a = b
    BY DEF Once
  <2>1. a + 1 = b + 1
    BY <1>1, <1>2 DEF Once
  <2>2. QED
    BY <1>1, <2>1
<1>8. Head(s) \in Range(s)
  BY <1>4 DEF Range
<1>9. QED
  BY <1>1, <1>5, <1>6, <1>7, <1>8 DEF t

(* An empty pipe. *)
LEMMA NothingInside ==
    /\ Range(<<>>) = {}
    /\ Once(<<>>)
    /\ \A S : <<>> \in Seq(S)
    /\ Len(<<>>) = 0
BY DEF Range, Once

----------------------------------------------------------------------------
(* The pipeline that runs does not change. *)
LEMMA SameLine ==
    [Next]_vars => /\ line' = line /\ Last' = Last /\ Blocks' = Blocks
                   /\ \A i : Gathers(i)' <=> Gathers(i)
<1> SUFFICES ASSUME [Next]_vars PROVE line' = line
  BY DEF Last, Blocks, Gathers, Producer, Streams, NdjsonIn, Verb
<1>1. ASSUME NEW i \in Blocks, Step(i) PROVE line' = line
  BY <1>1 DEF Step, Poll, StopConsuming, Take, NoTake, SettleLost, EncodeFails,
     FlagRefused, WriteOut, WritePipe, WriteBroken, Read, Eof, Swallow, Send, SendFails
<1>2. ASSUME NEW i \in Blocks, Launch(i) \/ Quit(i) \/ Collect(i) PROVE line' = line
  BY <1>2 DEF Launch, Quit, Collect
<1>3. QED
  BY <1>1, <1>2 DEF Next, vars, PipeFails, Wait, Interrupt, Ended, Arrive

(* A pipeline begins with its source, and nothing else is one. *)
LEMMA Shape ==
    ASSUME line \in Lines
    PROVE  /\ Last \in Nat /\ Last > 1
           /\ 1 \in Blocks /\ Last \in Blocks
           /\ \A i \in Blocks : i \in Nat /\ (i > 1 => i - 1 \in Blocks /\ i \in 2..Last)
           /\ \A i \in Blocks : line[i] \in Sources <=> i = 1
           /\ \A i \in Blocks : Consumer(i) => i = 1
           /\ \A i \in Blocks : Consumer(i) \/ line[i] \in {"request", "filter"} => ~Gathers(i)
<1>1. /\ line \in Seq(Kinds) /\ Len(line) > 1
      /\ \A i \in DOMAIN line : line[i] \in Sources <=> i = 1
  BY PipelineAssumption
<1>2. Len(line) \in Nat /\ DOMAIN line = 1..Len(line)
  BY <1>1
<1>3. QED
  BY <1>1, <1>2 DEF Last, Blocks, Consumer, Sources, Gathers, Producer

----------------------------------------------------------------------------
(* The places of the messages, block by block. *)
Held == [i \in Blocks |-> Holds(i)]
Piped == [i \in Blocks |-> Range(pipe[i])]

(* The initial states satisfy the invariant. *)
LEMMA InitIInv == Init => IInv
<1> SUFFICES ASSUME Init PROVE IInv
  OBVIOUS
<1>0. /\ Last \in Nat /\ Last > 1 /\ 1 \in Blocks
      /\ \A i \in 2..Last : i \in Blocks
  BY Shape DEF Init, Blocks
<1>1. /\ \A i \in Blocks : /\ hand[i] = NoMessage /\ gathered[i] = {}
                           /\ pipe[i] = <<>> /\ pc[i] = "new"
      /\ setup = "wiring" /\ failure = 0
  BY DEF Init
<1>2. TypeOK
  <2>1. \A i \in Blocks : pipe[i] \in Seq(Messages) /\ Len(pipe[i]) <= PipeCap
    <3>1. <<>> \in Seq(Messages) /\ Len(<<>>) <= PipeCap
      BY PipelineAssumption
    <3>2. QED
      BY <1>1, <3>1
  <2>2. pipe \in [Blocks -> Seq(Messages)]
    BY <2>1 DEF Init
  <2>3. /\ pc \in [Blocks -> {"new", "run", "poll", "write", "done"}]
        /\ hand \in [Blocks -> Messages \cup {NoMessage}]
        /\ gathered \in [Blocks -> SUBSET Messages]
    BY DEF Init
  <2>4. /\ line \in Lines /\ setup = "wiring" /\ failure \in 0..Last
        /\ collected = {} /\ arrived = {}
        /\ queued = {} /\ unsettled = {} /\ kept = {} /\ lost = {} /\ late = {}
    BY <1>0 DEF Init
  <2>5. {cancelled, interrupted, early} \subseteq BOOLEAN
    <3>1. cancelled = FALSE /\ interrupted = FALSE /\ early = FALSE
      BY Zenon DEF Init
    <3>2. QED
      BY <3>1
  <2>6. QED
    BY <2>1, <2>2, <2>3, <2>4, <2>5 DEF TypeOK
<1>3. BlockInv
  BY <1>0, <1>1 DEF BlockInv, BlockAt
<1>4. PlaceInv
  <2>1. \A i \in Blocks : Holds(i) = {} /\ Range(pipe[i]) = {} /\ Once(pipe[i])
    BY <1>1, NothingInside DEF Holds
  <2>2. Transit = {} /\ Taken = {}
    BY <2>1 DEF Transit, Taken, Init
  <2>3. QED
    BY <2>1, <2>2 DEF Init, OnePlace, PlaceInv
<1>5. SuccessInv
  BY <1>0, <1>1 DEF Init, SuccessInv
<1>6. LateInv
  BY DEF Init, LateInv
<1>7. QED
  BY <1>2, <1>3, <1>4, <1>5, <1>6 DEF IInv

(* A message is on the way where a block holds it or a pipe does. *)
LEMMA InTransit ==
    /\ Transit = UNION {Held[i] \cup Piped[i] : i \in Blocks}
    /\ \A i \in Blocks : Held[i] = Holds(i) /\ Piped[i] = Range(pipe[i])
BY DEF Transit, Held, Piped

(* All that is on the way has arrived. *)
LEMMA OnTheWay ==
    ASSUME TypeOK, PlaceInv, NEW i \in Blocks
    PROVE  Holds(i) \subseteq arrived /\ Range(pipe[i]) \subseteq arrived
BY DEF PlaceInv, OnePlace, Taken, Transit

(* What a block that works record by record has in hand. *)
LEMMA OneRecord ==
    ASSUME TypeOK, BlockInv, NEW i \in Blocks, ~Gathers(i)
    PROVE  /\ gathered[i] = {}
           /\ pc[i] = "write" => hand[i] \in Messages /\ Holds(i) = {hand[i]}
BY PipelineAssumption DEF TypeOK, BlockInv, BlockAt, Holds

(* What a block that is not writing holds. *)
LEMMA NotWriting ==
    ASSUME BlockInv, NEW i \in Blocks, pc[i] # "write"
    PROVE  /\ hand[i] = NoMessage /\ Holds(i) = gathered[i]
           /\ ~Gathers(i) \/ pc[i] # "run" => Holds(i) = {}
BY DEF BlockInv, BlockAt, Holds

(* How the places follow the variables. *)
LEMMA HeldExcept ==
    ASSUME TypeOK, line' = line, NEW i \in Blocks, NEW h, NEW g,
           hand' = [hand EXCEPT ![i] = h], gathered' = [gathered EXCEPT ![i] = g]
    PROVE  Held' = [Held EXCEPT ![i] = ({h} \ {NoMessage}) \cup g]
<1>1. Blocks' = Blocks
  BY DEF Blocks, Last
<1>2. hand \in [Blocks -> Messages \cup {NoMessage}] /\ gathered \in [Blocks -> SUBSET Messages]
  BY DEF TypeOK
<1>3. \A j \in Blocks : Holds(j)' = IF j = i THEN ({h} \ {NoMessage}) \cup g ELSE Holds(j)
  BY <1>2 DEF Holds
<1>4. QED
  BY <1>1, <1>3 DEF Held

(* One pipe changes. *)
LEMMA PipedExcept ==
    ASSUME TypeOK, line' = line, NEW i \in Blocks, NEW s, pipe' = [pipe EXCEPT ![i] = s]
    PROVE  Piped' = [Piped EXCEPT ![i] = Range(s)]
<1>1. Blocks' = Blocks
  BY DEF Blocks, Last
<1>2. DOMAIN pipe = Blocks
  BY DEF TypeOK
<1>3. \A j \in Blocks : pipe'[j] = IF j = i THEN s ELSE pipe[j]
  BY <1>2
<1>4. \A j \in Blocks : Range(pipe'[j]) = IF j = i THEN Range(s) ELSE Range(pipe[j])
  BY <1>3
<1>5. QED
  BY <1>1, <1>4, Zenon DEF Piped

(* What the blocks hold changes only with what is in their hands. *)
LEMMA SameHeld ==
    ASSUME line' = line, hand' = hand, gathered' = gathered
    PROVE  Held' = Held
BY DEF Held, Holds, Blocks, Last

(* Where no pipe changes, the same is in the pipes. *)
LEMMA SamePiped ==
    ASSUME line' = line, pipe' = pipe
    PROVE  Piped' = Piped
BY DEF Piped, Blocks, Last

(* A block that lets go of what it holds. *)
LEMMA EmptyEffect ==
    ASSUME TypeOK, line' = line, NEW i \in Blocks, Empty(i)
    PROVE  Held' = [Held EXCEPT ![i] = {}]
<1>1. ({NoMessage} \ {NoMessage}) \cup {} = {}
  OBVIOUS
<1>2. /\ hand' = [hand EXCEPT ![i] = NoMessage]
      /\ gathered' = [gathered EXCEPT ![i] = {}]
  BY DEF Empty
<1>3. Held' = [Held EXCEPT ![i] = ({NoMessage} \ {NoMessage}) \cup {}]
  BY <1>2, HeldExcept
<1>4. QED
  BY <1>1, <1>3

----------------------------------------------------------------------------
(* The nine moves of messages between places. *)

Outside == <<arrived, queued, unsettled, kept, lost>>

Arrives ==
    \E m \in Messages :
        /\ m \notin arrived
        /\ arrived' = arrived \cup {m}
        /\ queued' = queued \cup {m}
        /\ UNCHANGED <<unsettled, kept, lost, Held, Piped>>

Takes(i) ==
    \E m \in queued :
        /\ queued' = queued \ {m}
        /\ Held[i] = {}
        /\ Held' = [Held EXCEPT ![i] = {m}]
        /\ UNCHANGED <<arrived, unsettled, kept, lost, Piped>>

Forgets ==
    \E m \in queued :
        /\ queued' = queued \ {m}
        /\ unsettled' = unsettled \cup {m}
        /\ UNCHANGED <<arrived, kept, lost, Held, Piped>>

Passes(i) ==
    \E m \in Messages :
        /\ Held[i] = {m}
        /\ Held' = [Held EXCEPT ![i] = {}]
        /\ i + 1 \in Blocks
        /\ Piped' = [Piped EXCEPT ![i + 1] = Piped[i + 1] \cup {m}]
        /\ UNCHANGED Outside

Reads(i) ==
    \E m \in Piped[i] :
        /\ Held' = [Held EXCEPT ![i] = Held[i] \cup {m}]
        /\ Piped' = [Piped EXCEPT ![i] = Piped[i] \ {m}]
        /\ UNCHANGED Outside

Keeps(i) ==
    /\ Held' = [Held EXCEPT ![i] = {}]
    /\ kept' = kept \cup Held[i]
    /\ UNCHANGED <<arrived, queued, unsettled, lost, Piped>>

Loses(i) ==
    /\ Held' = [Held EXCEPT ![i] = {}]
    /\ lost' = lost \cup Held[i]
    /\ UNCHANGED <<arrived, queued, unsettled, kept, Piped>>

Drains(i) ==
    /\ Piped' = [Piped EXCEPT ![i] = {}]
    /\ lost' = lost \cup Piped[i]
    /\ UNCHANGED <<arrived, queued, unsettled, kept, Held>>

Stays == UNCHANGED <<Outside, Held, Piped>>

(* The record a block writes: it is all the block holds. *)
LEMMA WrittenRecord ==
    ASSUME IInv, NEW i \in Blocks, pc[i] = "write", line[i] = "filter" \/ Consumer(i)
    PROVE  hand[i] \in Messages /\ Held[i] = {hand[i]} /\ ~Gathers(i)
<1>1. ~Gathers(i)
  BY Shape DEF IInv, TypeOK
<1>2. QED
  BY <1>1, OneRecord, InTransit DEF IInv

(* Take. *)
LEMMA TakeEffect ==
    ASSUME IInv, line' = line, NEW i \in Blocks, Take(i)
    PROVE  Takes(i)
<1> USE DEF IInv
<1>1. PICK m \in queued : queued' = queued \ {m} /\ hand' = [hand EXCEPT ![i] = m]
  BY DEF Take
<1>2. /\ pc[i] = "poll" /\ gathered' = gathered /\ pipe' = pipe
      /\ UNCHANGED <<arrived, unsettled, kept, lost>>
  BY DEF Take, io, ledger
<1>3. Consumer(i) /\ ~Gathers(i)
  BY <1>2, Shape DEF BlockInv, BlockAt, TypeOK
<1>4. gathered[i] = {} /\ Holds(i) = {}
  BY <1>2, <1>3, NotWriting
<1>5. gathered' = [gathered EXCEPT ![i] = {}]
  BY <1>2, <1>4 DEF TypeOK
<1>6. m # NoMessage
  BY <1>1, PipelineAssumption DEF TypeOK
<1>7. Held' = [Held EXCEPT ![i] = ({m} \ {NoMessage}) \cup {}]
  BY <1>1, <1>5, HeldExcept
<1>8. ({m} \ {NoMessage}) \cup {} = {m}
  BY <1>6
<1>9. Held' = [Held EXCEPT ![i] = {m}] /\ Held[i] = {} /\ Piped' = Piped
  BY <1>2, <1>4, <1>7, <1>8, SamePiped, InTransit
<1>10. QED
  BY <1>1, <1>2, <1>9 DEF Takes

(* Read. *)
LEMMA ReadEffect ==
    ASSUME IInv, line' = line, NEW i \in Blocks, Read(i)
    PROVE  /\ Reads(i)
           /\ pipe[i] # <<>> /\ pipe' = [pipe EXCEPT ![i] = Tail(pipe[i])]
<1> USE DEF IInv
<1>1. /\ pc[i] = "run" /\ pipe[i] # <<>> /\ pipe' = [pipe EXCEPT ![i] = Tail(pipe[i])]
      /\ UNCHANGED Outside
  BY DEF Read, source, ledger, Outside
<1>2. pipe[i] \in Seq(Messages) /\ Once(pipe[i])
  BY DEF TypeOK, PlaceInv
<1> DEFINE m == Head(pipe[i])
<1>3. /\ m \in Messages /\ m \in Range(pipe[i])
      /\ Range(Tail(pipe[i])) = Range(pipe[i]) \ {m}
  BY <1>1, <1>2, TailEffect
<1>4. Piped' = [Piped EXCEPT ![i] = Piped[i] \ {m}]
  <2>1. Piped' = [Piped EXCEPT ![i] = Range(Tail(pipe[i]))]
    BY <1>1, PipedExcept
  <2>2. QED
    BY <1>3, <2>1, InTransit
<1>5. m # NoMessage
  BY <1>3, PipelineAssumption
<1>6. \/ /\ ~Gathers(i)
         /\ hand' = [hand EXCEPT ![i] = m] /\ gathered' = gathered
      \/ gathered' = [gathered EXCEPT ![i] = gathered[i] \cup {m}] /\ hand' = hand
  BY DEF Read, Gathers, Producer
<1> HIDE DEF m
<1>7. Holds(i) = gathered[i] /\ hand[i] = NoMessage
  BY <1>1, NotWriting
<1>8. Held' = [Held EXCEPT ![i] = gathered[i] \cup {m}]
  <2>1. CASE ~Gathers(i) /\ hand' = [hand EXCEPT ![i] = m] /\ gathered' = gathered
    <3>1. gathered' = [gathered EXCEPT ![i] = gathered[i]]
      BY <2>1 DEF TypeOK
    <3>2. Held' = [Held EXCEPT ![i] = ({m} \ {NoMessage}) \cup gathered[i]]
      BY <2>1, <3>1, HeldExcept
    <3>3. ({m} \ {NoMessage}) \cup gathered[i] = gathered[i] \cup {m}
      BY <1>5
    <3>4. QED
      BY <3>2, <3>3
  <2>2. CASE gathered' = [gathered EXCEPT ![i] = gathered[i] \cup {m}] /\ hand' = hand
    <3>1. hand' = [hand EXCEPT ![i] = NoMessage]
      BY <1>7, <2>2 DEF TypeOK
    <3>2. Held' = [Held EXCEPT ![i] = ({NoMessage} \ {NoMessage}) \cup (gathered[i] \cup {m})]
      BY <2>2, <3>1, HeldExcept
    <3>3. ({NoMessage} \ {NoMessage}) \cup (gathered[i] \cup {m}) = gathered[i] \cup {m}
      OBVIOUS
    <3>4. QED
      BY <3>2, <3>3
  <2>3. QED
    BY <1>6, <2>1, <2>2
<1>9. m \in Piped[i] /\ Held[i] = gathered[i]
  BY <1>3, <1>7, InTransit DEF m
<1>10. Reads(i)
  BY <1>1, <1>4, <1>8, <1>9 DEF Reads
<1>11. QED
  BY <1>1, <1>10

(* WritePipe. *)
LEMMA WritePipeEffect ==
    ASSUME IInv, line' = line, NEW i \in Blocks, WritePipe(i)
    PROVE  /\ Passes(i)
           /\ i + 1 \in Blocks /\ hand[i] \in Messages /\ hand[i] \notin Range(pipe[i + 1])
           /\ pipe' = [pipe EXCEPT ![i + 1] = Append(pipe[i + 1], hand[i])]
<1> USE DEF IInv
<1>1. hand[i] \in Messages /\ Held[i] = {hand[i]}
  BY WrittenRecord DEF WritePipe, Writes
<1>2. /\ i < Last /\ Empty(i) /\ UNCHANGED Outside
      /\ pipe' = [pipe EXCEPT ![i + 1] = Append(pipe[i + 1], hand[i])]
  BY DEF WritePipe, source, ledger, Outside
<1>3. i + 1 \in Blocks
  BY <1>2, Shape DEF Blocks, TypeOK
<1>4. pipe[i + 1] \in Seq(Messages)
  BY <1>3 DEF TypeOK
<1>5. Range(Append(pipe[i + 1], hand[i])) = Range(pipe[i + 1]) \cup {hand[i]}
  BY <1>1, <1>4, AppendEffect
<1>6. Piped' = [Piped EXCEPT ![i + 1] = Range(Append(pipe[i + 1], hand[i]))]
  BY <1>2, <1>3, PipedExcept
<1>7. Piped' = [Piped EXCEPT ![i + 1] = Piped[i + 1] \cup {hand[i]}]
  BY <1>3, <1>5, <1>6, InTransit
<1>8. Held' = [Held EXCEPT ![i] = {}]
  BY <1>2, EmptyEffect
<1>9. Passes(i)
  BY <1>1, <1>2, <1>3, <1>7, <1>8 DEF Passes
<1>10. hand[i] \notin Range(pipe[i + 1])
  BY <1>1, <1>3, InTransit DEF PlaceInv, OnePlace
<1>11. QED
  BY <1>1, <1>2, <1>3, <1>9, <1>10

(* What is delivered, shown or swallowed; a send that fails may lose it.    *)
LEMMA KeepEffect ==
    ASSUME IInv, line' = line, NEW i \in Blocks,
           WriteOut(i) \/ Swallow(i) \/ Send(i) \/ SendFails(i)
    PROVE  Keeps(i) \/ Loses(i)
<1> USE DEF IInv
<1>1. /\ Empty(i) /\ pipe' = pipe /\ UNCHANGED <<arrived, queued, unsettled>>
  BY DEF WriteOut, Swallow, Send, SendFails, io, source
<1>2. Held' = [Held EXCEPT ![i] = {}] /\ Piped' = Piped /\ Held[i] = Holds(i)
  BY <1>1, EmptyEffect, SamePiped, InTransit
<1>3. CASE WriteOut(i) \/ Swallow(i)
  <2>1. Held[i] = {hand[i]}
    BY <1>3, WrittenRecord DEF WriteOut, Writes, Swallow
  <2>2. kept' = kept \cup {hand[i]} /\ lost' = lost
    BY <1>3 DEF WriteOut, Swallow
  <2>3. QED
    BY <1>1, <1>2, <2>1, <2>2 DEF Keeps
<1>4. CASE Send(i)
  BY <1>1, <1>2, <1>4 DEF Send, Keeps
<1>5. CASE SendFails(i)
  BY <1>1, <1>2, <1>5 DEF SendFails, Keeps, Loses
<1>6. QED
  BY <1>3, <1>4, <1>5

(* What a block that fails or leaves had. *)
LEMMA LoseEffect ==
    ASSUME IInv, line' = line, NEW i \in Blocks,
           EncodeFails(i) \/ WriteBroken(i) \/ Quit(i)
    PROVE  Loses(i)
<1> USE DEF IInv
<1>1. /\ Empty(i) /\ pipe' = pipe /\ UNCHANGED <<arrived, queued, unsettled, kept>>
  BY DEF EncodeFails, WriteBroken, Quit, io, source
<1>2. Held' = [Held EXCEPT ![i] = {}] /\ Piped' = Piped /\ Held[i] = Holds(i)
  BY <1>1, EmptyEffect, SamePiped, InTransit
<1>3. CASE EncodeFails(i) \/ WriteBroken(i)
  <2>1. Held[i] = {hand[i]}
    BY <1>3, WrittenRecord DEF EncodeFails, WriteBroken, Writes
  <2>2. lost' = lost \cup {hand[i]}
    BY <1>3 DEF EncodeFails, WriteBroken
  <2>3. QED
    BY <1>1, <1>2, <2>1, <2>2 DEF Loses
<1>4. CASE Quit(i)
  BY <1>1, <1>2, <1>4 DEF Quit, Loses
<1>5. QED
  BY <1>3, <1>4

(* Every step of the pipeline is one of the moves. *)
Move(i) == Takes(i) \/ Passes(i) \/ Reads(i) \/ Keeps(i) \/ Loses(i) \/ Drains(i)

(* They are all there are. *)
LEMMA Effects ==
    ASSUME IInv, [Next]_vars
    PROVE  Arrives \/ Forgets \/ Stays \/ \E i \in Blocks : Move(i)
<1>0. line' = line
  BY SameLine
<1>1. ASSUME NEW i \in Blocks, Take(i) PROVE Move(i)
  BY <1>0, <1>1, TakeEffect DEF Move
<1>2. ASSUME NEW i \in Blocks, Read(i) PROVE Move(i)
  BY <1>0, <1>2, ReadEffect DEF Move
<1>3. ASSUME NEW i \in Blocks, WritePipe(i) PROVE Move(i)
  BY <1>0, <1>3, WritePipeEffect DEF Move
<1>4. ASSUME NEW i \in Blocks, WriteOut(i) \/ Swallow(i) \/ Send(i) PROVE Move(i)
  BY <1>0, <1>4, KeepEffect DEF Move
<1>5. ASSUME NEW i \in Blocks, EncodeFails(i) \/ WriteBroken(i) \/ Quit(i) PROVE Move(i)
  BY <1>0, <1>5, LoseEffect DEF Move
<1>6. ASSUME NEW i \in Blocks, SendFails(i) PROVE Move(i)
  BY <1>0, <1>6, KeepEffect DEF Move
<1>7. ASSUME NEW i \in Blocks, Collect(i) PROVE Move(i)
  <2>1. /\ pipe' = [pipe EXCEPT ![i] = <<>>] /\ lost' = lost \cup Range(pipe[i])
        /\ hand' = hand /\ gathered' = gathered
        /\ UNCHANGED <<arrived, queued, unsettled, kept>>
    BY <1>7 DEF Collect, source
  <2>2. Held' = Held /\ Piped' = [Piped EXCEPT ![i] = {}] /\ Piped[i] = Range(pipe[i])
    BY <1>0, <2>1, SameHeld, PipedExcept, NothingInside, InTransit DEF IInv
  <2>3. QED
    BY <2>1, <2>2 DEF Drains, Move
<1>8. ASSUME NEW i \in Blocks, SettleLost(i) PROVE Forgets
  BY <1>0, <1>8, SameHeld, SamePiped DEF SettleLost, io, ledger, Forgets
<1>9. ASSUME NEW m \in Messages, Arrive(m) PROVE Arrives
  BY <1>0, <1>9, SameHeld, SamePiped DEF Arrive, io, ledger, Arrives
<1>10. ASSUME hand' = hand, gathered' = gathered, pipe' = pipe, UNCHANGED Outside PROVE Stays
  BY <1>0, <1>10, SameHeld, SamePiped DEF Stays
<1>11. ASSUME NEW i \in Blocks,
              \/ Launch(i) \/ Poll(i) \/ StopConsuming(i) \/ NoTake(i)
              \/ FlagRefused(i) \/ Eof(i)
       PROVE  hand' = hand /\ gathered' = gathered /\ pipe' = pipe /\ UNCHANGED Outside
  BY <1>11 DEF Launch, Poll, StopConsuming, NoTake, FlagRefused, Eof, io, source, ledger, Outside
<1>12. ASSUME PipeFails \/ Wait \/ Interrupt \/ UNCHANGED vars
       PROVE  hand' = hand /\ gathered' = gathered /\ pipe' = pipe /\ UNCHANGED Outside
  BY <1>12 DEF PipeFails, Wait, Interrupt, vars, io, source, ledger, Outside
<1>13. QED
  BY <1>1, <1>2, <1>3, <1>4, <1>5, <1>6, <1>7, <1>8, <1>9, <1>10, <1>11, <1>12
     DEF Next, Step, Ended

----------------------------------------------------------------------------
(* The moves keep every message at one place. *)

Separate ==
    \A i, j \in Blocks :
        /\ Held[i] \cap Piped[j] = {}
        /\ i # j => Held[i] \cap Held[j] = {} /\ Piped[i] \cap Piped[j] = {}

Accounted ==
    /\ arrived \ (queued \cup unsettled) = Transit \cup kept \cup lost
    /\ Transit \cap (kept \cup lost) = {}
    /\ kept \cap lost = {}
    /\ queued \cap unsettled = {}
    /\ queued \subseteq arrived /\ unsettled \subseteq arrived

(* The two forms of the invariant are one. *)
LEMMA PlaceForm ==
    /\ OnePlace /\ queued \cap unsettled = {} /\ queued \subseteq arrived /\ unsettled \subseteq arrived
         <=> Separate /\ Accounted
    /\ (OnePlace /\ queued \cap unsettled = {} /\ queued \subseteq arrived /\ unsettled \subseteq arrived)'
         <=> (Separate /\ Accounted)'
<1>1. OnePlace /\ queued \cap unsettled = {} /\ queued \subseteq arrived /\ unsettled \subseteq arrived
        <=> Separate /\ Accounted
  BY InTransit DEF OnePlace, Taken, Separate, Accounted
<1>2. \A i \in Blocks' : Held'[i] = Holds(i)' /\ Piped'[i] = Range(pipe[i])'
  BY DEF Held, Piped
<1>3. OnePlace' <=>
        /\ (arrived \ (queued \cup unsettled))' = (Transit \cup kept \cup lost)'
        /\ (Transit \cap (kept \cup lost))' = {}
        /\ (kept \cap lost)' = {}
        /\ Separate'
  BY <1>2 DEF OnePlace, Taken, Separate
<1>4. QED
  BY <1>1, <1>3 DEF Accounted

(* On the way, by block, before and after a step. *)
LEMMA TransitForm ==
    ASSUME Blocks' = Blocks
    PROVE  /\ \A m : m \in Transit <=> \E i \in Blocks : m \in Held[i] \/ m \in Piped[i]
           /\ \A m : m \in Transit' <=> \E i \in Blocks : m \in Held'[i] \/ m \in Piped'[i]
           /\ Held = [i \in Blocks |-> Held[i]] /\ Piped = [i \in Blocks |-> Piped[i]]
<1>1. Transit = UNION {Held[i] \cup Piped[i] : i \in Blocks}
  BY InTransit
<1>2. Transit' = UNION {Held'[i] \cup Piped'[i] : i \in Blocks}
  BY DEF Transit, Held, Piped
<1>3. QED
  BY <1>1, <1>2 DEF Held, Piped

(* What is held or piped is on the way and nowhere else. *)
LEMMA MoveInside ==
    ASSUME Separate, Accounted, Blocks' = Blocks, NEW i \in Blocks, Passes(i) \/ Reads(i)
    PROVE  Separate' /\ Accounted' /\ Transit' = Transit
<1>1. UNCHANGED Outside
  BY DEF Passes, Reads
<1>2. Separate' /\ Transit' = Transit
  <2>1. CASE Passes(i)
    <3>1. PICK m \in Messages :
            /\ Held[i] = {m} /\ i + 1 \in Blocks
            /\ Held' = [Held EXCEPT ![i] = {}]
            /\ Piped' = [Piped EXCEPT ![i + 1] = Piped[i + 1] \cup {m}]
      BY <2>1 DEF Passes
    <3> DEFINE k == i + 1
    <3>2. k \in Blocks /\ Piped' = [Piped EXCEPT ![k] = Piped[k] \cup {m}]
      BY <3>1
    <3> HIDE DEF k
    <3>3. /\ \A j \in Blocks : Held'[j] = IF j = i THEN {} ELSE Held[j]
          /\ \A j \in Blocks : Piped'[j] = IF j = k THEN Piped[k] \cup {m} ELSE Piped[j]
      BY <3>1, <3>2, TransitForm
    <3>4. /\ Held[i] = {m}
          /\ \A j \in Blocks : m \notin Piped[j] /\ (j # i => m \notin Held[j])
      BY <3>1 DEF Separate
    <3>5. Separate'
      BY <3>2, <3>3, <3>4 DEF Separate
    <3>6. Transit' = Transit
      <4>1. ASSUME NEW n PROVE n \in Transit' <=> n \in Transit
        <5>1. CASE n = m
          BY <3>2, <3>3, <3>4, <5>1, TransitForm
        <5>2. CASE n # m
          BY <3>2, <3>3, <3>4, <5>2, TransitForm
        <5>3. QED
          BY <5>1, <5>2
      <4>2. QED
        BY <4>1
    <3>7. QED
      BY <3>5, <3>6
  <2>2. CASE Reads(i)
    <3>1. PICK m \in Piped[i] :
            /\ Held' = [Held EXCEPT ![i] = Held[i] \cup {m}]
            /\ Piped' = [Piped EXCEPT ![i] = Piped[i] \ {m}]
      BY <2>2 DEF Reads
    <3>2. /\ \A j \in Blocks : Held'[j] = IF j = i THEN Held[i] \cup {m} ELSE Held[j]
          /\ \A j \in Blocks : Piped'[j] = IF j = i THEN Piped[i] \ {m} ELSE Piped[j]
      BY <3>1, TransitForm
    <3>3. \A j \in Blocks : m \notin Held[j] /\ (j # i => m \notin Piped[j])
      BY <3>1 DEF Separate
    <3>4. Separate'
      BY <3>2, <3>3 DEF Separate
    <3>5. Transit' = Transit
      <4>1. ASSUME NEW n PROVE n \in Transit' <=> n \in Transit
        <5>1. CASE n = m
          BY <3>1, <3>2, <5>1, TransitForm
        <5>2. CASE n # m
          BY <3>1, <3>2, <5>2, TransitForm
        <5>3. QED
          BY <5>1, <5>2
      <4>2. QED
        BY <4>1
    <3>6. QED
      BY <3>4, <3>5
  <2>3. QED
    BY <2>1, <2>2
<1>3. QED
  BY <1>1, <1>2 DEF Accounted, Outside

(* A message that comes onto the way was on no block's. *)
LEMMA MoveIn ==
    ASSUME Separate, Accounted, Blocks' = Blocks, NEW i \in Blocks, Takes(i)
    PROVE  /\ Separate' /\ Accounted'
           /\ \E m \in queued : /\ queued' = queued \ {m} /\ Transit' = Transit \cup {m}
                                /\ m \notin Transit \cup kept \cup lost \cup unsettled
<1>1. PICK m \in queued :
        /\ queued' = queued \ {m} /\ Held[i] = {} /\ Held' = [Held EXCEPT ![i] = {m}]
        /\ UNCHANGED <<arrived, unsettled, kept, lost, Piped>>
  BY DEF Takes
<1>2. \A j \in Blocks : Held'[j] = IF j = i THEN {m} ELSE Held[j]
  BY <1>1, TransitForm
<1>3. m \notin Transit \cup kept \cup lost \cup unsettled /\ m \in arrived
  BY <1>1 DEF Accounted
<1>4. \A j \in Blocks : m \notin Held[j] \cup Piped[j]
  BY <1>3, TransitForm
<1>5. Separate'
  BY <1>1, <1>2, <1>4 DEF Separate
<1>6. Transit' = Transit \cup {m}
  <2>1. ASSUME NEW n PROVE n \in Transit' <=> n \in Transit \cup {m}
    BY <1>1, <1>2, TransitForm
  <2>2. QED
    BY <2>1
<1>7. Accounted'
  BY <1>1, <1>3, <1>6 DEF Accounted
<1>8. QED
  BY <1>1, <1>3, <1>5, <1>6, <1>7

(* What leaves the way was on no other block's. *)
LEMMA MoveOut ==
    ASSUME Separate, Accounted, Blocks' = Blocks, NEW i \in Blocks,
           Keeps(i) \/ Loses(i) \/ Drains(i)
    PROVE  /\ Separate' /\ Accounted'
           /\ \E gone \in SUBSET Transit :
                 /\ Transit' = Transit \ gone
                 /\ \/ kept' = kept \cup gone /\ lost' = lost
                    \/ lost' = lost \cup gone /\ kept' = kept
<1>1. UNCHANGED <<arrived, queued, unsettled>>
  BY DEF Keeps, Loses, Drains
<1>2. CASE Keeps(i) \/ Loses(i)
  <2> DEFINE gone == Held[i]
  <2>1. /\ Held' = [Held EXCEPT ![i] = {}] /\ Piped' = Piped
        /\ \/ kept' = kept \cup gone /\ lost' = lost
           \/ lost' = lost \cup gone /\ kept' = kept
    BY <1>2 DEF Keeps, Loses
  <2>2. \A j \in Blocks : Held'[j] = IF j = i THEN {} ELSE Held[j]
    BY <2>1, TransitForm
  <2>3. Separate'
    BY <2>1, <2>2 DEF Separate
  <2>4. gone \subseteq Transit
    BY TransitForm
  <2>5. Transit' = Transit \ gone
    <3>1. ASSUME NEW n PROVE n \in Transit' <=> n \in Transit /\ n \notin gone
      BY <2>1, <2>2, TransitForm DEF Separate
    <3>2. QED
      BY <3>1
  <2> HIDE DEF gone
  <2>6. Accounted'
    BY <1>1, <2>1, <2>4, <2>5 DEF Accounted
  <2>7. QED
    BY <2>1, <2>3, <2>4, <2>5, <2>6
<1>3. CASE Drains(i)
  <2> DEFINE gone == Piped[i]
  <2>1. /\ Piped' = [Piped EXCEPT ![i] = {}] /\ Held' = Held
        /\ lost' = lost \cup gone /\ kept' = kept
    BY <1>3 DEF Drains
  <2>2. \A j \in Blocks : Piped'[j] = IF j = i THEN {} ELSE Piped[j]
    BY <2>1, TransitForm
  <2>3. Separate'
    BY <2>1, <2>2 DEF Separate
  <2>4. gone \subseteq Transit
    BY TransitForm
  <2>5. Transit' = Transit \ gone
    <3>1. ASSUME NEW n PROVE n \in Transit' <=> n \in Transit /\ n \notin gone
      BY <2>1, <2>2, TransitForm DEF Separate
    <3>2. QED
      BY <3>1
  <2> HIDE DEF gone
  <2>6. Accounted'
    BY <1>1, <2>1, <2>4, <2>5 DEF Accounted
  <2>7. QED
    BY <2>1, <2>3, <2>4, <2>5, <2>6
<1>4. QED
  BY <1>2, <1>3

(* The other moves leave the way alone. *)
LEMMA MoveElsewhere ==
    ASSUME Separate, Accounted, Blocks' = Blocks, Arrives \/ Forgets \/ Stays
    PROVE  Separate' /\ Accounted' /\ Transit' = Transit
<1>1. Held' = Held /\ Piped' = Piped
  BY DEF Arrives, Forgets, Stays
<1>2. Transit' = Transit
  <2>1. ASSUME NEW n PROVE n \in Transit' <=> n \in Transit
    BY <1>1, TransitForm
  <2>2. QED
    BY <2>1
<1>3. Separate'
  BY <1>1 DEF Separate
<1>4. Accounted'
  BY <1>2 DEF Arrives, Forgets, Stays, Outside, Accounted
<1>5. QED
  BY <1>2, <1>3, <1>4

(* No pipe holds a message twice. *)
LEMMA OnceStep ==
    ASSUME IInv, [Next]_vars
    PROVE  \A j \in Blocks : Once(pipe'[j])
<1> USE DEF IInv
<1>0. /\ line' = line /\ pipe \in [Blocks -> Seq(Messages)]
      /\ \A j \in Blocks : Once(pipe[j])
  BY SameLine DEF TypeOK, PlaceInv
<1>1. ASSUME NEW i \in Blocks, NEW q, Once(q), pipe' = [pipe EXCEPT ![i] = q]
      PROVE  \A j \in Blocks : Once(pipe'[j])
  BY <1>0, <1>1
<1>2. ASSUME NEW i \in Blocks, Read(i)
      PROVE  Once(Tail(pipe[i])) /\ pipe' = [pipe EXCEPT ![i] = Tail(pipe[i])]
  BY <1>0, <1>2, ReadEffect, TailEffect
<1>3. ASSUME NEW i \in Blocks, WritePipe(i)
      PROVE  \E j \in Blocks : \E q : Once(q) /\ pipe' = [pipe EXCEPT ![j] = q]
  <2>1. /\ i + 1 \in Blocks /\ hand[i] \in Messages /\ hand[i] \notin Range(pipe[i + 1])
        /\ pipe' = [pipe EXCEPT ![i + 1] = Append(pipe[i + 1], hand[i])]
    BY <1>0, <1>3, WritePipeEffect
  <2>2. pipe[i + 1] \in Seq(Messages) /\ Once(pipe[i + 1])
    BY <1>0, <2>1
  <2>3. Once(Append(pipe[i + 1], hand[i]))
    BY <2>1, <2>2, AppendEffect
  <2>4. QED
    BY <2>1, <2>3
<1>4. ASSUME NEW i \in Blocks, Collect(i)
      PROVE  Once(<<>>) /\ pipe' = [pipe EXCEPT ![i] = <<>>]
  BY <1>4, NothingInside DEF Collect
<1>5. ASSUME NEW i \in Blocks,
             \/ Launch(i) \/ Poll(i) \/ StopConsuming(i) \/ Take(i) \/ NoTake(i)
             \/ SettleLost(i) \/ EncodeFails(i) \/ FlagRefused(i) \/ WriteOut(i)
             \/ WriteBroken(i) \/ Eof(i) \/ Swallow(i) \/ Quit(i) \/ Send(i) \/ SendFails(i)
      PROVE  pipe' = pipe
  BY <1>5 DEF Launch, Poll, StopConsuming, Take, NoTake, SettleLost, EncodeFails,
     FlagRefused, WriteOut, WriteBroken, Eof, Swallow, Quit, Send, SendFails, io
<1>6. ASSUME PipeFails \/ Wait \/ Interrupt \/ UNCHANGED vars \/ \E m \in Messages : Arrive(m)
      PROVE  pipe' = pipe
  BY <1>6 DEF PipeFails, Wait, Interrupt, vars, io, Arrive
<1>7. QED
  BY <1>0, <1>1, <1>2, <1>3, <1>4, <1>5, <1>6 DEF Next, Step, Ended

(* Every message keeps one place. *)
LEMMA PlaceStep ==
    ASSUME IInv, [Next]_vars
    PROVE  PlaceInv' /\ Accounted' /\ Separate'
<1> USE DEF IInv
<1>1. Blocks' = Blocks
  BY SameLine
<1>2. queued \subseteq arrived /\ unsettled \subseteq arrived
  BY DEF TypeOK
<1>3. Separate /\ Accounted
  BY <1>2, PlaceForm DEF PlaceInv
<1>4. Separate' /\ Accounted'
  BY <1>1, <1>3, Effects, MoveInside, MoveIn, MoveOut, MoveElsewhere DEF Move
<1>5. OnePlace' /\ (queued \cap unsettled = {})'
  BY <1>4, PlaceForm
<1>6. QED
  BY <1>1, <1>4, <1>5, OnceStep DEF PlaceInv

----------------------------------------------------------------------------
(* The moves are those of Custody. *)

custodies == [m \in Messages |-> CustodyOf(m)]

(* A message that is in one place has that custody. *)
LEMMA CustodyByPlace ==
    ASSUME Accounted, NEW m
    PROVE  /\ m \in queued => CustodyOf(m) = "source"
           /\ m \in Transit => CustodyOf(m) = "transit"
           /\ m \in kept => CustodyOf(m) = "kept"
           /\ m \in lost \cup unsettled => CustodyOf(m) = "lost"
           /\ m \notin arrived => CustodyOf(m) = "none"
BY DEF Accounted, CustodyOf

(* The same after a step. *)
LEMMA CustodyByPlaceAfter ==
    ASSUME Accounted', NEW m
    PROVE  /\ m \in queued' => CustodyOf(m)' = "source"
           /\ m \in Transit' => CustodyOf(m)' = "transit"
           /\ m \in kept' => CustodyOf(m)' = "kept"
           /\ m \in lost' \cup unsettled' => CustodyOf(m)' = "lost"
           /\ m \notin arrived' => CustodyOf(m)' = "none"
BY DEF Accounted, CustodyOf

(* A message that no set tells apart keeps its custody. *)
LEMMA SameCustody ==
    ASSUME NEW m, m \in queued' <=> m \in queued, m \in Transit' <=> m \in Transit,
           m \in kept' <=> m \in kept, m \in lost' \cup unsettled' <=> m \in lost \cup unsettled
    PROVE  CustodyOf(m)' = CustodyOf(m)
BY DEF CustodyOf

(* One message passes from place to place. *)
LEMMA OnePasses ==
    ASSUME NEW m \in Messages, NEW from, NEW to, CustodyOf(m) = from, CustodyOf(m)' = to,
           \A n \in Messages \ {m} : CustodyOf(n)' = CustodyOf(n)
    PROVE  Contract!Pass(m, from, to)
BY DEF Contract!Pass

(* Messages are lost by the source or on the way, or kept. *)
LEMMA SomeLost ==
    ASSUME NEW out \in SUBSET Messages, NEW stay \in SUBSET Messages,
           \A m \in out : CustodyOf(m) \in {"source", "transit"} /\ CustodyOf(m)' = "lost",
           \A m \in stay : CustodyOf(m) = "transit" /\ CustodyOf(m)' = "kept",
           \A m \in Messages \ (out \cup stay) : CustodyOf(m)' = CustodyOf(m)
    PROVE  Contract!Lose(out, stay)
<1>1. ASSUME NEW m \in Messages
      PROVE  CustodyOf(m)' = IF m \in out THEN "lost"
                             ELSE IF m \in stay THEN "kept" ELSE CustodyOf(m)
  OBVIOUS
<1>2. QED
  BY <1>1 DEF Contract!Lose

(* Every step keeps to the contract. *)
LEMMA CustodyStep == IInv /\ [Next]_vars => [Contract!Next]_custodies
<1> SUFFICES ASSUME IInv, [Next]_vars PROVE Contract!Next \/ custodies' = custodies
  OBVIOUS
<1> USE DEF IInv
<1>0. /\ Blocks' = Blocks /\ Separate /\ Accounted /\ Accounted'
      /\ queued \subseteq Messages /\ Transit \subseteq Messages
  <2>1. queued \subseteq arrived /\ unsettled \subseteq arrived /\ arrived \subseteq Messages
    BY DEF TypeOK
  <2>2. Separate /\ Accounted
    BY <2>1, PlaceForm DEF PlaceInv
  <2>3. QED
    BY <2>1, <2>2, SameLine, PlaceStep DEF Accounted
<1>1. Contract!Next <=>
        \/ \E m \in Messages : \/ Contract!Pass(m, "none", "source")
                               \/ Contract!Pass(m, "source", "transit")
                               \/ Contract!Pass(m, "transit", "kept")
        \/ \E out, stay \in SUBSET Messages : Contract!Lose(out, stay)
  BY DEF Contract!Next
<1>2. CASE Arrives
  <2>1. PICK m \in Messages : /\ m \notin arrived
                              /\ queued' = queued \cup {m}
                              /\ UNCHANGED <<unsettled, kept, lost>>
    BY <1>2 DEF Arrives
  <2>2. Transit' = Transit
    BY <1>0, <1>2, MoveElsewhere
  <2>3. CustodyOf(m) = "none" /\ CustodyOf(m)' = "source"
    BY <1>0, <2>1, CustodyByPlace, CustodyByPlaceAfter
  <2>4. \A n \in Messages \ {m} : CustodyOf(n)' = CustodyOf(n)
    BY <2>1, <2>2, SameCustody
  <2>5. QED
    BY <1>1, <2>3, <2>4, OnePasses
<1>3. CASE Forgets
  <2>1. PICK m \in queued : /\ queued' = queued \ {m}
                            /\ unsettled' = unsettled \cup {m}
                            /\ UNCHANGED <<kept, lost>>
    BY <1>3 DEF Forgets
  <2>2. Transit' = Transit
    BY <1>0, <1>3, MoveElsewhere
  <2>3. CustodyOf(m) = "source" /\ CustodyOf(m)' = "lost"
    BY <1>0, <2>1, CustodyByPlace, CustodyByPlaceAfter
  <2>4. \A n \in Messages \ {m} : CustodyOf(n)' = CustodyOf(n)
    BY <2>1, <2>2, SameCustody
  <2>5. {m} \in SUBSET Messages /\ {} \in SUBSET Messages
    BY <1>0
  <2>6. Contract!Lose({m}, {})
    BY <2>3, <2>4, <2>5, SomeLost
  <2>7. QED
    BY <1>1, <2>5, <2>6
<1>4. ASSUME NEW i \in Blocks, Takes(i) PROVE Contract!Next
  <2>1. PICK m \in queued : /\ queued' = queued \ {m} /\ Transit' = Transit \cup {m}
    BY <1>0, <1>4, MoveIn
  <2>2. UNCHANGED <<unsettled, kept, lost>>
    BY <1>4 DEF Takes
  <2>3. CustodyOf(m) = "source" /\ CustodyOf(m)' = "transit"
    BY <1>0, <2>1, CustodyByPlace, CustodyByPlaceAfter
  <2>4. \A n \in Messages \ {m} : CustodyOf(n)' = CustodyOf(n)
    BY <2>1, <2>2, SameCustody
  <2>5. m \in Messages
    BY <1>0
  <2>6. QED
    BY <1>1, <2>3, <2>4, <2>5, OnePasses
<1>5. ASSUME NEW i \in Blocks, Keeps(i) \/ Loses(i) \/ Drains(i) PROVE Contract!Next
  <2>1. PICK gone \in SUBSET Transit :
          /\ Transit' = Transit \ gone
          /\ \/ kept' = kept \cup gone /\ lost' = lost
             \/ lost' = lost \cup gone /\ kept' = kept
    BY <1>0, <1>5, MoveOut
  <2>2. UNCHANGED <<queued, unsettled>>
    BY <1>5 DEF Keeps, Loses, Drains
  <2>3. \A m \in gone : CustodyOf(m) = "transit"
    BY <1>0, CustodyByPlace
  <2>4. \A n \in Messages \ gone : CustodyOf(n)' = CustodyOf(n)
    BY <2>1, <2>2, SameCustody
  <2>5. gone \in SUBSET Messages /\ {} \in SUBSET Messages
    BY <1>0
  <2>6. CASE kept' = kept \cup gone
    <3>1. \A m \in gone : CustodyOf(m)' = "kept"
      BY <1>0, <2>6, CustodyByPlaceAfter
    <3>2. Contract!Lose({}, gone)
      BY <2>3, <2>4, <2>5, <3>1, SomeLost
    <3>3. QED
      BY <1>1, <2>5, <3>2
  <2>7. CASE lost' = lost \cup gone
    <3>1. \A m \in gone : CustodyOf(m)' = "lost"
      BY <1>0, <2>7, CustodyByPlaceAfter
    <3>2. Contract!Lose(gone, {})
      BY <2>3, <2>4, <2>5, <3>1, SomeLost
    <3>3. QED
      BY <1>1, <2>5, <3>2
  <2>8. QED
    BY <2>1, <2>6, <2>7
<1>6. ASSUME Stays \/ \E i \in Blocks : Passes(i) \/ Reads(i) PROVE custodies' = custodies
  <2>1. UNCHANGED Outside
    BY <1>6 DEF Stays, Passes, Reads
  <2>2. Transit' = Transit
    BY <1>0, <1>6, MoveElsewhere, MoveInside
  <2>3. QED
    BY <2>1, <2>2, SameCustody DEF Outside, custodies
<1>7. QED
  BY <1>2, <1>3, <1>4, <1>5, <1>6, Effects DEF Move

----------------------------------------------------------------------------
(* What a block does to itself. *)

Pcs == {"new", "run", "poll", "write", "done"}

(* A step of block i changes the state of that block alone. *)
Local(i) ==
    /\ pc' \in [Blocks -> Pcs]
    /\ hand' \in [Blocks -> Messages \cup {NoMessage}]
    /\ gathered' \in [Blocks -> SUBSET Messages]
    /\ \A j \in Blocks \ {i} :
        pc'[j] = pc[j] /\ hand'[j] = hand[j] /\ gathered'[j] = gathered[j]
    /\ pc[i] = "done" => pc'[i] = "done"

(* A block that lets go of what it holds and goes on, or ends. *)
LEMMA EmptyStep ==
    ASSUME TypeOK, NEW i \in Blocks, pc[i] # "done", Empty(i), NEW l \in {"run", "done"}, Goto(i, l)
    PROVE  Local(i) /\ BlockAt(i)' /\ pc'[i] = l
BY DEF TypeOK, Empty, Goto, Local, Pcs, BlockAt

(* A block that moves on with what it holds. *)
LEMMA GotoStep ==
    ASSUME TypeOK, NEW i \in Blocks, pc[i] # "done", NEW l \in Pcs, Goto(i, l),
           hand' = hand, gathered' = gathered
    PROVE  Local(i) /\ pc'[i] = l /\ hand'[i] = hand[i] /\ gathered'[i] = gathered[i]
BY DEF TypeOK, Goto, Local, Pcs

(* The steps that write, send, swallow or fail: the block has nothing after *)
(* them.                                                                    *)
LEMMA GivingStep ==
    ASSUME TypeOK, NEW i \in Blocks,
           \/ EncodeFails(i) \/ WriteOut(i) \/ WritePipe(i) \/ WriteBroken(i)
           \/ Swallow(i) \/ Quit(i) \/ Send(i) \/ SendFails(i)
    PROVE  Local(i) /\ BlockAt(i)'
<1>1. Empty(i) /\ pc[i] # "done"
  BY DEF EncodeFails, WriteOut, WritePipe, WriteBroken, Writes, Swallow, Quit, Send, SendFails
<1>2. Goto(i, "run") \/ Goto(i, "done")
  BY DEF EncodeFails, WriteOut, WritePipe, WriteBroken, Swallow, Quit, Send, SendFails, Ends
<1>3. QED
  BY <1>1, <1>2, EmptyStep

(* The steps on which a block only moves on. *)
LEMMA MovingStep ==
    ASSUME IInv, line' = line, NEW i \in Blocks,
           \/ Launch(i) \/ Poll(i) \/ StopConsuming(i) \/ NoTake(i) \/ SettleLost(i)
           \/ FlagRefused(i) \/ Eof(i)
    PROVE  Local(i) /\ BlockAt(i)'
<1> USE DEF IInv
<1>0. /\ BlockAt(i) /\ hand' = hand /\ gathered' = gathered /\ pipe' = pipe
      /\ Gathers(i)' <=> Gathers(i)
      /\ Consumer(i)' <=> Consumer(i)
      /\ Consumer(i) \/ line[i] \in {"request", "filter"} => ~Gathers(i)
  BY Shape DEF BlockInv, Launch, Poll, StopConsuming, NoTake, SettleLost, FlagRefused, Eof, io,
     Gathers, Producer, Streams, NdjsonIn, Last, Verb, Consumer, TypeOK
<1>1. pc[i] \in {"new", "run", "poll"} /\ hand[i] = NoMessage
  BY <1>0 DEF BlockAt, Launch, Poll, StopConsuming, NoTake, SettleLost, FlagRefused, Eof
<1>2. CASE Launch(i)
  <2>1. Goto(i, "run") /\ pc[i] = "new"
    BY <1>2 DEF Launch
  <2>2. Local(i) /\ pc'[i] = "run" /\ hand'[i] = hand[i] /\ gathered'[i] = gathered[i]
    BY <1>0, <2>1, GotoStep DEF Pcs
  <2>3. QED
    BY <1>0, <1>1, <2>1, <2>2 DEF BlockAt
<1>3. CASE Poll(i)
  <2>1. Goto(i, "poll") /\ Consumer(i) /\ pc[i] = "run"
    BY <1>3 DEF Poll
  <2>2. Local(i) /\ pc'[i] = "poll" /\ hand'[i] = hand[i] /\ gathered'[i] = gathered[i]
    BY <1>0, <2>1, GotoStep DEF Pcs
  <2>3. QED
    BY <1>0, <1>1, <2>1, <2>2 DEF BlockAt
<1>4. CASE StopConsuming(i) \/ NoTake(i) \/ SettleLost(i) \/ FlagRefused(i)
  <2>1. Goto(i, "run") \/ Goto(i, "done")
    BY <1>4 DEF StopConsuming, NoTake, SettleLost, FlagRefused, AfterError, Ends
  <2>2. gathered[i] = {}
    BY <1>0, <1>4 DEF StopConsuming, NoTake, SettleLost, FlagRefused, BlockAt
  <2>3. PICK l \in {"run", "done"} : Goto(i, l)
    BY <2>1
  <2>4. Local(i) /\ pc'[i] = l /\ hand'[i] = hand[i] /\ gathered'[i] = gathered[i]
    BY <1>0, <1>1, <2>3, GotoStep DEF Pcs
  <2>5. QED
    BY <1>0, <1>1, <2>2, <2>4 DEF BlockAt
<1>5. CASE Eof(i)
  <2>1. /\ i > 1 /\ pc[i] = "run" /\ pipe[i] = <<>> /\ pc[i - 1] = "done"
        /\ \/ Gathers(i) /\ Goto(i, "write")
           \/ ~Gathers(i) /\ Goto(i, "done")
    BY <1>0, <1>5 DEF Eof, Ends, Gathers
  <2>2. PICK l \in {"write", "done"} : Goto(i, l) /\ (l = "write" <=> Gathers(i))
    BY <2>1
  <2>3. Local(i) /\ pc'[i] = l /\ hand'[i] = hand[i] /\ gathered'[i] = gathered[i]
    BY <1>0, <1>1, <2>2, GotoStep DEF Pcs
  <2>4. i - 1 \in Blocks \ {i}
    BY <2>1, Shape DEF TypeOK
  <2>5. pc'[i - 1] = "done"
    BY <2>1, <2>3, <2>4 DEF Local
  <2>6. QED
    BY <1>0, <1>1, <2>1, <2>2, <2>3, <2>5 DEF BlockAt
<1>6. QED
  BY <1>2, <1>3, <1>4, <1>5

(* A consumer that takes a message has one record in hand. *)
LEMMA TakingStep ==
    ASSUME IInv, line' = line, NEW i \in Blocks, Take(i)
    PROVE  Local(i) /\ BlockAt(i)' /\ pc[i] = "poll" /\ pc'[i] = "write"
<1> USE DEF IInv
<1>0. PICK m \in queued : hand' = [hand EXCEPT ![i] = m]
  BY DEF Take
<1>1. /\ pc[i] = "poll" /\ pc' = [pc EXCEPT ![i] = "write"] /\ gathered' = gathered
      /\ m \in Messages /\ m # NoMessage
  BY <1>0, PipelineAssumption DEF Take, Goto, TypeOK
<1>2. Consumer(i) /\ ~Gathers(i) /\ gathered[i] = {}
  BY <1>1, Shape DEF BlockInv, BlockAt, TypeOK
<1>3. ~Gathers(i)'
  BY <1>2 DEF Gathers, Producer, Streams, NdjsonIn, Last, Verb
<1>4. QED
  BY <1>0, <1>1, <1>2, <1>3 DEF Local, Pcs, TypeOK, BlockAt

(* A block that reads has a record in hand, or more of its input. *)
LEMMA ReadingStep ==
    ASSUME IInv, line' = line, NEW i \in Blocks, Read(i)
    PROVE  Local(i) /\ BlockAt(i)' /\ pc[i] = "run" /\ pc'[i] \in {"run", "write"}
<1> USE DEF IInv
<1> DEFINE m == Head(pipe[i])
<1>1. pc[i] = "run" /\ pipe[i] # <<>>
  BY DEF Read
<1>2. pipe[i] \in Seq(Messages) /\ Once(pipe[i])
  BY DEF TypeOK, PlaceInv
<1>3. m \in Messages
  BY <1>1, <1>2, TailEffect
<1>4. m # NoMessage
  BY <1>3, PipelineAssumption
<1>5. \/ /\ ~Gathers(i) /\ hand' = [hand EXCEPT ![i] = m]
         /\ pc' = [pc EXCEPT ![i] = "write"] /\ gathered' = gathered
      \/ /\ Gathers(i) /\ gathered' = [gathered EXCEPT ![i] = gathered[i] \cup {m}]
         /\ pc' = pc /\ hand' = hand
  BY DEF Read, Goto, Gathers, Producer
<1> HIDE DEF m
<1>6. BlockAt(i) /\ (Gathers(i)' <=> Gathers(i))
  BY DEF BlockInv, Gathers, Producer, Streams, NdjsonIn, Last, Verb
<1>7. hand[i] = NoMessage
  BY <1>1, <1>6 DEF BlockAt
<1>8. CASE ~Gathers(i) /\ hand' = [hand EXCEPT ![i] = m]
           /\ pc' = [pc EXCEPT ![i] = "write"] /\ gathered' = gathered
  <2>1. gathered[i] = {}
    BY <1>6, <1>8 DEF BlockAt
  <2>2. QED
    BY <1>1, <1>3, <1>4, <1>6, <1>8, <2>1 DEF Local, Pcs, TypeOK, BlockAt
<1>9. CASE Gathers(i) /\ gathered' = [gathered EXCEPT ![i] = gathered[i] \cup {m}]
           /\ pc' = pc /\ hand' = hand
  BY <1>1, <1>3, <1>6, <1>7, <1>9 DEF Local, Pcs, TypeOK, BlockAt
<1>10. QED
  BY <1>5, <1>8, <1>9

(* The collector leaves the blocks alone. *)
LEMMA CollectingStep ==
    ASSUME IInv, line' = line, NEW i \in Blocks, Collect(i)
    PROVE  Local(i) /\ BlockAt(i)'
<1> USE DEF IInv
<1>1. /\ pc' = pc /\ hand' = hand /\ gathered' = gathered
      /\ pipe' = [pipe EXCEPT ![i] = <<>>]
  BY DEF Collect
<1>2. pipe'[i] = <<>>
  BY <1>1 DEF TypeOK
<1>3. /\ BlockAt(i) /\ (Gathers(i)' <=> Gathers(i))
      /\ Consumer(i)' <=> Consumer(i)
  BY DEF BlockInv, Gathers, Producer, Streams, NdjsonIn, Last, Verb, Consumer
<1>4. QED
  BY <1>1, <1>2, <1>3 DEF Local, Pcs, TypeOK, BlockAt

(* Every step of a block. *)
LEMMA LocalStep ==
    ASSUME IInv, line' = line, NEW i \in Blocks,
           Launch(i) \/ Step(i) \/ Quit(i) \/ Collect(i)
    PROVE  Local(i) /\ BlockAt(i)'
BY GivingStep, MovingStep, TakingStep, ReadingStep, CollectingStep DEF IInv, Step

(* The rest of the program leaves the blocks alone. *)
LEMMA OtherStep ==
    ASSUME PipeFails \/ Wait \/ Interrupt \/ UNCHANGED vars \/ \E m \in Messages : Arrive(m)
    PROVE  UNCHANGED <<pc, hand, gathered, pipe, collected, line, lost, late, failure, early>>
BY DEF PipeFails, Wait, Interrupt, vars, Arrive, io, group, ledger, history

(* A block that is done stays done. *)
LEMMA DoneStays ==
    ASSUME IInv, [Next]_vars
    PROVE  \A j \in Blocks : pc[j] = "done" => pc'[j] = "done"
<1>1. ASSUME NEW i \in Blocks, Local(i)
      PROVE  \A j \in Blocks : pc[j] = "done" => pc'[j] = "done"
  BY <1>1 DEF Local
<1>2. QED
  BY <1>1, SameLine, LocalStep, OtherStep DEF Next, Ended

----------------------------------------------------------------------------
(* Pipes keep to their capacity, and one behind a block that is done is not *)
(* filled again.                                                            *)
LEMMA PipeStep ==
    ASSUME IInv, [Next]_vars
    PROVE  /\ pipe' \in [Blocks -> Seq(Messages)]
           /\ \A j \in Blocks : Len(pipe'[j]) <= PipeCap
           /\ \A j \in Blocks :
                pipe[j] = <<>> /\ (j = 1 \/ pc[j - 1] = "done") => pipe'[j] = <<>>
<1> USE DEF IInv
<1>0. /\ line' = line /\ pipe \in [Blocks -> Seq(Messages)]
      /\ \A j \in Blocks : Len(pipe[j]) <= PipeCap /\ Once(pipe[j])
      /\ PipeCap \in Nat
  BY SameLine, PipelineAssumption DEF TypeOK, PlaceInv
<1> DEFINE Goal == /\ pipe' \in [Blocks -> Seq(Messages)]
                   /\ \A j \in Blocks : Len(pipe'[j]) <= PipeCap
                   /\ \A j \in Blocks :
                        pipe[j] = <<>> /\ (j = 1 \/ pc[j - 1] = "done") => pipe'[j] = <<>>
<1>1. ASSUME NEW i \in Blocks, NEW q \in Seq(Messages), Len(q) <= PipeCap,
             pipe' = [pipe EXCEPT ![i] = q],
             pipe[i] = <<>> /\ (i = 1 \/ pc[i - 1] = "done") => q = <<>>
      PROVE  Goal
  BY <1>0, <1>1
<1>2. ASSUME pipe' = pipe PROVE Goal
  BY <1>0, <1>2
<1>3. ASSUME NEW i \in Blocks, Read(i) PROVE Goal
  <2>1. /\ pipe[i] # <<>> /\ pipe' = [pipe EXCEPT ![i] = Tail(pipe[i])]
        /\ pipe[i] \in Seq(Messages) /\ Once(pipe[i])
    BY <1>0, <1>3, ReadEffect
  <2> DEFINE q == Tail(pipe[i])
  <2>2. q \in Seq(Messages) /\ Len(q) <= Len(pipe[i])
    BY <2>1, TailEffect
  <2>3. Len(pipe[i]) \in Nat /\ Len(q) \in Nat
    BY <2>1, <2>2
  <2>4. pipe' = [pipe EXCEPT ![i] = q]
    BY <2>1
  <2> HIDE DEF q
  <2>5. Len(q) <= PipeCap
    BY <1>0, <2>2, <2>3
  <2> HIDE DEF Goal
  <2>6. QED
    BY <1>1, <2>1, <2>2, <2>4, <2>5
<1>4. ASSUME NEW i \in Blocks, WritePipe(i) PROVE Goal
  <2>1. /\ i + 1 \in Blocks /\ hand[i] \in Messages
        /\ pipe' = [pipe EXCEPT ![i + 1] = Append(pipe[i + 1], hand[i])]
    BY <1>0, <1>4, WritePipeEffect
  <2>2. Len(pipe[i + 1]) < PipeCap /\ pc[i] = "write" /\ i \in Nat /\ 1 <= i
    BY <1>4, Shape DEF WritePipe, Writes, TypeOK, Blocks
  <2> DEFINE k == i + 1
             q == Append(pipe[k], hand[i])
  <2>3. pipe[k] \in Seq(Messages)
    BY <1>0, <2>1
  <2>4. q \in Seq(Messages) /\ Len(q) = Len(pipe[k]) + 1
    BY <2>1, <2>3, AppendEffect
  <2>5. Len(pipe[k]) \in Nat
    BY <2>3
  <2>6. k \in Blocks /\ pipe' = [pipe EXCEPT ![k] = q] /\ k # 1 /\ pc[k - 1] # "done"
    BY <2>1, <2>2
  <2>7. Len(q) <= PipeCap
    BY <1>0, <2>2, <2>4, <2>5
  <2> HIDE DEF q, k, Goal
  <2>8. QED
    BY <1>1, <2>4, <2>6, <2>7
<1>5. ASSUME NEW i \in Blocks, Collect(i) PROVE Goal
  <2>1. <<>> \in Seq(Messages) /\ Len(<<>>) <= PipeCap
    BY <1>0
  <2>2. pipe' = [pipe EXCEPT ![i] = <<>>]
    BY <1>5 DEF Collect
  <2> HIDE DEF Goal
  <2>3. QED
    BY <1>1, <2>1, <2>2
<1>6. ASSUME NEW i \in Blocks,
             \/ Launch(i) \/ Poll(i) \/ StopConsuming(i) \/ Take(i) \/ NoTake(i)
             \/ SettleLost(i) \/ EncodeFails(i) \/ FlagRefused(i) \/ WriteOut(i)
             \/ WriteBroken(i) \/ Eof(i) \/ Swallow(i) \/ Quit(i) \/ Send(i) \/ SendFails(i)
      PROVE  pipe' = pipe
  BY <1>6 DEF Launch, Poll, StopConsuming, Take, NoTake, SettleLost, EncodeFails,
     FlagRefused, WriteOut, WriteBroken, Eof, Swallow, Quit, Send, SendFails, io
<1> HIDE DEF Goal
<1>7. Goal
  BY <1>2, <1>3, <1>4, <1>5, <1>6, OtherStep DEF Next, Step, Ended
<1>8. QED
  BY <1>7 DEF Goal

(* What a step of block i does to the invariant of another. *)
LEMMA OthersKeep ==
    ASSUME IInv, [Next]_vars, NEW i \in Blocks, Local(i), NEW j \in Blocks, j # i
    PROVE  BlockAt(j)'
<1> USE DEF IInv
<1>1. pc'[j] = pc[j] /\ hand'[j] = hand[j] /\ gathered'[j] = gathered[j]
  BY DEF Local
<1>2. BlockAt(j) /\ (Gathers(j)' <=> Gathers(j)) /\ (Consumer(j)' <=> Consumer(j))
  BY SameLine DEF BlockInv, Consumer
<1>3. ASSUME pc[j] = "write", Gathers(j) PROVE pipe'[j] = <<>> /\ pc'[j - 1] = "done"
  <2>1. pipe[j] = <<>> /\ pc[j - 1] = "done"
    BY <1>2, <1>3 DEF BlockAt
  <2>2. j # 1
    BY <1>3, Shape DEF TypeOK, Gathers, Producer, Sources
  <2>3. j - 1 \in Blocks
    BY <2>2, Shape DEF TypeOK, Blocks
  <2>4. QED
    BY <2>1, <2>3, PipeStep, DoneStays
<1>4. QED
  BY <1>1, <1>2, <1>3 DEF BlockAt

(* Every step keeps what is said of the blocks. *)
LEMMA BlockStep == IInv /\ [Next]_vars => BlockInv'
<1> SUFFICES ASSUME IInv, [Next]_vars PROVE BlockInv'
  OBVIOUS
<1>1. Blocks' = Blocks /\ line' = line /\ 1 \in Blocks
  BY SameLine, Shape DEF IInv, TypeOK
<1>2. pipe'[1] = <<>>
  BY <1>1, PipeStep DEF IInv, BlockInv
<1>3. ASSUME NEW i \in Blocks, Launch(i) \/ Step(i) \/ Quit(i) \/ Collect(i), NEW j \in Blocks
      PROVE  BlockAt(j)'
  <2>1. Local(i) /\ BlockAt(i)'
    BY <1>1, <1>3, LocalStep
  <2>2. QED
    BY <2>1, OthersKeep
<1>4. ASSUME UNCHANGED <<pc, hand, gathered, pipe>>, NEW j \in Blocks PROVE BlockAt(j)'
  <2>1. BlockAt(j) /\ (Gathers(j)' <=> Gathers(j)) /\ (Consumer(j)' <=> Consumer(j))
    BY SameLine DEF IInv, BlockInv, Consumer
  <2>2. QED
    BY <1>4, <2>1 DEF BlockAt
<1>5. \A j \in Blocks : BlockAt(j)'
  BY <1>3, <1>4, OtherStep DEF Next, Ended
<1>6. QED
  BY <1>1, <1>2, <1>5 DEF BlockInv

----------------------------------------------------------------------------
(* What a step says of the group and its history. *)
Progress ==
    /\ setup' \in {"wiring", "waiting", "returned", "failed"}
    /\ setup = "failed" => setup' = "failed"
    /\ setup' = "returned" => setup = "returned" \/ \A i \in Blocks : pc[i] = "done"
    /\ failure' \in 0..Last
    /\ failure # 0 => failure' # 0
    /\ cancelled' \in BOOLEAN /\ interrupted' \in BOOLEAN /\ early' \in BOOLEAN
    /\ cancelled => cancelled'
    /\ early => early'
    /\ collected \subseteq collected' /\ collected' \subseteq 2..Last
    /\ arrived' \subseteq Messages /\ arrived \subseteq arrived'

(* An error is recorded. *)
LEMMA EndsEffect ==
    ASSUME TypeOK, NEW i \in Blocks, NEW how, Ends(i, how)
    PROVE  /\ failure' \in 0..Last /\ (failure # 0 => failure' # 0)
           /\ how = "error" => failure' # 0
           /\ cancelled' \in BOOLEAN /\ (cancelled => cancelled')
<1>1. failure \in 0..Last /\ Last \in Nat /\ i \in 1..Last /\ cancelled \in BOOLEAN
  BY Shape DEF TypeOK, Blocks
<1>2. CASE how = "error" /\ Fails(i)
  <2>1. failure' = (IF failure = 0 THEN i ELSE failure)
    BY <1>2 DEF Fails
  <2>2. cancelled' = TRUE
    BY <1>2 DEF Fails
  <2>3. failure' \in 0..Last /\ failure' # 0
    BY <1>1, <2>1
  <2>4. QED
    BY <2>2, <2>3
<1>3. CASE how = "nil" /\ UNCHANGED <<failure, cancelled>>
  BY <1>1, <1>3
<1>4. QED
  BY <1>2, <1>3 DEF Ends

(* Every step is such a progress. *)
LEMMA ProgressStep == TypeOK /\ [Next]_vars => Progress
<1> SUFFICES ASSUME TypeOK, [Next]_vars PROVE Progress
  OBVIOUS
<1>0. /\ setup \in {"wiring", "waiting", "returned", "failed"}
      /\ failure \in 0..Last /\ collected \subseteq 2..Last /\ arrived \subseteq Messages
      /\ cancelled \in BOOLEAN /\ interrupted \in BOOLEAN /\ early \in BOOLEAN
  BY DEF TypeOK
<1>1. ASSUME NEW i \in Blocks, Step(i)
      PROVE  UNCHANGED <<setup, interrupted, early, collected, arrived>>
  BY <1>1 DEF Step, Poll, StopConsuming, Take, NoTake, SettleLost, EncodeFails,
     FlagRefused, WriteOut, WritePipe, WriteBroken, Read, Eof, Swallow, Send, SendFails,
     io, source, history
<1>2. ASSUME NEW i \in Blocks, Step(i)
      PROVE  UNCHANGED group \/ \E how : Ends(i, how)
  BY <1>2 DEF Step, Poll, StopConsuming, Take, NoTake, SettleLost, EncodeFails,
     FlagRefused, WriteOut, WritePipe, WriteBroken, Read, Eof, Swallow, Send, SendFails,
     AfterError, group
<1>3. ASSUME NEW i \in Blocks, Step(i) PROVE Progress
  <2>1. /\ failure' \in 0..Last /\ (failure # 0 => failure' # 0)
        /\ cancelled' \in BOOLEAN /\ (cancelled => cancelled')
    BY <1>0, <1>2, <1>3, EndsEffect DEF group
  <2>2. QED
    BY <1>0, <1>1, <1>3, <2>1 DEF Progress
<1>4. ASSUME NEW i \in Blocks, Quit(i) PROVE Progress
  <2>1. /\ failure' \in 0..Last /\ (failure # 0 => failure' # 0)
        /\ cancelled' \in BOOLEAN /\ (cancelled => cancelled')
    BY <1>4, EndsEffect DEF Quit
  <2>2. UNCHANGED <<setup, interrupted, collected, arrived>> /\ early' = TRUE
    BY <1>4 DEF Quit, io, source
  <2>3. QED
    BY <1>0, <2>1, <2>2 DEF Progress
<1>5. ASSUME NEW i \in Blocks, Launch(i) PROVE Progress
  BY <1>0, <1>5 DEF Launch, io, group, source, history, Progress
<1>6. ASSUME NEW i \in Blocks, Collect(i) PROVE Progress
  <2>1. i \in 2..Last
    BY <1>6, Shape DEF Collect, TypeOK
  <2>2. QED
    BY <1>0, <1>6, <2>1 DEF Collect, group, source, history, Progress
<1>7. CASE PipeFails \/ Wait
  BY <1>0, <1>7 DEF PipeFails, Wait, io, group, source, history, Progress
<1>8. CASE Interrupt
  BY <1>0, <1>8 DEF Interrupt, io, source, Progress
<1>9. ASSUME NEW m \in Messages, Arrive(m) PROVE Progress
  BY <1>0, <1>9 DEF Arrive, io, group, history, Progress
<1>10. CASE UNCHANGED vars
  BY <1>0, <1>10 DEF vars, io, group, source, history, Progress
<1>11. QED
  BY <1>3, <1>4, <1>5, <1>6, <1>7, <1>8, <1>9, <1>10 DEF Next, Ended

(* A message is taken late by a consumer that was in its receive when the   *)
(* context ended, and polls no more.                                        *)
LEMMA LateStep == IInv /\ [Next]_vars => LateInv' /\ late' \subseteq arrived'
<1> SUFFICES ASSUME IInv, [Next]_vars PROVE LateInv' /\ late' \subseteq arrived'
  OBVIOUS
<1> USE DEF IInv
<1>0. /\ 1 \in Blocks /\ (cancelled => cancelled') /\ arrived \subseteq arrived'
      /\ late \subseteq arrived /\ queued \subseteq arrived
  BY Shape, ProgressStep DEF Progress, TypeOK
<1>1. ASSUME late' = late, pc'[1] = "poll" => pc[1] = "poll" \/ ~cancelled
      PROVE  LateInv' /\ late' \subseteq arrived'
  BY <1>0, <1>1 DEF LateInv
<1>2. ASSUME NEW i \in Blocks, Take(i) PROVE LateInv' /\ late' \subseteq arrived'
  <2>1. pc[i] = "poll" /\ pc'[i] = "write"
    BY <1>2, SameLine, TakingStep
  <2>2. i = 1
    BY <2>1, Shape DEF BlockInv, BlockAt, TypeOK
  <2>3. late = {}
    BY <2>1, <2>2 DEF LateInv
  <2>4. PICK m \in queued : late' = IF cancelled THEN late \cup {m} ELSE late
    BY <1>2 DEF Take
  <2>5. QED
    BY <1>0, <2>1, <2>2, <2>3, <2>4 DEF LateInv
<1>3. ASSUME NEW i \in Blocks, Poll(i) PROVE late' = late /\ ~cancelled
  BY <1>3 DEF Poll, history
<1>4. ASSUME NEW i \in Blocks,
             \/ Launch(i) \/ StopConsuming(i) \/ NoTake(i) \/ SettleLost(i)
             \/ EncodeFails(i) \/ FlagRefused(i) \/ WriteOut(i) \/ WritePipe(i)
             \/ WriteBroken(i) \/ Eof(i) \/ Swallow(i) \/ Quit(i) \/ Send(i) \/ SendFails(i)
      PROVE  late' = late /\ (pc'[1] = "poll" => pc[1] = "poll")
  <2>1. late' = late
    BY <1>4 DEF Launch, StopConsuming, NoTake, SettleLost, EncodeFails, FlagRefused,
       WriteOut, WritePipe, WriteBroken, Eof, Swallow, Quit, Send, SendFails, history
  <2>2. PICK l \in {"run", "write", "done"} : Goto(i, l)
    BY <1>4 DEF Launch, StopConsuming, NoTake, SettleLost, EncodeFails, FlagRefused,
       WriteOut, WritePipe, WriteBroken, Eof, Swallow, Quit, Send, SendFails, AfterError, Ends
  <2>3. QED
    BY <1>0, <2>1, <2>2 DEF Goto, TypeOK
<1>5. ASSUME NEW i \in Blocks, Read(i) PROVE late' = late /\ (pc'[1] = "poll" => pc[1] = "poll")
  <2>1. late' = late
    BY <1>5 DEF Read, history
  <2>2. pc' = pc \/ Goto(i, "write")
    BY <1>5 DEF Read
  <2>3. QED
    BY <1>0, <2>1, <2>2 DEF Goto, TypeOK
<1>6. ASSUME NEW i \in Blocks, Collect(i) PROVE late' = late /\ pc' = pc
  BY <1>6 DEF Collect, history
<1>7. QED
  BY <1>1, <1>2, <1>3, <1>4, <1>5, <1>6, OtherStep DEF Next, Step, Ended

(* Every step keeps the types. *)
LEMMA TypeStep == IInv /\ [Next]_vars => TypeOK'
<1> SUFFICES ASSUME IInv, [Next]_vars PROVE TypeOK'
  OBVIOUS
<1> USE DEF IInv
<1>1. Blocks' = Blocks /\ line' = line /\ Last' = Last /\ line' \in Lines
  BY SameLine DEF TypeOK
<1>2. /\ pc' \in [Blocks -> {"new", "run", "poll", "write", "done"}]
      /\ hand' \in [Blocks -> Messages \cup {NoMessage}]
      /\ gathered' \in [Blocks -> SUBSET Messages]
  <2>1. ASSUME NEW i \in Blocks, Local(i)
        PROVE  /\ pc' \in [Blocks -> {"new", "run", "poll", "write", "done"}]
               /\ hand' \in [Blocks -> Messages \cup {NoMessage}]
               /\ gathered' \in [Blocks -> SUBSET Messages]
    BY <2>1 DEF Local, Pcs
  <2>2. ASSUME UNCHANGED <<pc, hand, gathered>>
        PROVE  /\ pc' \in [Blocks -> {"new", "run", "poll", "write", "done"}]
               /\ hand' \in [Blocks -> Messages \cup {NoMessage}]
               /\ gathered' \in [Blocks -> SUBSET Messages]
    BY <2>2 DEF TypeOK
  <2>3. QED
    BY <1>1, <2>1, <2>2, LocalStep, OtherStep DEF Next, Ended
<1>3. pipe' \in [Blocks -> Seq(Messages)] /\ \A j \in Blocks : Len(pipe'[j]) <= PipeCap
  BY PipeStep
<1>4. Progress
  BY ProgressStep
<1>5. /\ queued' \subseteq arrived' /\ unsettled' \subseteq arrived'
      /\ kept' \subseteq arrived' /\ lost' \subseteq arrived' /\ late' \subseteq arrived'
  BY PlaceStep, LateStep DEF Accounted
<1>6. /\ {cancelled, interrupted, early}' \subseteq BOOLEAN
      /\ {queued, unsettled, kept, lost, late}' \subseteq SUBSET arrived'
  BY <1>4, <1>5 DEF Progress
<1>7. QED
  BY <1>1, <1>2, <1>3, <1>4, <1>6 DEF Progress, TypeOK

----------------------------------------------------------------------------
(* Success: nothing has failed, nobody has left early, and the blocks are   *)
(* all wired.                                                               *)
Fine == failure = 0 /\ ~early /\ setup # "failed"

(* A pipeline that is fine has been so all along. *)
LEMMA FineBefore == TypeOK /\ [Next]_vars /\ Fine' => Fine
BY ProgressStep DEF Progress, Fine

(* While all is fine, nothing is lost. *)
LEMMA NothingLost ==
    ASSUME IInv, [Next]_vars, Fine'
    PROVE  lost' = lost
<1> USE DEF IInv
<1>0. /\ Fine /\ \A j \in 2..Last : /\ j \in collected => pc[j] = "done"
                                    /\ pc[j] = "done" => pipe[j] = <<>> /\ pc[j - 1] = "done"
  BY FineBefore DEF Fine, SuccessInv
<1>1. ASSUME NEW i \in Blocks, Ends(i, "error") PROVE FALSE
  BY <1>1, EndsEffect DEF Fine
<1>2. ASSUME NEW i \in Blocks, EncodeFails(i) \/ SendFails(i) PROVE FALSE
  BY <1>1, <1>2 DEF EncodeFails, SendFails
<1>3. ASSUME NEW i \in Blocks, Quit(i) PROVE FALSE
  BY <1>3 DEF Quit, Fine
<1>4. ASSUME NEW i \in Blocks, WriteBroken(i) PROVE FALSE
  <2>1. i < Last /\ i + 1 \in collected /\ pc[i] = "write" /\ i \in Nat
    BY <1>4, Shape DEF WriteBroken, Writes, TypeOK
  <2>2. i + 1 \in 2..Last /\ (i + 1) - 1 = i
    BY <2>1 DEF TypeOK
  <2>3. QED
    BY <1>0, <2>1, <2>2
<1>5. ASSUME NEW i \in Blocks, Collect(i) PROVE lost' = lost
  <2>1. /\ i > 1 /\ pc[i] = "done" /\ lost' = lost \cup Range(pipe[i])
    BY <1>0, <1>5 DEF Collect, Fine
  <2>2. i \in 2..Last
    BY <2>1, Shape DEF TypeOK
  <2>3. Range(pipe[i]) = {}
    BY <1>0, <2>1, <2>2, NothingInside
  <2>4. QED
    BY <2>1, <2>3
<1>6. ASSUME NEW i \in Blocks,
             \/ Launch(i) \/ Poll(i) \/ StopConsuming(i) \/ Take(i) \/ NoTake(i)
             \/ SettleLost(i) \/ FlagRefused(i) \/ WriteOut(i) \/ WritePipe(i)
             \/ Read(i) \/ Eof(i) \/ Swallow(i) \/ Send(i)
      PROVE  lost' = lost
  BY <1>6 DEF Launch, Poll, StopConsuming, Take, NoTake, SettleLost, FlagRefused,
     WriteOut, WritePipe, Read, Eof, Swallow, Send, ledger
<1>7. QED
  BY <1>2, <1>3, <1>4, <1>5, <1>6, OtherStep DEF Next, Step, Ended

(* While all is fine, a block ends on an empty pipe, after the one in front *)
(* of it: at the end of its input.                                          *)
LEMMA EndsInOrder ==
    ASSUME IInv, [Next]_vars, Fine', NEW j \in 2..Last, pc'[j] = "done", pc[j] # "done"
    PROVE  pipe[j] = <<>> /\ pc[j - 1] = "done"
<1> USE DEF IInv
<1>0. /\ Fine /\ j \in Blocks /\ j # 1 /\ BlockAt(j) /\ ~Consumer(j) /\ line[j] # "request"
  BY FineBefore, Shape DEF TypeOK, BlockInv, Blocks, Sources
<1>1. ASSUME NEW i \in Blocks, Ends(i, "error") PROVE FALSE
  BY <1>1, EndsEffect DEF Fine
<1>2. ASSUME NEW i \in Blocks, Local(i) PROVE i = j
  BY <1>0, <1>2 DEF Local
<1>3. CASE Eof(j)
  <2>1. pipe[j] = <<>> /\ pc[j - 1] = "done"
    BY <1>3 DEF Eof
  <2>2. QED
    BY <2>1
<1>4. CASE Send(j)
  <2>1. pc[j] = "write" /\ ((Streams(j) /\ Goto(j, "run")) \/ Gathers(j))
    BY <1>4 DEF Send, Gathers
  <2>2. ~Goto(j, "run")
    BY <1>0 DEF Goto, TypeOK
  <2>3. QED
    BY <1>0, <2>1, <2>2 DEF BlockAt
<1>5. CASE EncodeFails(j) \/ SendFails(j) \/ Quit(j) \/ FlagRefused(j)
  BY <1>0, <1>1, <1>5 DEF EncodeFails, SendFails, Quit, FlagRefused, Fine
<1>6. CASE WriteBroken(j)
  BY <1>0, <1>1, <1>6 DEF WriteBroken
<1>7. CASE StopConsuming(j) \/ NoTake(j) \/ SettleLost(j) \/ Take(j) \/ Poll(j)
  BY <1>0, <1>7 DEF StopConsuming, NoTake, SettleLost, Take, Poll, BlockAt
<1>8. CASE Launch(j) \/ WriteOut(j) \/ WritePipe(j) \/ Swallow(j) \/ Collect(j)
  BY <1>0, <1>8 DEF Launch, WriteOut, WritePipe, Swallow, Collect, Goto, TypeOK
<1>9. CASE Read(j)
  <2>1. pc' = pc \/ Goto(j, "write")
    BY <1>9 DEF Read
  <2>2. QED
    BY <1>0, <2>1 DEF Goto, TypeOK
<1>10. PICK i \in Blocks : Launch(i) \/ Step(i) \/ Quit(i) \/ Collect(i)
  BY OtherStep DEF Next, Ended
<1>11. i = j
  BY <1>2, <1>10, LocalStep, SameLine
<1>12. QED
  BY <1>3, <1>4, <1>5, <1>6, <1>7, <1>8, <1>9, <1>10, <1>11 DEF Step

(* Every step keeps what is said of success. *)
LEMMA SuccessStep == IInv /\ [Next]_vars => SuccessInv'
<1> SUFFICES ASSUME IInv, [Next]_vars PROVE SuccessInv'
  OBVIOUS
<1> USE DEF IInv
<1>0. /\ Blocks' = Blocks /\ Last' = Last /\ Progress
      /\ \A j \in Blocks : pc[j] = "done" => pc'[j] = "done"
  BY SameLine, ProgressStep, DoneStays
<1>1. setup' = "returned" => \A j \in Blocks : pc'[j] = "done"
  BY <1>0 DEF Progress, SuccessInv
<1>2. ASSUME Fine' PROVE lost' = {}
  BY <1>2, NothingLost, FineBefore DEF SuccessInv, Fine
<1>3. ASSUME Fine', NEW j \in 2..Last
      PROVE  /\ j \in collected' => pc'[j] = "done"
             /\ pc'[j] = "done" => pipe'[j] = <<>> /\ pc'[j - 1] = "done"
  <2>0. /\ j \in Blocks /\ j - 1 \in Blocks
        /\ Fine /\ (j \in collected => pc[j] = "done")
        /\ pc[j] = "done" => pipe[j] = <<>> /\ pc[j - 1] = "done"
    BY <1>3, FineBefore, Shape DEF Blocks, TypeOK, SuccessInv, Fine
  <2>1. ASSUME j \in collected', j \notin collected PROVE pc[j] = "done"
    <3>1. ASSUME NEW i \in Blocks, Collect(i) PROVE pc[j] = "done"
      BY <2>0, <2>1, <3>1 DEF Collect, Fine
    <3>2. ASSUME NEW i \in Blocks, Launch(i) \/ Step(i) \/ Quit(i)
          PROVE  collected' = collected
      BY <3>2 DEF Launch, Quit, Step, Poll, StopConsuming, Take, NoTake, SettleLost,
         EncodeFails, FlagRefused, WriteOut, WritePipe, WriteBroken, Read, Eof, Swallow,
         Send, SendFails, io
    <3>3. QED
      BY <2>1, <3>1, <3>2, OtherStep DEF Next, Ended
  <2>2. ASSUME pc'[j] = "done" PROVE pipe[j] = <<>> /\ pc[j - 1] = "done"
    BY <1>3, <2>0, <2>2, EndsInOrder
  <2>3. QED
    BY <1>0, <2>0, <2>1, <2>2, PipeStep
<1>4. QED
  BY <1>0, <1>1, <1>2, <1>3 DEF SuccessInv, Fine

----------------------------------------------------------------------------
(* Every step keeps the invariant. *)
LEMMA StepIInv == IInv /\ [Next]_vars => IInv'
BY TypeStep, BlockStep, PlaceStep, SuccessStep, LateStep DEF IInv

(* The invariant holds throughout. *)
LEMMA Invariance == Spec => []IInv
<1>1. QED
  BY InitIInv, StepIInv, PTL DEF Spec

(* A pipeline without an error has delivered everything: its blocks hold    *)
(* nothing, and its pipes are empty.                                        *)
LEMMA DeliversFollows == IInv => Delivers
<1> SUFFICES ASSUME IInv PROVE Delivers
  OBVIOUS
<1> USE DEF IInv
<1>1. SuccessMeansDelivered
  <2> SUFFICES ASSUME setup = "returned", failure = 0, ~early PROVE Taken \subseteq kept
    BY DEF SuccessMeansDelivered
  <2>1. /\ \A i \in Blocks : pc[i] = "done"
        /\ lost = {} /\ pipe[1] = <<>>
        /\ \A i \in 2..Last : pipe[i] = <<>>
    BY Shape DEF SuccessInv, BlockInv, TypeOK, Blocks
  <2>2. \A i \in Blocks : i = 1 \/ i \in 2..Last
    BY Shape DEF TypeOK, Blocks
  <2>3. \A i \in Blocks : Holds(i) = {} /\ Range(pipe[i]) = {}
    BY <2>1, <2>2, NotWriting, NothingInside
  <2>4. Transit = {}
    BY <2>3 DEF Transit
  <2>5. QED
    BY <2>1, <2>4 DEF PlaceInv, OnePlace
<1>2. StopsConsuming
  <2>1. late = {} \/ \E m : late = {m}
    BY DEF LateInv
  <2>2. Cardinality({}) = 0 /\ \A m : Cardinality({m}) = 1
    BY FS_EmptySet, FS_Singleton
  <2>3. Cardinality(late) = 0 \/ Cardinality(late) = 1
    BY <2>1, <2>2, Zenon
  <2>4. QED
    BY <2>3 DEF StopsConsuming
<1>3. QED
  BY <1>1, <1>2 DEF Delivers, PlaceInv

(* Every message the source gave up is in one place, a pipeline that        *)
(* reports no error has passed on all it took, and one that fails or is     *)
(* interrupted takes one message more at most, whatever its blocks and      *)
(* however they fail (runOnePipeline).                                      *)
THEOREM PipelineDelivers == Spec => []Delivers
  BY Invariance, DeliversFollows, PTL

(* A message passes a pipeline once, and nothing is handed back to the      *)
(* source: each message keeps to the contract of Custody.                   *)
THEOREM PipelineRelays == Spec => KeepsCustody
<1>1. Init => Contract!Init
  <2>1. Init => Accounted /\ arrived = {}
    <3>1. Init => OnePlace /\ queued = {} /\ unsettled = {} /\ arrived = {}
      BY InitIInv DEF Init, IInv, PlaceInv
    <3>2. QED
      BY <3>1, PlaceForm
  <2>2. Init => custodies = [m \in Messages |-> "none"]
    BY <2>1, CustodyByPlace DEF custodies
  <2>3. QED
    BY <2>2 DEF custodies, Contract!Init
<1>2. QED
  BY <1>1, CustodyStep, Invariance, PTL DEF Spec, KeepsCustody, Contract!Spec, custodies

=============================================================================
