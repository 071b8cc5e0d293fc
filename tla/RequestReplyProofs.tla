------------------------- MODULE RequestReplyProofs -------------------------
(***************************************************************************)
(* Safety of the calls to a broker: of request/reply for any number of     *)
(* requesters, responders and attempts, in which replies are not mixed up  *)
(* and none is taken from its owner where the broker matches; and, in the  *)
(* last part, of the reconnecting wrapper that calls go through.           *)
(*                                                                         *)
(* Two facts carry the former.  A reply says whom it answers as well as    *)
(* its responder can (Honest): its queue is that of the attempt it         *)
(* answers, and its correlation id is that attempt or none.  And no two    *)
(* requesters wait for the same attempt (Distinct), so that what one drops *)
(* or consumes is never another's.                                         *)
(***************************************************************************)
EXTENDS MCRequestReply, TLAPS

Honest ==
    \A m \in replies :
        /\ m.queue = ReplyQueueOf(m.answers)
        /\ m.corr \in {None, m.answers}

Distinct ==
    /\ \A r \in Requesters : attempt[r] <= sent
    /\ \A q, r \in Requesters : attempt[q] = attempt[r] /\ attempt[r] # None => q = r

IInv ==
    /\ TypeOK
    /\ Honest
    /\ Distinct
    /\ OwnAnswer
    /\ NoMismatch
    /\ StreamWhileWaiting

USE DEF None, Shared, Attempts, requester, responder

----------------------------------------------------------------------------
(* A responder that serves has an attempt to serve. *)
Busy == \A p \in Responders : pc[p] \in {"serving", "publish"} => serving[p] \in Attempts

(* The initial states satisfy the invariant. *)
LEMMA InitIInv == Init => IInv /\ Busy
<1> SUFFICES ASSUME Init PROVE IInv /\ Busy
  OBVIOUS
<1>1. TypeOK
  BY RequestReplyAssumption DEF Init, TypeOK
<1>2. Honest /\ Distinct /\ Busy
  BY DEF Init, Honest, Distinct, Busy
<1>3. OwnAnswer /\ NoMismatch /\ StreamWhileWaiting
  BY DEF Init, OwnAnswer, NoMismatch, StreamWhileWaiting
<1>4. QED
  BY <1>1, <1>2, <1>3 DEF IInv

(* A new attempt is within the bound and is nobody's yet. *)
LEMMA NewAttemptType ==
    ASSUME TypeOK, NEW r \in Requesters, NewAttempt(r)
    PROVE  /\ sent' = sent + 1
           /\ sent' \in Attempts
           /\ sent' \in 0..MaxAttempts
           /\ sent' # None
           /\ owner' \in [Attempts -> SUBSET Requesters]
BY RequestReplyAssumption DEF TypeOK, NewAttempt

(* A drop takes the stream of its own attempt at most. *)
LEMMA AfterDropEffect ==
    ASSUME NEW a, NEW existing, NEW kept \in AfterDrop(a, existing)
    PROVE  kept \subseteq existing /\ existing \ {a} \subseteq kept
BY DEF AfterDrop

(* Replies vanish only with the private stream they are in. *)
LEMMA StreamsAreEffect ==
    ASSUME NEW kept, NEW left, StreamsAre(kept, left)
    PROVE  /\ streams' = kept
           /\ replies' \subseteq left
           /\ \A m \in left : m.queue = Shared \/ m.queue \in kept => m \in replies'
BY DEF StreamsAre

(* What the return of a call leaves alone: the attempts of the others and   *)
(* all streams but its own, with what is left in them.                      *)
LEMMA ReturnEffect ==
    ASSUME NEW r \in Requesters, NEW left, Return(r, left)
    PROVE  /\ attempt' = [attempt EXCEPT ![r] = None]
           /\ streams' \subseteq streams
           /\ streams \ {attempt[r]} \subseteq streams'
           /\ replies' \subseteq left
           /\ \A m \in left : m.queue = Shared \/ m.queue \in streams' => m \in replies'
<1>1. PICK kept \in AfterDrop(attempt[r], streams) : StreamsAre(kept, left)
  BY DEF Return
<1>2. kept \subseteq streams /\ streams \ {attempt[r]} \subseteq kept
  BY <1>1, AfterDropEffect
<1>3. QED
  BY <1>1, <1>2, StreamsAreEffect DEF Return

(* What a return, which may consume a reply, and a receipt are made of. *)
LEMMA ReturnType ==
    ASSUME TypeOK, NEW r \in Requesters, NEW left \in SUBSET replies, Return(r, left)
    PROVE  /\ attempt' \in [Requesters -> Attempts \cup {None}]
           /\ streams' \subseteq Attempts
           /\ replies' \subseteq Reply
<1>1. attempt' = [attempt EXCEPT ![r] = None] /\ streams' \subseteq streams /\ replies' \subseteq left
  BY ReturnEffect
<1>2. QED
  BY <1>1 DEF TypeOK

(* A receipt is well typed. *)
LEMMA ReceiptType ==
    ASSUME TypeOK, NEW r \in Requesters, attempt[r] # None, NEW m \in replies
    PROVE  ReceiptOf(r, m) \in Receipt
<1>1. m \in Reply /\ attempt[r] \in Attempts
  BY DEF TypeOK
<1>2. QED
  BY <1>1 DEF Reply, Receipt, ReceiptOf

(* Every step keeps the types. *)
LEMMA TypeStep == TypeOK /\ Busy /\ [Next]_vars => TypeOK' /\ Busy'
<1> SUFFICES ASSUME TypeOK, Busy, [Next]_vars PROVE TypeOK' /\ Busy'
  OBVIOUS
<1>1. ASSUME NEW r \in Requesters, Request(r) PROVE TypeOK' /\ Busy'
  <2>1. /\ sent' \in Attempts /\ sent' \in 0..MaxAttempts
        /\ owner' \in [Attempts -> SUBSET Requesters]
    BY <1>1, NewAttemptType DEF Request
  <2>2. QED
    BY <1>1, <2>1 DEF Request, Open, TypeOK, Busy
<1>2. ASSUME NEW r \in Requesters, RequestFails(r) PROVE TypeOK' /\ Busy'
  <2>1. /\ sent' \in Attempts /\ sent' \in 0..MaxAttempts
        /\ owner' \in [Attempts -> SUBSET Requesters]
    BY <1>2, NewAttemptType DEF RequestFails
  <2>2. streams' \subseteq Open(sent', streams)
    BY <1>2, AfterDropEffect DEF RequestFails
  <2>3. streams' \subseteq Attempts
    BY <2>1, <2>2 DEF Open, TypeOK
  <2>4. QED
    BY <1>2, <2>1, <2>3 DEF RequestFails, TypeOK, Busy
<1>3. ASSUME NEW r \in Requesters, Resend(r) PROVE TypeOK' /\ Busy'
  <2>1. /\ sent' \in Attempts /\ sent' \in 0..MaxAttempts
        /\ owner' \in [Attempts -> SUBSET Requesters]
    BY <1>3, NewAttemptType DEF Resend
  <2>2. PICK kept \in AfterDrop(attempt[r], streams) : StreamsAre(Open(sent', kept), replies)
    BY <1>3 DEF Resend
  <2>3. streams' = Open(sent', kept) /\ kept \subseteq streams /\ replies' \subseteq replies
    BY <2>2, AfterDropEffect, StreamsAreEffect
  <2>4. streams' \subseteq Attempts
    BY <2>1, <2>3 DEF Open, TypeOK
  <2>5. attempt[r] \in Attempts
    BY <1>3 DEF Resend, TypeOK
  <2>6. QED
    BY <1>3, <2>1, <2>3, <2>4, <2>5 DEF Resend, TypeOK, Busy
<1>4. ASSUME NEW r \in Requesters, GetReply(r) PROVE TypeOK' /\ Busy'
  <2>1. PICK m \in Visible(r) : got' = got \cup {ReceiptOf(r, m)} /\ Return(r, replies \ {m})
    BY <1>4 DEF GetReply
  <2>2. ReceiptOf(r, m) \in Receipt
    BY <1>4, <2>1, ReceiptType DEF GetReply, Visible
  <2>3. QED
    BY <1>4, <2>1, <2>2, ReturnType DEF GetReply, TypeOK, Busy
<1>5. ASSUME NEW r \in Requesters, Mismatch(r) PROVE TypeOK' /\ Busy'
  <2>1. PICK m \in Visible(r) : mismatched' = mismatched \cup {ReceiptOf(r, m)} /\ Return(r, replies \ {m})
    BY <1>5 DEF Mismatch
  <2>2. ReceiptOf(r, m) \in Receipt
    BY <1>5, <2>1, ReceiptType DEF Mismatch, Visible
  <2>3. attempt[r] \in Attempts
    BY <1>5 DEF Mismatch, TypeOK
  <2>4. QED
    BY <1>5, <2>1, <2>2, <2>3, ReturnType DEF Mismatch, TypeOK, Busy
<1>6. ASSUME NEW r \in Requesters, GiveUp(r) PROVE TypeOK' /\ Busy'
  <2>1. PICK left \in SUBSET replies : Return(r, left)
    BY <1>6 DEF GiveUp
  <2>2. attempt[r] \in Attempts
    BY <1>6 DEF GiveUp, TypeOK
  <2>3. QED
    BY <1>6, <2>1, <2>2, ReturnType DEF GiveUp, TypeOK, Busy
<1>7. ASSUME NEW p \in Responders, Pick(p) PROVE TypeOK' /\ Busy'
  BY <1>7 DEF Pick, Move, TypeOK, Busy
<1>8. ASSUME NEW p \in Responders, Skip(p) PROVE TypeOK' /\ Busy'
  BY <1>8 DEF Skip, Rest, Move, TypeOK, Busy
<1>9. ASSUME NEW p \in Responders, Ensure(p) PROVE TypeOK' /\ Busy'
  BY <1>9 DEF Ensure, Open, Move, TypeOK, Busy
<1>10. ASSUME NEW p \in Responders, Answer(p) PROVE TypeOK' /\ Busy'
  <2>1. ReplyFrom(p, serving[p]) \in Reply
    BY <1>10 DEF Answer, ReplyFrom, Reply, ReplyQueueOf, Busy
  <2>2. QED
    BY <1>10, <2>1 DEF Answer, Rest, Die, Move, TypeOK, Busy
<1>11. ASSUME NEW p \in Responders, AnswerFails(p) \/ StopServing(p) PROVE TypeOK' /\ Busy'
  BY <1>11 DEF AnswerFails, StopServing, Die, Move, TypeOK, Busy
<1>12. CASE UNCHANGED vars
  BY <1>12 DEF vars, TypeOK, Busy
<1>13. QED
  BY <1>1, <1>2, <1>3, <1>4, <1>5, <1>6, <1>7, <1>8, <1>9, <1>10, <1>11, <1>12
     DEF Next, Quiet

----------------------------------------------------------------------------
(* Every step leaves the matching of the broker alone. *)
LEMMA SameMode == [Next]_vars => mode' = mode
BY DEF Next, vars, Request, RequestFails, Resend, GetReply, Mismatch, GiveUp,
       Pick, Skip, Ensure, Answer, AnswerFails, StopServing, Quiet

(* A step that neither answers nor consumes adds no reply: what it says of  *)
(* itself stays true, for the queue of an attempt never changes.            *)
LEMMA HonestIfFewer ==
    ASSUME Honest, mode' = mode, replies' \subseteq replies
    PROVE  Honest'
BY DEF Honest, ReplyQueueOf

(* Replies say whom they answer, if they say anything. *)
LEMMA HonestStep == TypeOK /\ Honest /\ [Next]_vars => Honest'
<1> SUFFICES ASSUME TypeOK, Honest, [Next]_vars PROVE Honest'
  OBVIOUS
<1>m. mode' = mode
  BY SameMode
<1>1. ASSUME NEW r \in Requesters, Resend(r) PROVE replies' \subseteq replies
  BY <1>1, StreamsAreEffect DEF Resend
<1>2. ASSUME NEW r \in Requesters, GetReply(r) \/ Mismatch(r) \/ GiveUp(r)
      PROVE  replies' \subseteq replies
  <2>1. PICK left \in SUBSET replies : Return(r, left)
    BY <1>2 DEF GetReply, Mismatch, GiveUp
  <2>2. QED
    BY <2>1, ReturnEffect
<1>3. ASSUME NEW r \in Requesters, Request(r) \/ RequestFails(r)
      PROVE  replies' \subseteq replies
  BY <1>3 DEF Request, RequestFails
<1>4. ASSUME NEW p \in Responders, Answer(p) PROVE Honest'
  <2>1. replies' = replies \cup {ReplyFrom(p, serving[p])}
    BY <1>4 DEF Answer
  <2>2. QED
    BY <1>m, <2>1 DEF Honest, ReplyFrom, ReplyQueueOf
<1>5. ASSUME NEW p \in Responders,
             Pick(p) \/ Skip(p) \/ Ensure(p) \/ AnswerFails(p) \/ StopServing(p)
      PROVE  replies' \subseteq replies
  BY <1>5 DEF Pick, Skip, Ensure, AnswerFails, StopServing
<1>6. CASE UNCHANGED vars
  BY <1>6, <1>m, HonestIfFewer DEF vars
<1>7. QED
  BY <1>1, <1>2, <1>3, <1>4, <1>5, <1>6, <1>m, HonestIfFewer DEF Next, Quiet

----------------------------------------------------------------------------
(* A step changes the attempts of one requester at most: to a new one, or   *)
(* to none.                                                                 *)
LEMMA AttemptStep ==
    ASSUME TypeOK, [Next]_vars
    PROVE  \/ attempt' = attempt /\ sent' \in {sent, sent + 1}
           \/ \E r \in Requesters :
                 /\ attempt' = [attempt EXCEPT ![r] = sent + 1]
                 /\ sent' = sent + 1
           \/ \E r \in Requesters :
                 /\ attempt' = [attempt EXCEPT ![r] = None]
                 /\ sent' = sent
<1>1. ASSUME NEW r \in Requesters, Request(r) \/ Resend(r)
      PROVE  attempt' = [attempt EXCEPT ![r] = sent + 1] /\ sent' = sent + 1
  BY <1>1 DEF Request, Resend, NewAttempt
<1>2. ASSUME NEW r \in Requesters, RequestFails(r)
      PROVE  attempt' = attempt /\ sent' = sent + 1
  BY <1>2 DEF RequestFails, NewAttempt
<1>3. ASSUME NEW r \in Requesters, GetReply(r) \/ Mismatch(r) \/ GiveUp(r)
      PROVE  attempt' = [attempt EXCEPT ![r] = None] /\ sent' = sent
  BY <1>3 DEF GetReply, Mismatch, GiveUp, Return
<1>4. ASSUME NEW p \in Responders,
             Pick(p) \/ Skip(p) \/ Ensure(p) \/ Answer(p) \/ AnswerFails(p) \/ StopServing(p)
      PROVE  attempt' = attempt /\ sent' = sent
  BY <1>4 DEF Pick, Skip, Ensure, Answer, AnswerFails, StopServing, requester
<1>5. CASE UNCHANGED vars
  BY <1>5 DEF vars
<1>6. QED
  BY <1>1, <1>2, <1>3, <1>4, <1>5 DEF Next, Quiet

(* No two requesters wait for the same attempt. *)
LEMMA DistinctStep == TypeOK /\ Distinct /\ [Next]_vars => Distinct'
<1> SUFFICES ASSUME TypeOK, Distinct, [Next]_vars PROVE Distinct'
  OBVIOUS
<1>1. sent \in Nat /\ attempt \in [Requesters -> Nat]
  BY RequestReplyAssumption DEF TypeOK
<1>2. CASE attempt' = attempt /\ sent' \in {sent, sent + 1}
  BY <1>1, <1>2 DEF Distinct
<1>3. ASSUME NEW r \in Requesters, sent' = sent + 1,
             attempt' = [attempt EXCEPT ![r] = sent + 1]
      PROVE  Distinct'
  BY <1>1, <1>3 DEF Distinct
<1>4. ASSUME NEW r \in Requesters, sent' = sent,
             attempt' = [attempt EXCEPT ![r] = None]
      PROVE  Distinct'
  BY <1>1, <1>4 DEF Distinct
<1>5. QED
  BY <1>2, <1>3, <1>4, AttemptStep

----------------------------------------------------------------------------
(* What the broker hands to a waiting requester: the answer to its attempt  *)
(* wherever the broker matches, and a reply that names its attempt is one   *)
(* anywhere.                                                                *)
LEMMA VisibleIsOwn ==
    ASSUME TypeOK, Honest, NEW r \in Requesters, attempt[r] # None, NEW m \in Visible(r)
    PROVE  /\ mode # "none" => m.answers = attempt[r] /\ m.corr \in {None, attempt[r]}
           /\ m.corr = attempt[r] => m.answers = attempt[r]
<1>1. m \in Reply /\ m.queue = ReplyQueueOf(m.answers) /\ m.corr \in {None, m.answers}
  BY DEF Visible, Honest, TypeOK
<1>2. m.queue = ReplyQueueOf(attempt[r]) /\ (mode = "selector" => m.corr = attempt[r])
  BY DEF Visible
<1>3. m.answers \in Attempts /\ attempt[r] \in Attempts
  BY <1>1 DEF TypeOK, Reply
<1>4. mode \in {"none", "selector", "private"}
  BY RequestReplyAssumption DEF TypeOK
<1>5. CASE mode = "selector"
  BY <1>1, <1>2, <1>5
<1>6. CASE mode = "private"
  BY <1>1, <1>2, <1>6 DEF ReplyQueueOf
<1>7. CASE mode = "none"
  BY <1>1, <1>3, <1>7
<1>8. QED
  BY <1>4, <1>5, <1>6, <1>7

(* Only GetReply returns a reply to a caller; the rest leave got alone. *)
LEMMA OwnAnswerStep == TypeOK /\ Honest /\ OwnAnswer /\ [Next]_vars => OwnAnswer'
<1> SUFFICES ASSUME TypeOK, Honest, OwnAnswer, [Next]_vars PROVE OwnAnswer'
  OBVIOUS
<1>m. mode' = mode
  BY SameMode
<1>1. ASSUME NEW r \in Requesters, GetReply(r) PROVE OwnAnswer'
  <2>1. PICK m \in Visible(r) : Accepted(r, m) /\ got' = got \cup {ReceiptOf(r, m)}
    BY <1>1 DEF GetReply
  <2>2. attempt[r] # None
    BY <1>1 DEF GetReply
  <2>3. m.answers = attempt[r] \/ (mode = "none" /\ m.corr = None)
    BY <2>1, <2>2, VisibleIsOwn DEF Accepted
  <2>4. QED
    BY <1>m, <2>1, <2>3 DEF OwnAnswer, ReceiptOf
<1>2. ASSUME NEW r \in Requesters,
             Request(r) \/ RequestFails(r) \/ Resend(r) \/ Mismatch(r) \/ GiveUp(r)
      PROVE  got' = got
  BY <1>2 DEF Request, RequestFails, Resend, Mismatch, GiveUp
<1>3. ASSUME NEW p \in Responders,
             Pick(p) \/ Skip(p) \/ Ensure(p) \/ Answer(p) \/ AnswerFails(p) \/ StopServing(p)
      PROVE  got' = got
  BY <1>3 DEF Pick, Skip, Ensure, Answer, AnswerFails, StopServing, requester
<1>4. CASE UNCHANGED vars
  BY <1>4 DEF vars, OwnAnswer
<1>5. CASE got' = got
  BY <1>m, <1>5 DEF OwnAnswer
<1>6. QED
  BY <1>1, <1>2, <1>3, <1>4, <1>5 DEF Next, Quiet, vars

(* Where the broker matches, nothing it hands out is refused. *)
LEMMA NoMismatchStep == TypeOK /\ Honest /\ NoMismatch /\ [Next]_vars => NoMismatch'
<1> SUFFICES ASSUME TypeOK, Honest, NoMismatch, [Next]_vars PROVE NoMismatch'
  OBVIOUS
<1>m. mode' = mode
  BY SameMode
<1>1. ASSUME NEW r \in Requesters, Mismatch(r) PROVE mode = "none"
  <2>1. PICK m \in Visible(r) : ~Accepted(r, m)
    BY <1>1 DEF Mismatch
  <2>2. attempt[r] # None
    BY <1>1 DEF Mismatch
  <2>3. QED
    BY <2>1, <2>2, VisibleIsOwn DEF Accepted
<1>2. ASSUME NEW r \in Requesters,
             Request(r) \/ RequestFails(r) \/ Resend(r) \/ GetReply(r) \/ GiveUp(r)
      PROVE  mismatched' = mismatched
  BY <1>2 DEF Request, RequestFails, Resend, GetReply, GiveUp
<1>3. ASSUME NEW p \in Responders,
             Pick(p) \/ Skip(p) \/ Ensure(p) \/ Answer(p) \/ AnswerFails(p) \/ StopServing(p)
      PROVE  mismatched' = mismatched
  BY <1>3 DEF Pick, Skip, Ensure, Answer, AnswerFails, StopServing, requester
<1>4. CASE UNCHANGED vars
  BY <1>4 DEF vars, NoMismatch
<1>5. CASE mismatched' = mismatched
  BY <1>m, <1>5 DEF NoMismatch
<1>6. QED
  BY <1>m, <1>1, <1>2, <1>3, <1>4, <1>5 DEF Next, Quiet, vars, NoMismatch

----------------------------------------------------------------------------
(* A step takes away no private stream a requester goes on waiting on: each *)
(* drop is of its own call's attempt, which is nobody else's.               *)
LEMMA StreamSurvives ==
    ASSUME TypeOK, Distinct, [Next]_vars, NEW q \in Requesters,
           attempt[q] # None, attempt'[q] = attempt[q], attempt[q] \in streams
    PROVE  attempt[q] \in streams'
<1>0. sent \in Nat /\ attempt \in [Requesters -> Nat] /\ attempt[q] <= sent
  BY RequestReplyAssumption DEF TypeOK, Distinct
<1>1. ASSUME NEW r \in Requesters, Request(r) PROVE attempt[q] \in streams'
  BY <1>1 DEF Request, Open
<1>2. ASSUME NEW r \in Requesters, RequestFails(r) PROVE attempt[q] \in streams'
  <2>1. Open(sent', streams) \ {sent'} \subseteq streams'
    BY <1>2, AfterDropEffect DEF RequestFails
  <2>2. sent' = sent + 1
    BY <1>2 DEF RequestFails, NewAttempt
  <2>3. attempt[q] # sent'
    BY <1>0, <2>2
  <2>4. QED
    BY <2>1, <2>3 DEF Open
<1>3. ASSUME NEW r \in Requesters, Resend(r) PROVE attempt[q] \in streams'
  <2>1. PICK kept \in AfterDrop(attempt[r], streams) : StreamsAre(Open(sent', kept), replies)
    BY <1>3 DEF Resend
  <2>2. streams \ {attempt[r]} \subseteq streams'
    BY <2>1, AfterDropEffect, StreamsAreEffect DEF Open
  <2>3. attempt'[r] = sent + 1
    BY <1>0, <1>3 DEF Resend, NewAttempt
  <2>4. q # r
    BY <1>0, <2>3
  <2>5. QED
    BY <2>2, <2>4 DEF Distinct
<1>4. ASSUME NEW r \in Requesters, GetReply(r) \/ Mismatch(r) \/ GiveUp(r)
      PROVE  attempt[q] \in streams'
  <2>1. PICK left \in SUBSET replies : Return(r, left)
    BY <1>4 DEF GetReply, Mismatch, GiveUp
  <2>2. streams \ {attempt[r]} \subseteq streams' /\ attempt' = [attempt EXCEPT ![r] = None]
    BY <2>1, ReturnEffect
  <2>3. q # r
    BY <1>0, <2>2
  <2>4. QED
    BY <2>2, <2>3 DEF Distinct
<1>5. ASSUME NEW p \in Responders,
             Pick(p) \/ Skip(p) \/ Ensure(p) \/ Answer(p) \/ AnswerFails(p) \/ StopServing(p)
      PROVE  streams \subseteq streams'
  BY <1>5 DEF Pick, Skip, Ensure, Answer, AnswerFails, StopServing, Open
<1>6. CASE UNCHANGED vars
  BY <1>6 DEF vars
<1>7. QED
  BY <1>1, <1>2, <1>3, <1>4, <1>5, <1>6 DEF Next, Quiet

(* A requester that begins to wait has its stream, and keeps it. *)
LEMMA StreamStep == TypeOK /\ Distinct /\ StreamWhileWaiting /\ [Next]_vars => StreamWhileWaiting'
<1> SUFFICES ASSUME TypeOK, Distinct, StreamWhileWaiting, [Next]_vars, mode = "private",
                    NEW q \in Requesters, attempt'[q] # None
             PROVE  attempt'[q] \in streams'
  BY SameMode DEF StreamWhileWaiting
<1>1. ASSUME attempt'[q] = attempt[q] PROVE attempt'[q] \in streams'
  BY <1>1, StreamSurvives DEF StreamWhileWaiting
<1>2. ASSUME NEW r \in Requesters, Request(r), attempt'[q] # attempt[q]
      PROVE  attempt'[q] \in streams'
  BY <1>2 DEF Request, Open, TypeOK
<1>3. ASSUME NEW r \in Requesters, Resend(r), attempt'[q] # attempt[q]
      PROVE  attempt'[q] \in streams'
  <2>1. attempt'[q] = sent'
    BY <1>3 DEF Resend, TypeOK
  <2>2. PICK kept : StreamsAre(Open(sent', kept), replies)
    BY <1>3 DEF Resend
  <2>3. QED
    BY <2>1, <2>2, StreamsAreEffect DEF Open
<1>4. ASSUME NEW r \in Requesters, GetReply(r) \/ Mismatch(r) \/ GiveUp(r)
      PROVE  attempt'[q] = attempt[q]
  BY <1>4 DEF GetReply, Mismatch, GiveUp, Return, TypeOK
<1>5. ASSUME NEW r \in Requesters, RequestFails(r) PROVE attempt'[q] = attempt[q]
  BY <1>5 DEF RequestFails
<1>6. ASSUME NEW p \in Responders,
             Pick(p) \/ Skip(p) \/ Ensure(p) \/ Answer(p) \/ AnswerFails(p) \/ StopServing(p)
      PROVE  attempt'[q] = attempt[q]
  BY <1>6 DEF Pick, Skip, Ensure, Answer, AnswerFails, StopServing, requester
<1>7. CASE UNCHANGED vars
  BY <1>1, <1>7 DEF vars
<1>8. QED
  BY <1>1, <1>2, <1>3, <1>4, <1>5, <1>6, <1>7 DEF Next, Quiet

----------------------------------------------------------------------------
(* Every step keeps the invariant. *)
LEMMA StepIInv == IInv /\ Busy /\ [Next]_vars => IInv' /\ Busy'
BY TypeStep, HonestStep, DistinctStep, OwnAnswerStep, NoMismatchStep, StreamStep DEF IInv

(* The invariant holds throughout. *)
LEMMA Invariance == Spec => [](IInv /\ Busy)
<1>1. Init => IInv /\ Busy
  BY InitIInv
<1>2. IInv /\ Busy /\ [Next]_vars => (IInv /\ Busy)'
  BY StepIInv
<1>3. QED
  BY <1>1, <1>2, PTL DEF Spec

(* Every variable of request/reply keeps its type. *)
THEOREM TypeCorrect == Spec => []TypeOK
<1>1. IInv => TypeOK
  BY DEF IInv
<1>2. QED
  BY <1>1, Invariance, PTL

(* No call of Request returns the reply to another request, whatever is     *)
(* retried, late or lost, but for a reply without a correlation id on the   *)
(* shared queue of backends.Request.                                        *)
THEOREM OwnAnswers == Spec => []OwnAnswer
<1>1. IInv => OwnAnswer
  BY DEF IInv
<1>2. QED
  BY <1>1, Invariance, PTL

(* The check for ErrReplyMismatch of the Artemis, IBM MQ and NATS adapters  *)
(* never fires on a queue of the program's own choosing.                    *)
THEOREM NoMismatches == Spec => []NoMismatch
<1>1. IInv => NoMismatch
  BY DEF IInv
<1>2. QED
  BY <1>1, Invariance, PTL

(* dropReplyQueue and its deferred calls never delete the stream of a       *)
(* request that is waited for.                                              *)
THEOREM StreamStays == Spec => []StreamWhileWaiting
<1>1. IInv => StreamWhileWaiting
  BY DEF IInv
<1>2. QED
  BY <1>1, Invariance, PTL

----------------------------------------------------------------------------
(* What a requester can read, it can still read after a step of another. *)
LEMMA VisibleKept ==
    ASSUME IInv, [Next]_vars, NEW q \in Requesters, mode # "none",
           attempt[q] # None, attempt'[q] = attempt[q]
    PROVE  Visible(q) \subseteq replies'
<1> SUFFICES ASSUME NEW m \in Visible(q) PROVE m \in replies'
  OBVIOUS
<1> USE DEF IInv
<1>1. m \in replies /\ m.queue = ReplyQueueOf(attempt[q])
  BY DEF Visible
<1>2. m.queue = Shared \/ m.queue \in streams'
  <2>1. CASE mode = "private"
    <3>1. attempt[q] \in streams
      BY <2>1 DEF StreamWhileWaiting
    <3>2. attempt[q] \in streams'
      BY <3>1, StreamSurvives
    <3>3. QED
      BY <1>1, <2>1, <3>2 DEF ReplyQueueOf
  <2>2. CASE mode # "private"
    BY <1>1, <2>2 DEF ReplyQueueOf
  <2>3. QED
    BY <2>1, <2>2
<1>3. sent \in Nat /\ attempt \in [Requesters -> Nat] /\ attempt[q] <= sent
  BY RequestReplyAssumption DEF TypeOK, Distinct
<1>4. ASSUME NEW r \in Requesters, GetReply(r) \/ Mismatch(r) \/ GiveUp(r)
      PROVE  m \in replies'
  <2>1. attempt[r] # None
    BY <1>4 DEF GetReply, Mismatch, GiveUp
  <2>2. PICK left : /\ Return(r, left)
                    /\ left = replies \/ \E n \in Visible(r) : left = replies \ {n}
    BY <1>4 DEF GetReply, Mismatch, GiveUp
  <2>3. attempt' = [attempt EXCEPT ![r] = None]
    BY <2>2, ReturnEffect
  <2>4. q # r
    BY <1>3, <2>3
  <2>5. attempt[q] # attempt[r]
    BY <2>1, <2>4 DEF Distinct
  <2>6. m.answers = attempt[q]
    BY VisibleIsOwn
  <2>7. ASSUME NEW n \in Visible(r) PROVE n # m
    <3>1. n.answers = attempt[r]
      BY <2>1, VisibleIsOwn
    <3>2. QED
      BY <2>5, <2>6, <3>1
  <2>8. m \in left
    BY <1>1, <2>2, <2>7
  <2>9. QED
    BY <1>2, <2>2, <2>8, ReturnEffect
<1>5. ASSUME NEW r \in Requesters, Resend(r) PROVE m \in replies'
  <2>1. PICK kept : StreamsAre(Open(sent', kept), replies)
    BY <1>5 DEF Resend
  <2>2. QED
    BY <1>1, <1>2, <2>1, StreamsAreEffect
<1>6. ASSUME NEW r \in Requesters, Request(r) \/ RequestFails(r)
      PROVE  m \in replies'
  BY <1>1, <1>6 DEF Request, RequestFails
<1>7. ASSUME NEW p \in Responders,
             Pick(p) \/ Skip(p) \/ Ensure(p) \/ Answer(p) \/ AnswerFails(p) \/ StopServing(p)
      PROVE  m \in replies'
  BY <1>1, <1>7 DEF Pick, Skip, Ensure, Answer, AnswerFails, StopServing
<1>8. CASE UNCHANGED vars
  BY <1>1, <1>8 DEF vars
<1>9. QED
  BY <1>4, <1>5, <1>6, <1>7, <1>8 DEF Next, Quiet

(* A requester gets the answer to its own request, or none, and what it     *)
(* waits on stays.                                                          *)
THEOREM RepliesAreOwn == Spec => []OwnReplies
  BY TypeCorrect, OwnAnswers, NoMismatches, StreamStays, PTL DEF OwnReplies

(* The replies on Artemis's one reply queue, or on NATS's private ones,     *)
(* wait for the requester that can read them.                               *)
THEOREM RepliesKept == Spec => ReplyKeptForOwner
<1>1. IInv /\ [Next]_vars =>
        [\A r \in Requesters :
           mode # "none" /\ attempt[r] # None /\ attempt'[r] = attempt[r]
             => Visible(r) \subseteq replies']_vars
  BY VisibleKept
<1>2. QED
  BY <1>1, Invariance, PTL DEF Spec, ReplyKeptForOwner

----------------------------------------------------------------------------
(* Why a refused reply had a cause: a request is in one place at a time.    *)

(* What is under way, or was refused, answers an attempt that was made. *)
Made ==
    /\ \A a \in requests : a <= sent
    /\ \A p \in Responders : serving[p] <= sent
    /\ \A m \in replies : m.answers <= sent
    /\ \A g \in got \cup mismatched : g.answers <= sent

(* A request waits, is served, is answered or had its answer accepted; and  *)
(* it is answered once.                                                     *)
OneCopy ==
    /\ \A p \in Responders : serving[p] \notin requests
    /\ \A p, q \in Responders : serving[p] = serving[q] /\ serving[p] # None => p = q
    /\ \A m \in replies :
        /\ m.answers \notin requests
        /\ \A p \in Responders : serving[p] # m.answers
        /\ \A n \in replies : n.answers = m.answers => n = m
    /\ \A g \in got :
        /\ g.answers \notin requests
        /\ \A p \in Responders : serving[p] # g.answers
        /\ \A m \in replies : m.answers # g.answers

(* A requester waits for its latest attempt; the earlier ones it gave up,   *)
(* or had a reply for.                                                      *)
Settled ==
    \A r \in Requesters, a \in Attempts :
        r \in owner[a] =>
            /\ a <= sent
            /\ attempt[r] = None \/ a <= attempt[r]
            /\ attempt[r] = a \/ a \in abandoned \/ \E h \in got : h.attempt = a

(* A reply accepted by its correlation id is the answer. *)
Genuine == \A h \in got : h.corr = None \/ (h.corr = h.attempt /\ h.answers = h.attempt)

CauseInv == Made /\ OneCopy /\ Settled /\ Genuine /\ MismatchHasCause

(* The initial states satisfy it: nothing was sent. *)
LEMMA InitCause == Init => CauseInv
BY DEF Init, CauseInv, Made, OneCopy, Settled, Genuine, MismatchHasCause

(* A step that sends a request, in the terms of these invariants. *)
Sends(r) ==
    /\ NewAttempt(r)
    /\ requests' \subseteq requests \cup {sent + 1}
    /\ replies' \subseteq replies
    /\ abandoned \subseteq abandoned'
    /\ \/ /\ attempt' = [attempt EXCEPT ![r] = sent + 1]
          /\ attempt[r] = None \/ attempt[r] \in abandoned'
       \/ attempt' = attempt /\ attempt[r] = None /\ sent + 1 \in abandoned'
    /\ UNCHANGED <<responder, got, mismatched>>

(* A step that ends a call, on which a reply may be consumed. *)
Ends(r) ==
    /\ attempt[r] # None
    /\ attempt' = [attempt EXCEPT ![r] = None]
    /\ replies' \subseteq replies
    /\ UNCHANGED <<sent, owner, requests, responder>>

(* Request, RequestFails and Resend send. *)
LEMMA SendsEffect ==
    ASSUME TypeOK, NEW r \in Requesters, Request(r) \/ RequestFails(r) \/ Resend(r)
    PROVE  Sends(r)
<1>1. CASE Request(r)
  BY <1>1 DEF Request, NewAttempt, Sends
<1>2. CASE RequestFails(r)
  BY <1>2 DEF RequestFails, NewAttempt, Sends
<1>3. CASE Resend(r)
  <2>1. replies' \subseteq replies
    BY <1>3, StreamsAreEffect DEF Resend
  <2>2. QED
    BY <1>3, <2>1 DEF Resend, NewAttempt, Sends
<1>4. QED
  BY <1>1, <1>2, <1>3

(* GetReply, Mismatch and GiveUp end a call. *)
LEMMA EndsEffect ==
    ASSUME NEW r \in Requesters, GetReply(r) \/ Mismatch(r) \/ GiveUp(r)
    PROVE  Ends(r)
<1>1. PICK left \in SUBSET replies : Return(r, left)
  BY DEF GetReply, Mismatch, GiveUp
<1>2. attempt' = [attempt EXCEPT ![r] = None] /\ replies' \subseteq replies
  BY <1>1, ReturnEffect
<1>3. QED
  BY <1>2 DEF GetReply, Mismatch, GiveUp, Ends

(* A request that is sent is new to everything under way. *)
LEMMA SendsCause ==
    ASSUME TypeOK, CauseInv, NEW r \in Requesters, Sends(r)
    PROVE  CauseInv'
<1> USE DEF CauseInv
<1>1. /\ sent \in Nat /\ sent' = sent + 1 /\ sent + 1 \in Attempts
      /\ owner' = [owner EXCEPT ![sent + 1] = {r}]
      /\ serving' = serving /\ got' = got /\ mismatched' = mismatched
  BY RequestReplyAssumption DEF Sends, NewAttempt, TypeOK
<1>2. /\ \A a \in requests : a \in Nat
      /\ \A p \in Responders : serving[p] \in Nat
      /\ \A m \in replies : m.answers \in Nat
      /\ \A g \in got \cup mismatched : g.answers \in Nat
      /\ attempt \in [Requesters -> Nat]
  BY RequestReplyAssumption DEF TypeOK, Reply, Receipt
<1>3. requests' \subseteq requests \cup {sent + 1} /\ replies' \subseteq replies
  BY DEF Sends
<1>4. Made'
  BY <1>1, <1>2, <1>3 DEF Made
<1>5. OneCopy'
  <2>1. /\ sent + 1 # None
        /\ \A p \in Responders : serving[p] # sent + 1
        /\ \A m \in replies : m.answers # sent + 1
        /\ \A g \in got : g.answers # sent + 1
    BY <1>1, <1>2 DEF Made
  <2>2. QED
    BY <1>1, <1>3, <2>1 DEF OneCopy
<1>6. Settled'
  <2> SUFFICES ASSUME NEW q \in Requesters, NEW a \in Attempts, q \in owner'[a]
               PROVE  /\ a <= sent'
                      /\ attempt'[q] = None \/ a <= attempt'[q]
                      /\ \/ attempt'[q] = a \/ a \in abandoned'
                         \/ \E h \in got' : h.attempt = a
    BY DEF Settled
  <2>0. owner \in [Attempts -> SUBSET Requesters] /\ a \in Nat
    BY RequestReplyAssumption DEF TypeOK
  <2>1. CASE a = sent + 1
    <3>1. q = r
      BY <1>1, <2>0, <2>1
    <3>2. QED
      BY <1>1, <1>2, <2>1, <3>1 DEF Sends
  <2>2. CASE a # sent + 1
    <3>1. q \in owner[a]
      BY <1>1, <2>0, <2>2
    <3>2. /\ a <= sent
          /\ attempt[q] = None \/ a <= attempt[q]
          /\ attempt[q] = a \/ a \in abandoned \/ \E h \in got : h.attempt = a
      BY <3>1 DEF Settled
    <3>3. attempt'[q] = attempt[q] \/ (q = r /\ attempt'[q] = sent + 1)
      BY <1>2 DEF Sends
    <3>4. a <= sent' /\ (attempt'[q] = None \/ a <= attempt'[q])
      BY <1>1, <2>0, <3>2, <3>3
    <3>5. attempt'[q] # attempt[q] /\ attempt[q] = a => a \in abandoned'
      BY <1>1, <2>0, <3>3 DEF Sends
    <3>6. QED
      BY <1>1, <3>2, <3>4, <3>5 DEF Sends
  <2>3. QED
    BY <2>1, <2>2
<1>7. Genuine'
  BY <1>1 DEF Genuine
<1>8. MismatchHasCause'
  <2> SUFFICES ASSUME NEW g \in mismatched, g.by \in owner'[g.answers]
               PROVE  /\ g.answers < g.attempt
                      /\ \/ g.answers \in abandoned'
                         \/ \E h \in got' : h.attempt = g.answers /\ h.corr = None
    BY <1>1 DEF MismatchHasCause
  <2>1. g.answers # sent + 1 /\ g.answers \in Attempts
    BY <1>1, <1>2 DEF Made, TypeOK, Receipt
  <2>2. g.by \in owner[g.answers]
    BY <1>1, <2>1 DEF TypeOK
  <2>3. QED
    BY <1>1, <2>2 DEF MismatchHasCause, Sends
<1>9. QED
  BY <1>4, <1>5, <1>6, <1>7, <1>8

(* What GetReply accepts is consumed, and is the answer if it says so. *)
LEMMA GetReplyCause ==
    ASSUME TypeOK, Honest, CauseInv, NEW r \in Requesters, GetReply(r)
    PROVE  CauseInv'
<1> USE DEF CauseInv
<1>1. PICK m \in Visible(r) : /\ Accepted(r, m)
                              /\ got' = got \cup {ReceiptOf(r, m)}
                              /\ Return(r, replies \ {m})
  BY DEF GetReply
<1>2. /\ Ends(r) /\ replies' \subseteq replies \ {m}
      /\ abandoned' = abandoned /\ mismatched' = mismatched
  BY <1>1, EndsEffect, ReturnEffect DEF GetReply
<1>3. /\ m \in replies /\ m.corr \in {None, m.answers}
      /\ sent' = sent /\ owner' = owner /\ requests' = requests /\ serving' = serving
      /\ attempt' = [attempt EXCEPT ![r] = None] /\ attempt[r] # None
  BY <1>1, <1>2 DEF Visible, Honest, Ends
<1> DEFINE h0 == ReceiptOf(r, m)
<1>4. h0.answers = m.answers /\ h0.corr = m.corr /\ h0.attempt = attempt[r]
  BY DEF ReceiptOf
<1>5. got' = got \cup {h0}
  BY <1>1
<1> HIDE DEF h0
<1>6. Made'
  BY <1>2, <1>3, <1>4, <1>5 DEF Made
<1>7. OneCopy'
  <2>1. \A n \in replies' : n.answers # m.answers
    BY <1>2, <1>3 DEF OneCopy
  <2>2. QED
    BY <1>2, <1>3, <1>4, <1>5, <2>1 DEF OneCopy
<1>8. Settled'
  BY <1>2, <1>3, <1>4, <1>5 DEF Settled, TypeOK
<1>9. Genuine'
  BY <1>1, <1>3, <1>4, <1>5 DEF Genuine, Accepted
<1>10. MismatchHasCause'
  BY <1>2, <1>3, <1>5 DEF MismatchHasCause
<1>11. QED
  BY <1>6, <1>7, <1>8, <1>9, <1>10

(* A refused reply that answers an attempt of the same requester answers an *)
(* earlier one: one given up, or one whose receipt did not consume the      *)
(* answer, as that is what is refused now.                                  *)
LEMMA MismatchCause ==
    ASSUME TypeOK, Honest, CauseInv, NEW r \in Requesters, Mismatch(r)
    PROVE  CauseInv'
<1> USE DEF CauseInv
<1>1. PICK m \in Visible(r) : /\ ~Accepted(r, m)
                              /\ mismatched' = mismatched \cup {ReceiptOf(r, m)}
  BY DEF Mismatch
<1>2. /\ attempt[r] # None /\ attempt' = [attempt EXCEPT ![r] = None]
      /\ replies' \subseteq replies /\ abandoned' = abandoned \cup {attempt[r]}
      /\ sent' = sent /\ owner' = owner /\ requests' = requests
      /\ serving' = serving /\ got' = got
  BY EndsEffect DEF Ends, Mismatch
<1> DEFINE g0 == ReceiptOf(r, m)
<1>3. /\ g0.by = r /\ g0.answers = m.answers /\ g0.attempt = attempt[r]
      /\ mismatched' = mismatched \cup {g0}
  BY <1>1 DEF ReceiptOf
<1> HIDE DEF g0
<1>4. m \in replies /\ m.corr = m.answers /\ m.answers # attempt[r]
  BY <1>1 DEF Visible, Honest, Accepted
<1>5. m.answers \in Attempts /\ attempt[r] \in Attempts
  BY <1>2, <1>4 DEF TypeOK, Reply
<1>6. Made'
  BY <1>2, <1>3, <1>4 DEF Made
<1>7. OneCopy'
  BY <1>2 DEF OneCopy
<1>8. Settled'
  BY <1>2 DEF Settled, TypeOK
<1>9. Genuine'
  BY <1>2 DEF Genuine
<1>10. ASSUME r \in owner[m.answers]
       PROVE  /\ m.answers < attempt[r]
              /\ \/ m.answers \in abandoned
                 \/ \E h \in got : h.attempt = m.answers /\ h.corr = None
  <2>1. /\ attempt[r] = None \/ m.answers <= attempt[r]
        /\ \/ attempt[r] = m.answers \/ m.answers \in abandoned
           \/ \E h \in got : h.attempt = m.answers
    BY <1>5, <1>10 DEF Settled
  <2>2. m.answers < attempt[r]
    BY <1>2, <1>4, <1>5, <2>1, RequestReplyAssumption
  <2>3. ASSUME NEW h \in got, h.attempt = m.answers PROVE h.corr = None
    BY <1>4, <2>3 DEF Genuine, OneCopy
  <2>4. QED
    BY <1>4, <2>1, <2>2, <2>3
<1>11. MismatchHasCause'
  BY <1>2, <1>3, <1>10 DEF MismatchHasCause
<1>12. QED
  BY <1>6, <1>7, <1>8, <1>9, <1>11

(* Giving up leaves the attempt abandoned. *)
LEMMA GiveUpCause ==
    ASSUME TypeOK, CauseInv, NEW r \in Requesters, GiveUp(r)
    PROVE  CauseInv'
<1> USE DEF CauseInv
<1>1. /\ attempt' = [attempt EXCEPT ![r] = None]
      /\ replies' \subseteq replies /\ abandoned' = abandoned \cup {attempt[r]}
      /\ sent' = sent /\ owner' = owner /\ requests' = requests
      /\ serving' = serving /\ got' = got /\ mismatched' = mismatched
  BY EndsEffect DEF Ends, GiveUp
<1>2. Made' /\ OneCopy' /\ Genuine' /\ MismatchHasCause'
  BY <1>1 DEF Made, OneCopy, Genuine, MismatchHasCause
<1>3. Settled'
  BY <1>1 DEF Settled, TypeOK
<1>4. QED
  BY <1>2, <1>3

(* A responder takes a request out of the queue and answers it once. *)
LEMMA ResponderCause ==
    ASSUME TypeOK, Busy, CauseInv, NEW p \in Responders,
           \/ Pick(p) \/ Skip(p) \/ Ensure(p) \/ Answer(p)
           \/ AnswerFails(p) \/ StopServing(p)
    PROVE  CauseInv'
<1> USE DEF CauseInv
<1>1. /\ sent' = sent /\ attempt' = attempt /\ owner' = owner
      /\ abandoned' = abandoned /\ got' = got /\ mismatched' = mismatched
  BY DEF Pick, Skip, Ensure, Answer, AnswerFails, StopServing
<1>2. Settled' /\ Genuine' /\ MismatchHasCause'
  BY <1>1 DEF Settled, Genuine, MismatchHasCause
<1>3. CASE Pick(p)
  <2>1. PICK a \in requests : /\ requests' = requests \ {a}
                              /\ serving' = [serving EXCEPT ![p] = a]
    BY <1>3 DEF Pick
  <2>2. replies' = replies /\ serving \in [Responders -> Attempts \cup {None}]
    BY <1>3 DEF Pick, TypeOK
  <2>3. Made'
    BY <1>1, <2>1, <2>2 DEF Made
  <2>4. OneCopy'
    BY <1>1, <2>1, <2>2 DEF OneCopy
  <2>5. QED
    BY <1>2, <2>3, <2>4
<1>4. CASE Answer(p)
  <2>1. /\ replies' = replies \cup {ReplyFrom(p, serving[p])}
        /\ serving' = [serving EXCEPT ![p] = None] /\ requests' = requests
        /\ serving[p] \in Attempts /\ serving[p] # None
    BY <1>4 DEF Answer, Rest, Die, Busy
  <2> DEFINE n == ReplyFrom(p, serving[p])
  <2>2. n.answers = serving[p] /\ replies' = replies \cup {n}
    BY <2>1 DEF ReplyFrom
  <2> HIDE DEF n
  <2>3. /\ serving \in [Responders -> Attempts \cup {None}]
        /\ requests \subseteq Attempts /\ 0 <= sent
        /\ \A m \in replies : m.answers # None
        /\ \A g \in got : g.answers # None
    BY RequestReplyAssumption DEF TypeOK, Reply, Receipt
  <2>4. Made'
    BY <1>1, <2>1, <2>2, <2>3 DEF Made
  <2>5. OneCopy'
    BY <1>1, <2>1, <2>2, <2>3 DEF OneCopy
  <2>6. QED
    BY <1>2, <2>4, <2>5
<1>5. CASE Ensure(p)
  BY <1>1, <1>2, <1>5 DEF Ensure, Made, OneCopy
<1>6. CASE Skip(p) \/ AnswerFails(p) \/ StopServing(p)
  <2>1. /\ serving' = [serving EXCEPT ![p] = None]
        /\ requests' = requests /\ replies' = replies
    BY <1>6 DEF Skip, AnswerFails, StopServing, Rest, Die
  <2>2. /\ serving \in [Responders -> Attempts \cup {None}]
        /\ requests \subseteq Attempts /\ 0 <= sent
        /\ \A m \in replies : m.answers # None
        /\ \A g \in got : g.answers # None
    BY RequestReplyAssumption DEF TypeOK, Reply, Receipt
  <2>3. Made'
    BY <1>1, <2>1, <2>2 DEF Made
  <2>4. OneCopy'
    BY <1>1, <2>1, <2>2 DEF OneCopy
  <2>5. QED
    BY <1>2, <2>3, <2>4
<1>7. QED
  BY <1>3, <1>4, <1>5, <1>6

(* Every step keeps the accounts of the requests. *)
LEMMA CauseStep == TypeOK /\ Busy /\ Honest /\ CauseInv /\ [Next]_vars => CauseInv'
<1> SUFFICES ASSUME TypeOK, Busy, Honest, CauseInv, [Next]_vars PROVE CauseInv'
  OBVIOUS
<1>1. CASE UNCHANGED vars
  BY <1>1 DEF vars, CauseInv, Made, OneCopy, Settled, Genuine, MismatchHasCause
<1>2. QED
  BY <1>1, SendsEffect, SendsCause, GetReplyCause, MismatchCause, GiveUpCause,
     ResponderCause DEF Next, Quiet

(* A reply that defaultRequest consumes and refuses never was the answer it *)
(* should have returned: it is somebody else's, or late.                    *)
THEOREM MismatchesHaveCause == Spec => []MismatchHasCause
<1>1. Init => CauseInv
  BY InitCause
<1>2. (IInv /\ Busy) /\ CauseInv /\ [Next]_vars => CauseInv'
  BY CauseStep DEF IInv
<1>3. CauseInv => MismatchHasCause
  BY DEF CauseInv
<1>4. QED
  BY <1>1, <1>2, <1>3, Invariance, PTL DEF Spec

----------------------------------------------------------------------------
(* The wrapper that such calls go through (cmd/reconnect.go), for any       *)
(* number of goroutines, any number of adapters and any length of backoff.  *)
(*                                                                          *)
(* Its properties are not inductive: they rest on who owns the mutex where  *)
(* (MutexInv), on the closed check at the head of retryOp's loop still      *)
(* being valid while the backoff sleeps (OpenWhileRetrying), and, for       *)
(* duplicates, on how many attempts a caller's place in the code allows.    *)

(* The owner of the mutex is the caller whose code runs under it.           *)
MutexInv == \A c \in Callers : mu = c <=> callerPc[c] \in W!LockedPcs

(* A caller past the closed check holds the mutex, so Close cannot come in. *)
OpenWhileRetrying ==
    \A c \in Callers : callerPc[c] \in W!LockedPcs \ {"loop"} => ~closed

(* What Close leaves behind. *)
ClosedNil == closed => adapter = W!Nil

LockInv == W!NoLeak /\ ClosedNil /\ MutexInv /\ OpenWhileRetrying

(* The attempts a caller has made, by the place it has reached. *)
AttemptsInv ==
    \A c \in Callers :
        /\ applied[c] <= 1 + tries[c]
        /\ callerPc[c] \in {"idle", "browse"} => applied[c] = 0
        /\ callerPc[c] \in {"op", "wait", "retry"} => applied[c] <= tries[c]
        /\ callerPc[c] \in {"answered", "retried"} => applied[c] >= 1
        /\ result[c] = "ok" => applied[c] >= 1

(* Without a dropped connection only Close can make an operation fail, and  *)
(* then its retry stops at the head of the loop.                            *)
QuietInv ==
    drops = 0 =>
        /\ broken = {}
        /\ \A c \in Callers :
            /\ tries[c] = 0
            /\ callerPc[c] \in {"op", "answered"} => closed \/ W!Healthy(held[c])
            /\ callerPc[c] \in {"failed", "loop"} => closed
            /\ callerPc[c] \notin {"wait", "retry", "retried"}

WrapperInv == W!TypeOK /\ LockInv /\ AttemptsInv /\ QuietInv

USE DEF W!Nil, W!Adapters, W!RetryPcs, W!LockedPcs, W!Pcs, W!Results, W!Goto, W!Return,
        W!Healthy, W!shared, W!network, W!vars

----------------------------------------------------------------------------
(* The initial states satisfy the invariant. *)
LEMMA WrapperInit ==
    ASSUME W!ReconnectAssumption PROVE W!Init => WrapperInv
<1> SUFFICES ASSUME W!Init PROVE WrapperInv
  OBVIOUS
<1>1. W!TypeOK
  <2>1. closed \in BOOLEAN
    BY DEF W!Init
  <2>2. QED
    BY <2>1 DEF W!ReconnectAssumption, W!Init, W!TypeOK
<1>2. LockInv
  BY DEF W!ReconnectAssumption, W!Init, LockInv, W!NoLeak, ClosedNil, MutexInv, OpenWhileRetrying
<1>3. AttemptsInv /\ QuietInv
  BY DEF W!Init, AttemptsInv, QuietInv
<1>4. QED
  BY <1>1, <1>2, <1>3 DEF WrapperInv

(* A factory that succeeds numbers its adapter within the bound.            *)
LEMMA FactoryType ==
    ASSUME W!ReconnectAssumption
    PROVE  W!TypeOK /\ W!FactoryOK => made' \in W!Adapters /\ made' \in 0..MaxAdapters
BY DEF W!ReconnectAssumption, W!TypeOK, W!FactoryOK

(* Every step keeps the types. *)
LEMMA WrapperTypeStep ==
    ASSUME W!ReconnectAssumption PROVE W!TypeOK /\ [W!Next]_(W!vars) => W!TypeOK'
<1> SUFFICES ASSUME W!TypeOK, [W!Next]_(W!vars) PROVE W!TypeOK'
  OBVIOUS
<1> USE DEF W!ReconnectAssumption, W!TypeOK
<1>1. ASSUME NEW c \in Callers, W!Call(c) PROVE W!TypeOK'
  <2>1. closed' \in BOOLEAN
    BY <1>1 DEF W!Call, W!EnsureConnected
  <2>2. /\ made' \in 0..MaxAdapters /\ adapter' \in W!Adapters \cup {W!Nil}
        /\ live' \subseteq W!Adapters
    BY <1>1, FactoryType DEF W!Call, W!EnsureConnected
  <2>3. callerPc' \in [Callers -> W!Pcs] /\ held' \in [Callers -> W!Adapters \cup {W!Nil}]
    BY <1>1, FactoryType DEF W!Call, W!EnsureConnected
  <2>4. QED
    BY <1>1, <2>1, <2>2, <2>3 DEF W!Call, W!EnsureConnected
<1>2. ASSUME NEW c \in Callers, W!Browse(c) PROVE W!TypeOK'
  <2>1. closed' \in BOOLEAN
    BY <1>2 DEF W!Browse, W!EnsureConnected
  <2>2. /\ made' \in 0..MaxAdapters /\ adapter' \in W!Adapters \cup {W!Nil}
        /\ live' \subseteq W!Adapters
    BY <1>2, FactoryType DEF W!Browse, W!EnsureConnected
  <2>3. callerPc' \in [Callers -> W!Pcs] /\ held' \in [Callers -> W!Adapters \cup {W!Nil}]
    BY <1>2, FactoryType DEF W!Browse, W!EnsureConnected
  <2>4. QED
    BY <1>2, <2>1, <2>2, <2>3 DEF W!Browse, W!EnsureConnected
<1>3. ASSUME NEW c \in Callers, W!BrowseReturn(c) PROVE W!TypeOK'
  BY <1>3 DEF W!BrowseReturn
<1>4. ASSUME NEW c \in Callers, W!Apply(c) \/ W!RetryApply(c) PROVE W!TypeOK'
  <2>1. closed' \in BOOLEAN
    BY <1>4 DEF W!Apply, W!RetryApply, W!Execute
  <2>2. applied' \in [Callers -> Nat] /\ callerPc' \in [Callers -> W!Pcs]
    BY <1>4 DEF W!Apply, W!RetryApply, W!Execute
  <2>3. QED
    BY <1>4, <2>1, <2>2 DEF W!Apply, W!RetryApply, W!Execute
<1>5. ASSUME NEW c \in Callers, W!Finish(c) \/ W!RetryFinish(c) PROVE W!TypeOK'
  BY <1>5 DEF W!Finish, W!RetryFinish, W!Surfaces
<1>6. ASSUME NEW c \in Callers,
             W!ConnectionError(c) \/ W!LockForRetry(c) \/ W!RetryAgain(c)
      PROVE W!TypeOK'
  BY <1>6 DEF W!ConnectionError, W!LockForRetry, W!RetryAgain
<1>7. ASSUME NEW c \in Callers, W!RetryStop(c) \/ W!WaitCancelled(c) PROVE W!TypeOK'
  BY <1>7 DEF W!RetryStop, W!GiveUp, W!WaitCancelled
<1>8. ASSUME NEW c \in Callers, W!RetryWait(c) PROVE W!TypeOK'
  BY <1>8 DEF W!RetryWait
<1>9. ASSUME NEW c \in Callers, W!Reconnected(c) PROVE W!TypeOK'
  <2>1. closed' \in BOOLEAN
    BY <1>9 DEF W!Reconnected, W!Reopen
  <2>2. /\ made' \in 0..MaxAdapters /\ adapter' \in W!Adapters \cup {W!Nil}
        /\ live' \subseteq W!Adapters
    BY <1>9, FactoryType DEF W!Reconnected, W!Reopen
  <2>3. callerPc' \in [Callers -> W!Pcs] /\ held' \in [Callers -> W!Adapters \cup {W!Nil}]
    BY <1>9, FactoryType DEF W!Reconnected, W!Reopen
  <2>4. QED
    BY <1>9, <2>1, <2>2, <2>3 DEF W!Reconnected, W!Reopen
<1>10. ASSUME NEW c \in Callers, W!Cancel(c) PROVE W!TypeOK'
  BY <1>10 DEF W!Cancel
<1>11. ASSUME NEW a \in W!Adapters, W!Drop(a) PROVE W!TypeOK'
  BY <1>11 DEF W!Drop
<1>12. CASE W!Close
  BY <1>12 DEF W!Close
<1>13. CASE W!Terminated \/ UNCHANGED W!vars
  BY <1>13 DEF W!Terminated
<1>14. QED
  BY <1>1, <1>2, <1>3, <1>4, <1>5, <1>6, <1>7, <1>8, <1>9, <1>10, <1>11, <1>12, <1>13
     DEF W!Next, W!Step

(* Every step keeps at most one connection open, and its owner in charge.   *)
LEMMA LockStep ==
    ASSUME W!ReconnectAssumption PROVE W!TypeOK /\ LockInv /\ [W!Next]_(W!vars) => LockInv'
<1> SUFFICES ASSUME W!TypeOK, LockInv, [W!Next]_(W!vars) PROVE LockInv'
  OBVIOUS
<1> USE
    DEF W!ReconnectAssumption, W!TypeOK, LockInv, W!NoLeak, ClosedNil, MutexInv, OpenWhileRetrying
<1>1. ASSUME NEW c \in Callers, W!Call(c) PROVE LockInv'
  BY <1>1 DEF W!Call, W!EnsureConnected, W!FactoryOK
<1>2. ASSUME NEW c \in Callers, W!Browse(c) PROVE LockInv'
  BY <1>2 DEF W!Browse, W!EnsureConnected, W!FactoryOK
<1>3. ASSUME NEW c \in Callers, W!BrowseReturn(c) PROVE LockInv'
  BY <1>3 DEF W!BrowseReturn
<1>4. ASSUME NEW c \in Callers, W!Apply(c) \/ W!RetryApply(c) PROVE LockInv'
  BY <1>4 DEF W!Apply, W!RetryApply, W!Execute
<1>5. ASSUME NEW c \in Callers, W!Finish(c) \/ W!RetryFinish(c) PROVE LockInv'
  BY <1>5 DEF W!Finish, W!RetryFinish, W!Surfaces
<1>6. ASSUME NEW c \in Callers,
             W!ConnectionError(c) \/ W!LockForRetry(c) \/ W!RetryAgain(c)
      PROVE LockInv'
  BY <1>6 DEF W!ConnectionError, W!LockForRetry, W!RetryAgain
<1>7. ASSUME NEW c \in Callers, W!RetryStop(c) \/ W!WaitCancelled(c) PROVE LockInv'
  BY <1>7 DEF W!RetryStop, W!GiveUp, W!WaitCancelled
<1>8. ASSUME NEW c \in Callers, W!RetryWait(c) PROVE LockInv'
  BY <1>8 DEF W!RetryWait
<1>9. ASSUME NEW c \in Callers, W!Reconnected(c) PROVE LockInv'
  BY <1>9 DEF W!Reconnected, W!Reopen, W!FactoryOK
<1>10. ASSUME NEW c \in Callers, W!Cancel(c) PROVE LockInv'
  BY <1>10 DEF W!Cancel
<1>11. ASSUME NEW a \in W!Adapters, W!Drop(a) PROVE LockInv'
  BY <1>11 DEF W!Drop
<1>12. CASE W!Close
  BY <1>12 DEF W!Close
<1>13. CASE W!Terminated \/ UNCHANGED W!vars
  BY <1>13 DEF W!Terminated
<1>14. QED
  BY <1>1, <1>2, <1>3, <1>4, <1>5, <1>6, <1>7, <1>8, <1>9, <1>10, <1>11, <1>12, <1>13
     DEF W!Next, W!Step

(* Every step keeps the number of attempts within the caller's place.       *)
LEMMA AttemptsStep == W!TypeOK /\ AttemptsInv /\ [W!Next]_(W!vars) => AttemptsInv'
<1> SUFFICES ASSUME W!TypeOK, AttemptsInv, [W!Next]_(W!vars) PROVE AttemptsInv'
  OBVIOUS
<1> USE DEF W!TypeOK, AttemptsInv
<1>1. ASSUME NEW c \in Callers, W!Call(c) PROVE AttemptsInv'
  BY <1>1 DEF W!Call, W!EnsureConnected, W!FactoryOK
<1>2. ASSUME NEW c \in Callers, W!Browse(c) PROVE AttemptsInv'
  BY <1>2 DEF W!Browse, W!EnsureConnected, W!FactoryOK
<1>3. ASSUME NEW c \in Callers, W!BrowseReturn(c) PROVE AttemptsInv'
  BY <1>3 DEF W!BrowseReturn
<1>4. ASSUME NEW c \in Callers, W!Apply(c) \/ W!RetryApply(c) PROVE AttemptsInv'
  BY <1>4 DEF W!Apply, W!RetryApply, W!Execute
<1>5. ASSUME NEW c \in Callers, W!Finish(c) \/ W!RetryFinish(c) PROVE AttemptsInv'
  BY <1>5 DEF W!Finish, W!RetryFinish, W!Surfaces
<1>6. ASSUME NEW c \in Callers,
             W!ConnectionError(c) \/ W!LockForRetry(c) \/ W!RetryAgain(c)
      PROVE AttemptsInv'
  BY <1>6 DEF W!ConnectionError, W!LockForRetry, W!RetryAgain
<1>7. ASSUME NEW c \in Callers, W!RetryStop(c) \/ W!WaitCancelled(c) PROVE AttemptsInv'
  BY <1>7 DEF W!RetryStop, W!GiveUp, W!WaitCancelled
<1>8. ASSUME NEW c \in Callers, W!RetryWait(c) PROVE AttemptsInv'
  BY <1>8 DEF W!RetryWait
<1>9. ASSUME NEW c \in Callers, W!Reconnected(c) PROVE AttemptsInv'
  BY <1>9 DEF W!Reconnected, W!Reopen, W!FactoryOK
<1>10. ASSUME NEW c \in Callers, W!Cancel(c) PROVE AttemptsInv'
  BY <1>10 DEF W!Cancel
<1>11. ASSUME NEW a \in W!Adapters, W!Drop(a) PROVE AttemptsInv'
  BY <1>11 DEF W!Drop
<1>12. CASE W!Close
  BY <1>12 DEF W!Close
<1>13. CASE W!Terminated \/ UNCHANGED W!vars
  BY <1>13 DEF W!Terminated
<1>14. QED
  BY <1>1, <1>2, <1>3, <1>4, <1>5, <1>6, <1>7, <1>8, <1>9, <1>10, <1>11, <1>12, <1>13
     DEF W!Next, W!Step

(* Without a drop no step starts a retry. *)
LEMMA QuietStep == W!TypeOK /\ LockInv /\ QuietInv /\ [W!Next]_(W!vars) => QuietInv'
<1> SUFFICES ASSUME W!TypeOK, LockInv, QuietInv, [W!Next]_(W!vars) PROVE QuietInv'
  OBVIOUS
<1> USE DEF W!TypeOK, LockInv, W!NoLeak, ClosedNil, QuietInv
<1>1. ASSUME NEW c \in Callers, W!Call(c) PROVE QuietInv'
  BY <1>1 DEF W!Call, W!EnsureConnected, W!FactoryOK
<1>2. ASSUME NEW c \in Callers, W!Browse(c) PROVE QuietInv'
  BY <1>2 DEF W!Browse, W!EnsureConnected, W!FactoryOK
<1>3. ASSUME NEW c \in Callers, W!BrowseReturn(c) PROVE QuietInv'
  BY <1>3 DEF W!BrowseReturn
<1>4. ASSUME NEW c \in Callers, W!Apply(c) \/ W!RetryApply(c) PROVE QuietInv'
  BY <1>4 DEF W!Apply, W!RetryApply, W!Execute
<1>5. ASSUME NEW c \in Callers, W!Finish(c) \/ W!RetryFinish(c) PROVE QuietInv'
  BY <1>5 DEF W!Finish, W!RetryFinish, W!Surfaces
<1>6. ASSUME NEW c \in Callers,
             W!ConnectionError(c) \/ W!LockForRetry(c) \/ W!RetryAgain(c)
      PROVE QuietInv'
  BY <1>6 DEF W!ConnectionError, W!LockForRetry, W!RetryAgain
<1>7. ASSUME NEW c \in Callers, W!RetryStop(c) \/ W!WaitCancelled(c) PROVE QuietInv'
  BY <1>7 DEF W!RetryStop, W!GiveUp, W!WaitCancelled
<1>8. ASSUME NEW c \in Callers, W!RetryWait(c) PROVE QuietInv'
  BY <1>8 DEF W!RetryWait
<1>9. ASSUME NEW c \in Callers, W!Reconnected(c) PROVE QuietInv'
  BY <1>9 DEF W!Reconnected, W!Reopen, W!FactoryOK
<1>10. ASSUME NEW c \in Callers, W!Cancel(c) PROVE QuietInv'
  BY <1>10 DEF W!Cancel
<1>11. ASSUME NEW a \in W!Adapters, W!Drop(a) PROVE QuietInv'
  BY <1>11 DEF W!Drop
<1>12. CASE W!Close
  BY <1>12 DEF W!Close
<1>13. CASE W!Terminated \/ UNCHANGED W!vars
  BY <1>13 DEF W!Terminated
<1>14. QED
  BY <1>1, <1>2, <1>3, <1>4, <1>5, <1>6, <1>7, <1>8, <1>9, <1>10, <1>11, <1>12, <1>13
     DEF W!Next, W!Step

(* The conjunction is inductive. *)
THEOREM WrapperInvariance ==
    ASSUME W!ReconnectAssumption PROVE W!Spec => []WrapperInv
<1>1. WrapperInv /\ [W!Next]_(W!vars) => WrapperInv'
  BY WrapperTypeStep, LockStep, AttemptsStep, QuietStep DEF WrapperInv
<1>2. QED
  BY WrapperInit, <1>1, PTL DEF W!Spec

----------------------------------------------------------------------------
(* Each variable keeps its type. *)
THEOREM WrapperTypes ==
    ASSUME W!ReconnectAssumption PROVE W!Spec => []W!TypeOK
<1>1. WrapperInv => W!TypeOK
  BY DEF WrapperInv
<1>2. QED
  BY <1>1, WrapperInvariance, PTL

(* No interleaving of calls, reconnects and Close leaks a connection.       *)
THEOREM Leakproof ==
    ASSUME W!ReconnectAssumption PROVE W!Spec => []W!NoLeak
<1>1. WrapperInv => W!NoLeak
  BY DEF WrapperInv, LockInv
<1>2. QED
  BY <1>1, WrapperInvariance, PTL

(* A closed wrapper has, and opens, no connection.                          *)
THEOREM CloseIsFinal ==
    ASSUME W!ReconnectAssumption PROVE W!Spec => []W!ClosedIsFinal
<1>1. WrapperInv => W!ClosedIsFinal
  BY DEF WrapperInv, LockInv, W!NoLeak, ClosedNil, W!ClosedIsFinal
<1>2. QED
  BY <1>1, WrapperInvariance, PTL

(* Success means the broker executed the call; only reconnects repeat it.   *)
THEOREM AtLeastOnceHolds ==
    ASSUME W!ReconnectAssumption PROVE W!Spec => []W!AtLeastOnce
<1>1. WrapperInv => W!AtLeastOnce
  BY DEF WrapperInv, AttemptsInv, W!AtLeastOnce
<1>2. QED
  BY <1>1, WrapperInvariance, PTL

(* Duplicates need a dropped connection.                                    *)
THEOREM DuplicatesNeedDrops ==
    ASSUME W!ReconnectAssumption PROVE W!Spec => []W!NoDropNoDuplicate
<1>1. WrapperInv => W!NoDropNoDuplicate
  BY DEF WrapperInv, W!TypeOK, AttemptsInv, QuietInv, W!NoDropNoDuplicate
<1>2. QED
  BY <1>1, WrapperInvariance, PTL

(* One connection at most, and none once Close has run.                     *)
THEOREM ConnectionsHold == W!Spec => []Connections
  BY WrapperTypes, Leakproof, CloseIsFinal, WrapperHolds, PTL DEF Connections, W!Connections

(* Success means executed; only reconnects, and so only drops, repeat.      *)
THEOREM ExecutionsHold == W!Spec => []Executions
  BY AtLeastOnceHolds, DuplicatesNeedDrops, WrapperHolds, PTL DEF Executions, W!Executions

(* Nothing reaches the broker through a closed wrapper.                     *)
THEOREM SilenceAfterClose == W!Spec => SilentAfterClose
<1>1. WrapperInv /\ [W!Next]_(W!vars) => [closed => applied' = applied]_(W!vars)
  <2> SUFFICES ASSUME WrapperInv, [W!Next]_(W!vars), closed, W!vars' # W!vars
               PROVE  applied' = applied
    OBVIOUS
  <2>1. live = {}
    BY DEF WrapperInv, LockInv, W!NoLeak, ClosedNil
  <2>2. \A c \in Callers : ~W!Apply(c) /\ ~W!RetryApply(c)
    BY <2>1 DEF W!Apply, W!RetryApply, W!Execute
  <2>3. \A c \in Callers : W!BrowseReturn(c) => applied' = applied
    BY <2>1 DEF W!BrowseReturn
  <2>4. QED
    BY <2>2, <2>3 DEF W!Next, W!Step, W!Call, W!Browse, W!Finish, W!ConnectionError,
       W!LockForRetry, W!RetryStop, W!RetryWait, W!WaitCancelled, W!Reconnected,
       W!RetryFinish, W!RetryAgain, W!Close, W!Cancel, W!Drop, W!Terminated
<1>2. QED
  BY <1>1, WrapperHolds, WrapperInvariance, PTL DEF W!Spec, SilentAfterClose, W!SilentAfterClose

=============================================================================
