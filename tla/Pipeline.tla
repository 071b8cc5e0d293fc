------------------------------ MODULE Pipeline ------------------------------
(***************************************************************************)
(* A pipeline of the shell or the terminal UI (cmd/pipeline.go): its       *)
(* blocks run concurrently in an errgroup, joined by os.Pipe.              *)
(*                                                                         *)
(* A block is one verb, or one external command: coalesceStages has merged *)
(* adjacent externals.  The first block consumes a source:                 *)
(*   receive   until the source is empty (-n 0)                            *)
(*   follow    until its context is done (--forever, --stats)              *)
(*   request   in front of a verb, where it is refused                     *)
(* and is followed by blocks that read a pipe:                             *)
(*   send      send or publish as typed                                    *)
(*   lines     the same with -l                                            *)
(*   filter    an external command, line by line                           *)
(***************************************************************************)
EXTENDS Naturals, Sequences, FiniteSets, Functions

CONSTANTS
    Messages,     \* messages that may arrive at the source
    Unencodable,  \* those json.Marshal refuses
    Lines,        \* the pipelines to consider, sequences of kinds
    PipeCap,      \* records a pipe holds before a write blocks
    Deaf,         \* whether the broker's client calls do not heed a context
    NoMessage

Sources == {"receive", "follow", "request"}
Kinds == Sources \cup {"send", "lines", "filter"}

ASSUME PipelineAssumption ==
    /\ Unencodable \subseteq Messages
    /\ \A l \in Lines :
        /\ l \in Seq(Kinds) /\ Len(l) > 1
        /\ \A i \in DOMAIN l : l[i] \in Sources <=> i = 1
        /\ \A i \in 2..Len(l) : l[i] = "filter" => l[i - 1] \notin {"filter", "request"}
    /\ PipeCap \in Nat \ {0}
    /\ Deaf \in BOOLEAN
    /\ NoMessage \notin Messages

VARIABLES
    line,         \* the pipeline that runs
    setup,        \* runOnePipeline
    pc,           \* where each block is
    hand,         \* the record each block works on
    gathered,     \* what a send that reads all of its input has read
    pipe,         \* the records in the pipe in front of each block
    collected,    \* blocks whose pipe has lost its read end
    failure,      \* the first block that returned an error, or 0
    cancelled,    \* the context of the blocks is done
    interrupted,  \* the caller's was
    arrived,      \* messages that have come to the source
    queued,       \* those still there
    unsettled,    \* lost by an acknowledge whose answer was lost
    kept,         \* messages sent, shown, or filtered out
    lost,         \* messages nobody has any more
    early,        \* history: an external command left input unread
    late          \* history: messages taken after the context was done

source == <<arrived, queued, unsettled>>
ledger == <<kept, lost>>
group == <<failure, cancelled>>
io == <<pipe, collected>>
history == <<interrupted, early, late>>

vars == <<line, setup, pc, hand, gathered, io, group, source, ledger, history>>

Last == Len(line)
Blocks == 1..Last
Verb(i) == line[i] # "filter"
Consumer(i) == line[i] \in {"receive", "follow"}
Producer(i) == line[i] \in {"send", "lines"}

(* --ndjson is added for a consumer in front of a verb, and for a producer  *)
(* behind one; the latter only in the last block.                           *)
NdjsonOut(i) == i < Last /\ Verb(i) /\ Verb(i + 1)
NdjsonIn(i) == i = Last /\ Verb(i) /\ Verb(i - 1)

(* A producer sends record by record, or all of its input as one message.   *)
Streams(i) == line[i] = "lines" \/ NdjsonIn(i)

Holds(i) == ({hand[i]} \ {NoMessage}) \cup gathered[i]

Init ==
    /\ line \in Lines
    /\ setup = "wiring"
    /\ pc = [i \in Blocks |-> "new"]
    /\ hand = [i \in Blocks |-> NoMessage]
    /\ gathered = [i \in Blocks |-> {}]
    /\ pipe = [i \in Blocks |-> <<>>]
    /\ collected = {}
    /\ failure = 0
    /\ cancelled = FALSE
    /\ interrupted = FALSE
    /\ arrived = {}
    /\ queued = {}
    /\ unsettled = {}
    /\ kept = {}
    /\ lost = {}
    /\ early = FALSE
    /\ late = {}

Goto(i, l) == pc' = [pc EXCEPT ![i] = l]

(* Mutant: an errgroup without a context. *)
FailsAlone(i) ==
    /\ failure' = IF failure = 0 THEN i ELSE failure
    /\ UNCHANGED cancelled

(* errgroup: the first error cancels the context. *)
Fails(i) ==
    /\ failure' = IF failure = 0 THEN i ELSE failure
    /\ cancelled' = TRUE

(* The block returns: its deferred Close ends the pipe it writes to.        *)
Ends(i, how) ==
    /\ Goto(i, "done")
    /\ \/ how = "error" /\ Fails(i)
       \/ how = "nil" /\ UNCHANGED <<failure, cancelled>>

Empty(i) ==
    /\ hand' = [hand EXCEPT ![i] = NoMessage]
    /\ gathered' = [gathered EXCEPT ![i] = {}]

----------------------------------------------------------------------------
(* runOnePipeline starts the blocks one after the other and waits for all.  *)

Launch(i) ==
    /\ setup = "wiring"
    /\ pc[i] = "new"
    /\ i > 1 => pc[i - 1] # "new"
    /\ Goto(i, "run")
    /\ setup' = IF i = Last THEN "waiting" ELSE setup
    /\ UNCHANGED <<line, hand, gathered, io, group, source, ledger, history>>

(* os.Pipe fails: the blocks that run already are left alone.               *)
PipeFails ==
    /\ setup = "wiring"
    /\ pc[Last - 1] = "new"
    /\ setup' = "failed"
    /\ UNCHANGED <<line, pc, hand, gathered, io, group, source, ledger, history>>

Wait ==
    /\ setup = "waiting"
    /\ \A i \in Blocks : pc[i] = "done"
    /\ setup' = "returned"
    /\ UNCHANGED <<line, pc, hand, gathered, io, group, source, ledger, history>>

(* Nobody closes the parent's read end of a pipe; once no block uses it the *)
(* garbage collector does, and what is left in the pipe is gone.            *)
Collect(i) ==
    /\ i > 1 /\ i \notin collected
    /\ \/ pc[i] = "done"
       \/ setup = "failed" /\ pc[i] = "new" /\ pc[i - 1] # "new"
    /\ collected' = collected \cup {i}
    /\ pipe' = [pipe EXCEPT ![i] = <<>>]
    /\ lost' = lost \cup Range(pipe[i])
    /\ UNCHANGED <<line, setup, pc, hand, gathered, group, source, kept, history>>

----------------------------------------------------------------------------
(* A consumer: consumeMessages. *)

(* Mutant: the loop does not look at its context. *)
PollRegardless(i) ==
    /\ Consumer(i)
    /\ pc[i] = "run"
    /\ Goto(i, "poll")
    /\ UNCHANGED <<line, setup, hand, gathered, io, group, source, ledger, history>>

Poll(i) ==
    /\ Consumer(i)
    /\ pc[i] = "run"
    /\ ~cancelled
    /\ Goto(i, "poll")
    /\ UNCHANGED <<line, setup, hand, gathered, io, group, source, ledger, history>>

StopConsuming(i) ==
    /\ Consumer(i)
    /\ pc[i] = "run"
    /\ cancelled
    /\ Ends(i, "nil")
    /\ UNCHANGED <<line, setup, hand, gathered, io, source, ledger, history>>

Take(i) ==
    /\ pc[i] = "poll"
    /\ \E m \in queued :
        /\ queued' = queued \ {m}
        /\ hand' = [hand EXCEPT ![i] = m]
        /\ late' = IF cancelled THEN late \cup {m} ELSE late
    /\ Goto(i, "write")
    /\ UNCHANGED <<line, setup, gathered, io, group, arrived, unsettled, ledger,
                   interrupted, early>>

(* An empty source or a context that is done ends the loop without error,   *)
(* a timeout does not end it in follow mode.                                *)
AfterError(i) ==
    \/ line[i] = "follow" /\ Goto(i, "run") /\ UNCHANGED <<failure, cancelled>>
    \/ (line[i] = "receive" \/ cancelled) /\ Ends(i, "nil")
    \/ Ends(i, "error")

NoTake(i) ==
    /\ pc[i] = "poll"
    /\ AfterError(i)
    /\ UNCHANGED <<line, setup, hand, gathered, io, source, ledger, history>>

SettleLost(i) ==
    /\ pc[i] = "poll"
    /\ \E m \in queued :
        /\ queued' = queued \ {m}
        /\ unsettled' = unsettled \cup {m}
    /\ AfterError(i)
    /\ UNCHANGED <<line, setup, hand, gathered, io, arrived, ledger, history>>

(* displayMessageNDJSON: the record cannot be encoded. *)
EncodeFails(i) ==
    /\ Consumer(i) /\ NdjsonOut(i)
    /\ pc[i] = "write"
    /\ hand[i] \in Unencodable
    /\ lost' = lost \cup {hand[i]}
    /\ Empty(i)
    /\ Ends(i, "error")
    /\ UNCHANGED <<line, setup, io, source, kept, history>>

(* request has no --ndjson flag: Execute returns an error at once.          *)
FlagRefused(i) ==
    /\ line[i] = "request" /\ NdjsonOut(i)
    /\ pc[i] = "run"
    /\ Ends(i, "error")
    /\ UNCHANGED <<line, setup, hand, gathered, io, source, ledger, history>>

----------------------------------------------------------------------------
(* Writing: the last block writes to the output of the pipeline.            *)

Writes(i) ==
    /\ pc[i] = "write"
    /\ line[i] = "filter" \/ Consumer(i)
    /\ Consumer(i) /\ NdjsonOut(i) => hand[i] \notin Unencodable

WriteOut(i) ==
    /\ Writes(i)
    /\ i = Last
    /\ kept' = kept \cup {hand[i]}
    /\ Empty(i)
    /\ Goto(i, "run")
    /\ UNCHANGED <<line, setup, io, group, source, lost, history>>

(* Mutants: a pipe that never blocks; a record written twice. *)
WritePipeUnbounded(i) ==
    /\ Writes(i)
    /\ i < Last /\ i + 1 \notin collected
    /\ pipe' = [pipe EXCEPT ![i + 1] = Append(@, hand[i])]
    /\ Empty(i)
    /\ Goto(i, "run")
    /\ UNCHANGED <<line, setup, collected, group, source, ledger, history>>

WritePipeTwice(i) ==
    /\ Writes(i)
    /\ i < Last /\ i + 1 \notin collected
    /\ Len(pipe[i + 1]) < PipeCap
    /\ pipe' = [pipe EXCEPT ![i + 1] = Append(@, hand[i])]
    /\ \/ UNCHANGED <<pc, hand, gathered>>
       \/ Goto(i, "run") /\ Empty(i)
    /\ UNCHANGED <<line, setup, collected, group, source, ledger, history>>

(* A full pipe blocks the block, whatever becomes of its context. *)
WritePipe(i) ==
    /\ Writes(i)
    /\ i < Last /\ i + 1 \notin collected
    /\ Len(pipe[i + 1]) < PipeCap
    /\ pipe' = [pipe EXCEPT ![i + 1] = Append(@, hand[i])]
    /\ Empty(i)
    /\ Goto(i, "run")
    /\ UNCHANGED <<line, setup, collected, group, source, ledger, history>>

(* EPIPE: the display functions ignore it and the loop goes on; an external *)
(* command dies of SIGPIPE.                                                 *)
WriteBroken(i) ==
    /\ Writes(i)
    /\ i < Last /\ i + 1 \in collected
    /\ lost' = lost \cup {hand[i]}
    /\ Empty(i)
    /\ \/ Consumer(i) /\ Goto(i, "run") /\ UNCHANGED <<failure, cancelled>>
       \/ line[i] = "filter" /\ Ends(i, "error")
    /\ UNCHANGED <<line, setup, io, source, kept, history>>

----------------------------------------------------------------------------
(* Reading. *)

Read(i) ==
    /\ i > 1
    /\ pc[i] = "run"
    /\ pipe[i] # <<>>
    /\ pipe' = [pipe EXCEPT ![i] = Tail(@)]
    /\ \/ /\ line[i] = "filter" \/ Streams(i)
          /\ hand' = [hand EXCEPT ![i] = Head(pipe[i])]
          /\ Goto(i, "write")
          /\ UNCHANGED gathered
       \/ /\ Producer(i) /\ ~Streams(i)
          /\ gathered' = [gathered EXCEPT ![i] = @ \cup {Head(pipe[i])}]
          /\ UNCHANGED <<pc, hand>>
    /\ UNCHANGED <<line, setup, collected, group, source, ledger, history>>

(* End of file: the pipe is empty and the block that wrote to it is over.   *)
(* An external command may end in an error then too (grep, no match).       *)
Eof(i) ==
    /\ i > 1
    /\ pc[i] = "run"
    /\ pipe[i] = <<>> /\ pc[i - 1] = "done"
    /\ \/ Producer(i) /\ Streams(i) /\ Ends(i, "nil")
       \/ Producer(i) /\ ~Streams(i) /\ Goto(i, "write") /\ UNCHANGED <<failure, cancelled>>
       \/ line[i] = "filter" /\ \E how \in {"nil", "error"} : Ends(i, how)
    /\ UNCHANGED <<line, setup, hand, gathered, io, source, ledger, history>>

(* A filter that passes nothing on for a line. *)
Swallow(i) ==
    /\ line[i] = "filter"
    /\ pc[i] = "write"
    /\ kept' = kept \cup {hand[i]}
    /\ Empty(i)
    /\ Goto(i, "run")
    /\ UNCHANGED <<line, setup, io, group, source, lost, history>>

(* An external command that has seen enough (head), or fails. *)
Quit(i) ==
    /\ line[i] = "filter"
    /\ pc[i] \in {"run", "write"}
    /\ lost' = lost \cup Holds(i)
    /\ Empty(i)
    /\ early' = TRUE
    /\ \E how \in {"nil", "error"} : Ends(i, how)
    /\ UNCHANGED <<line, setup, io, source, kept, interrupted, late>>

----------------------------------------------------------------------------
(* A producer: runProduce. *)

Send(i) ==
    /\ Producer(i)
    /\ pc[i] = "write"
    /\ kept' = kept \cup Holds(i)
    /\ Empty(i)
    /\ \/ Streams(i) /\ Goto(i, "run") /\ UNCHANGED <<failure, cancelled>>
       \/ ~Streams(i) /\ Ends(i, "nil")
    /\ UNCHANGED <<line, setup, io, source, lost, history>>

(* Mutants: the error is logged and no more; or the message is returned to  *)
(* its source.                                                              *)
SendFailsLogged(i) ==
    /\ Producer(i)
    /\ pc[i] = "write"
    /\ lost' = lost \cup Holds(i)
    /\ Empty(i)
    /\ Ends(i, "nil")
    /\ UNCHANGED <<line, setup, io, source, kept, history>>

SendFailsRequeue(i) ==
    /\ Producer(i)
    /\ pc[i] = "write"
    /\ queued' = queued \cup Holds(i)
    /\ Empty(i)
    /\ Ends(i, "error")
    /\ UNCHANGED <<line, setup, io, arrived, unsettled, ledger, history>>

(* The send fails, for one because the context is done; the message may     *)
(* have arrived all the same.  There is no recovery to stdout here.         *)
SendFails(i) ==
    /\ Producer(i)
    /\ pc[i] = "write"
    /\ \/ kept' = kept \cup Holds(i) /\ UNCHANGED lost
       \/ lost' = lost \cup Holds(i) /\ UNCHANGED kept
    /\ Empty(i)
    /\ Ends(i, "error")
    /\ UNCHANGED <<line, setup, io, source, history>>

----------------------------------------------------------------------------
Arrive(m) ==
    /\ m \notin arrived
    /\ arrived' = arrived \cup {m}
    /\ queued' = queued \cup {m}
    /\ UNCHANGED <<line, setup, pc, hand, gathered, io, group, unsettled, ledger, history>>

(* Esc or k in the terminal UI. *)
Interrupt ==
    /\ ~interrupted
    /\ setup # "returned"
    /\ interrupted' = TRUE
    /\ cancelled' = TRUE
    /\ UNCHANGED <<line, setup, pc, hand, gathered, io, failure, source, ledger,
                   early, late>>

Over ==
    /\ setup \in {"returned", "failed"}
    /\ \A i \in Blocks : pc[i] \in {"new", "done"}

Ended == Over /\ UNCHANGED vars

Step(i) ==
    \/ Poll(i) \/ StopConsuming(i) \/ Take(i) \/ NoTake(i) \/ SettleLost(i)
    \/ EncodeFails(i) \/ FlagRefused(i)
    \/ WriteOut(i) \/ WritePipe(i) \/ WriteBroken(i)
    \/ Read(i) \/ Eof(i) \/ Swallow(i)
    \/ Send(i) \/ SendFails(i)

Next ==
    \/ \E i \in Blocks : Launch(i) \/ Step(i) \/ Quit(i) \/ Collect(i)
    \/ PipeFails \/ Wait \/ Interrupt \/ Ended
    \/ \E m \in Messages : Arrive(m)

Spec == Init /\ [][Next]_vars

(* Where nothing in the code bounds the wait.  An external command that has *)
(* input runs without a context (executeExternal); a receive or a send has  *)
(* the blocks' context, which bounds nothing until it is cancelled.         *)
MayHang(i) ==
    \/ /\ line[i] = "filter"
       /\ \/ pc[i] = "run" /\ (pipe[i] # <<>> \/ pc[i - 1] = "done")
          \/ pc[i] = "write"
    \/ /\ pc[i] = "poll" \/ (Producer(i) /\ pc[i] = "write")
       /\ ~cancelled \/ Deaf

(* Elsewhere blocks run, and the runtime collects garbage every two minutes.*)
BoundedStep(i) == ~MayHang(i) /\ Step(i)
Fairness ==
    /\ WF_vars(\E i \in Blocks : Launch(i))
    /\ WF_vars(Wait)
    /\ \A i \in 1..3 : WF_vars(i \in Blocks /\ BoundedStep(i)) /\ WF_vars(i \in Blocks /\ Collect(i))

FairSpec == Spec /\ Fairness

----------------------------------------------------------------------------
Taken == arrived \ (queued \cup unsettled)
Transit == UNION {Holds(i) \cup Range(pipe[i]) : i \in Blocks}

(* The type of every variable. *)
TypeOK ==
    /\ line \in Lines
    /\ setup \in {"wiring", "waiting", "returned", "failed"}
    /\ pc \in [Blocks -> {"new", "run", "poll", "write", "done"}]
    /\ hand \in [Blocks -> Messages \cup {NoMessage}]
    /\ gathered \in [Blocks -> SUBSET Messages]
    /\ pipe \in [Blocks -> Seq(Messages)]
    /\ \A i \in Blocks : Len(pipe[i]) <= PipeCap
    /\ collected \subseteq 2..Last
    /\ failure \in 0..Last
    /\ {cancelled, interrupted, early} \subseteq BOOLEAN
    /\ arrived \subseteq Messages
    /\ {queued, unsettled, kept, lost, late} \subseteq SUBSET arrived

(* Each message the source gave up is at one place: with a block, in one    *)
(* pipe, delivered, or lost; none is in two pipes or with two blocks.       *)
OnePlace ==
    /\ Taken = Transit \cup kept \cup lost
    /\ Transit \cap (kept \cup lost) = {}
    /\ kept \cap lost = {}
    /\ \A i, j \in Blocks :
        /\ Holds(i) \cap Range(pipe[j]) = {}
        /\ i # j => Holds(i) \cap Holds(j) = {} /\ Range(pipe[i]) \cap Range(pipe[j]) = {}

(* A pipeline that reports no error has passed on every message it took,    *)
(* interrupted or not, unless an external command left its input unread.    *)
SuccessMeansDelivered ==
    setup = "returned" /\ failure = 0 /\ ~early => Taken \subseteq kept

(* An interrupt or the failure of any block stops the consumption: no more  *)
(* than the one receive under way takes a message.                          *)
StopsConsuming == Cardinality(late) <= 1

CustodyOf(m) ==
    IF m \in queued THEN "source"
    ELSE IF m \in Transit THEN "transit"
    ELSE IF m \in kept THEN "kept"
    ELSE IF m \in lost \cup unsettled THEN "lost" ELSE "none"

Contract == INSTANCE Custody
            WITH custody <- [m \in Messages |-> CustodyOf(m)], Lossy <- TRUE

(* A message passes the pipeline once: what was delivered is never again in *)
(* a pipe, and nothing is handed back to the source.                        *)
KeepsCustody == Contract!Spec

HangsForEver == \E i \in 1..3 : <>[](i \in Blocks /\ MayHang(i))

(* A failure or an interrupt ends every block, blocked writers included,    *)
(* and so does the end of the source where the first block does not follow  *)
(* - unless an external command, or a call that nothing bounds, hangs.      *)
Quiesces == HangsForEver \/ ((failure # 0 \/ interrupted \/ line[1] # "follow") ~> Over)

(* Together: every message has one place, a pipeline that succeeds has      *)
(* passed on what it took, and one that fails takes no more                 *)
(* (runOnePipeline).                                                        *)
Delivers == TypeOK /\ OnePlace /\ SuccessMeansDelivered /\ StopsConsuming

=============================================================================
