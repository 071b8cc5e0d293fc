-------------------------------- MODULE Chat --------------------------------
(***************************************************************************)
(* The conversation of the AI terminal UI (cmd/aikeys.go, cmd/airun.go,    *)
(* cmd/aitui.go).  One goroutine, Update, owns the model: keys and         *)
(* messages are its actions.  AI requests, commands, sidebar actions and   *)
(* model listings run in goroutines of their own (tea.Cmd closures), here  *)
(* "jobs", and report in a message.  No message names the request it       *)
(* answers, and the handlers do not look at the state they find.           *)
(*                                                                         *)
(* A command is named after the job that brought it about: the request     *)
(* whose answer proposed it, or the execution that was typed in.           *)
(***************************************************************************)
EXTENDS Integers, Sequences, SequencesExt

CONSTANTS
    MaxJobs,        \* bound: jobs started in one behaviour
    MaxHistory,     \* maxHistory, 12 in the code
    MaxFixAttempts  \* maxFixAttempts

ASSUME ChatAssumption == {MaxJobs, MaxHistory, MaxFixAttempts} \subseteq Nat \ {0}

Jobs == 1..MaxJobs
None == 0
Cancellable == {"request", "exec"}

VARIABLES
    mode,         \* "ai" or "cmd"
    state,        \* tuiState
    promptActive, \* the sidebar prompt is open and takes every key
    proposedCmd,
    fixAttempts,
    history,      \* the roles of the turns of ai.history
    execCancel,   \* the job whose cancel function arrived last, or None
    job,          \* each job: what it is, how far it is, its command
    cancelled,    \* jobs under way whose context has been cancelled
    mislabelled,  \* history: an execution was shown under another command
    stray         \* history: the state has been taken from a job under way

vars == <<mode, state, promptActive, proposedCmd, fixAttempts, history,
          execCancel, job, cancelled, mislabelled, stray>>

NoJob == [kind |-> "none", at |-> "none", cmd |-> None]
Over == [kind |-> "none", at |-> "over", cmd |-> None]
Role == {"user", "assistant"}

Init ==
    /\ mode = "ai"
    /\ state = "idle"
    /\ promptActive = FALSE
    /\ proposedCmd = None
    /\ fixAttempts = 0
    /\ history = <<>>
    /\ execCancel = None
    /\ job = [j \in Jobs |-> NoJob]
    /\ cancelled = {}
    /\ mislabelled = FALSE
    /\ stray = FALSE

InFlight(kinds) == {j \in Jobs : job[j].kind \in kinds}
Fresh == {j \in Jobs : job[j] = NoJob /\ \A i \in 1..(j - 1) : job[i] # NoJob}
Kinds == {"request", "exec", "side", "models"}

Launch(j, kind, cmd) ==
    job' = [job EXCEPT ![j] = [kind |-> kind, at |-> "launched", cmd |-> cmd]]

Finish(j) ==
    /\ job' = [job EXCEPT ![j] = Over]
    /\ cancelled' = cancelled \ {j}

----------------------------------------------------------------------------
(* The history. *)

(* Mutant: the history is sent as it is. *)
FromFirstTurn(h) == h

(* leadingUserHistory *)
FromFirstUser(h) ==
    LET firsts == {i \in DOMAIN h : h[i] = "user"}
    IN  IF firsts = {} THEN <<>>
        ELSE SubSeq(h, CHOOSE i \in firsts : \A k \in firsts : i <= k, Len(h))

(* trimHistory *)
Trimmed(h) ==
    IF Len(h) <= MaxHistory THEN h
    ELSE FromFirstUser(SubSeq(h, Len(h) - MaxHistory + 1, Len(h)))

WithoutLastUser(h) ==
    IF h # <<>> /\ Last(h) = "user" THEN Front(h) ELSE h

----------------------------------------------------------------------------
(* What a key or a message sets going. *)

StartAIRequest(j, turns) ==
    /\ history' = Trimmed(turns)
    /\ Launch(j, "request", j)
    /\ state' = "thinking"

(* Mutant: the edited text is run, and forgotten. *)
StartExecutionOnly(j, cmd) ==
    /\ history' = Append(history, "assistant")
    /\ Launch(j, "exec", cmd)
    /\ state' = "executing"
    /\ UNCHANGED proposedCmd

StartExecution(j, cmd) ==
    /\ proposedCmd' = cmd
    /\ history' = Append(history, "assistant")
    /\ Launch(j, "exec", cmd)
    /\ state' = "executing"

(* A command with --for leaves the UI idle; see Procs for the process.      *)
StartBackgroundProcess(cmd) ==
    /\ proposedCmd' = cmd
    /\ history' = Trimmed(history \o <<"assistant", "user">>)
    /\ state' = "idle"

(* A state that was some job's is left before that job has reported.        *)
Leaving == stray' = (stray \/ InFlight({"request", "exec", "side"}) # {})

----------------------------------------------------------------------------
(* Keys. *)

Key(s) == ~promptActive /\ state = s

(* Enter in AI mode. *)
Ask ==
    /\ Key("idle")
    /\ mode = "ai"
    /\ \E j \in Fresh : StartAIRequest(j, Append(history, "user"))
    /\ fixAttempts' = 0
    /\ UNCHANGED <<mode, promptActive, proposedCmd, execCancel, cancelled, mislabelled, stray>>

(* Enter in command mode. *)
RunTyped ==
    /\ Key("idle")
    /\ mode = "cmd"
    /\ \/ \E j \in Fresh : StartExecution(j, j)
       \/ StartBackgroundProcess(None) /\ UNCHANGED job
    /\ UNCHANGED <<mode, promptActive, fixAttempts, execCancel, cancelled, mislabelled, stray>>

(* Esc. *)
ToggleInputMode ==
    /\ Key("idle")
    /\ mode' = IF mode = "ai" THEN "cmd" ELSE "ai"
    /\ UNCHANGED <<state, promptActive, proposedCmd, fixAttempts, history, execCancel,
                   job, cancelled, mislabelled, stray>>

(* /reset *)
Reset ==
    /\ Key("idle")
    /\ history' = <<>>
    /\ UNCHANGED <<mode, state, promptActive, proposedCmd, fixAttempts, execCancel, job,
                   cancelled, mislabelled, stray>>

(* /model without a name: the UI stays idle until the list is there.        *)
FetchModels ==
    /\ Key("idle")
    /\ \E j \in Fresh : Launch(j, "models", None)
    /\ UNCHANGED <<mode, state, promptActive, proposedCmd, fixAttempts, history,
                   execCancel, cancelled, mislabelled, stray>>

(* /effort without a level. *)
PickEffort ==
    /\ Key("idle")
    /\ state' = "picking"
    /\ UNCHANGED <<mode, promptActive, proposedCmd, fixAttempts, history, execCancel, job,
                   cancelled, mislabelled, stray>>

(* Enter, Esc *)
EndPicking ==
    /\ Key("picking")
    /\ state' = "idle"
    /\ UNCHANGED <<mode, promptActive, proposedCmd, fixAttempts, history, execCancel, job,
                   cancelled, mislabelled, stray>>

CancelLast == cancelled' = cancelled \cup ({execCancel} \cap InFlight(Cancellable))

(* Mutant: Esc cancels and waits for the answer to end the state. *)
EscThinkingWaits ==
    /\ Key("thinking")
    /\ CancelLast
    /\ history' = WithoutLastUser(history)
    /\ Leaving
    /\ UNCHANGED <<mode, state, promptActive, proposedCmd, fixAttempts, execCancel, job, mislabelled>>

(* handleKeyThinking *)
EscThinking ==
    /\ Key("thinking")
    /\ CancelLast
    /\ history' = WithoutLastUser(history)
    /\ state' = "idle"
    /\ Leaving
    /\ UNCHANGED <<mode, promptActive, proposedCmd, fixAttempts, execCancel, job, mislabelled>>

(* handleKeyExecuting *)
EscExecuting ==
    /\ Key("executing")
    /\ CancelLast
    /\ UNCHANGED <<mode, state, promptActive, proposedCmd, fixAttempts, history,
                   execCancel, job, mislabelled, stray>>

(* handleKeyProposing: Esc discards, c discusses, e edits, Enter runs.      *)
Decline ==
    /\ Key("proposing")
    /\ history' = history \o <<"assistant", "user">>
    /\ state' = "idle"
    /\ UNCHANGED <<mode, promptActive, proposedCmd, fixAttempts, execCancel, job, cancelled,
                   mislabelled, stray>>

Edit ==
    /\ Key("proposing")
    /\ state' = "editing"
    /\ UNCHANGED <<mode, promptActive, proposedCmd, fixAttempts, history, execCancel, job,
                   cancelled, mislabelled, stray>>

Accept ==
    /\ Key("proposing")
    /\ \/ \E j \in Fresh : StartExecution(j, proposedCmd)
       \/ StartBackgroundProcess(proposedCmd) /\ UNCHANGED job
    /\ UNCHANGED <<mode, promptActive, fixAttempts, execCancel, cancelled, mislabelled, stray>>

(* handleKeyEditing: Enter runs the text as edited; Esc leaves no trace in  *)
(* the history.                                                             *)
AcceptEdited ==
    /\ Key("editing")
    /\ \/ \E j \in Fresh, own \in BOOLEAN :
              StartExecution(j, IF own THEN j ELSE proposedCmd)
       \/ StartBackgroundProcess(None) /\ UNCHANGED job
    /\ UNCHANGED <<mode, promptActive, fixAttempts, execCancel, cancelled, mislabelled, stray>>

DropEdit ==
    /\ Key("editing")
    /\ state' = "idle"
    /\ UNCHANGED <<mode, promptActive, proposedCmd, fixAttempts, history, execCancel, job,
                   cancelled, mislabelled, stray>>

(* Sidebar hotkeys: receive and peek run at once, the others open a prompt. *)
SideAction ==
    /\ Key("idle")
    /\ \E j \in Fresh : Launch(j, "side", None)
    /\ state' = "executing"
    /\ UNCHANGED <<mode, promptActive, proposedCmd, fixAttempts, history, execCancel,
                   cancelled, mislabelled, stray>>

OpenPrompt ==
    /\ Key("idle")
    /\ promptActive' = TRUE
    /\ UNCHANGED <<mode, state, proposedCmd, fixAttempts, history, execCancel, job,
                   cancelled, mislabelled, stray>>

(* handleKeyPrompt: Enter sets the state whatever a message has made of it. *)
ConfirmPrompt ==
    /\ promptActive
    /\ promptActive' = FALSE
    /\ \E j \in Fresh : Launch(j, "side", None)
    /\ state' = "executing"
    /\ Leaving
    /\ UNCHANGED <<mode, proposedCmd, fixAttempts, history, execCancel, cancelled, mislabelled>>

ClosePrompt ==
    /\ promptActive
    /\ promptActive' = FALSE
    /\ UNCHANGED <<mode, state, proposedCmd, fixAttempts, history, execCancel, job,
                   cancelled, mislabelled, stray>>

----------------------------------------------------------------------------
(* Messages. *)

(* Mutant: a cancel function is kept until it has been used. *)
GiveCancelFirst(j) ==
    /\ job[j].kind \in Cancellable
    /\ job[j].at = "launched"
    /\ state # "quit"
    /\ job' = [job EXCEPT ![j].at = "working"]
    /\ execCancel' = IF execCancel = None THEN j ELSE execCancel
    /\ UNCHANGED <<mode, state, promptActive, proposedCmd, fixAttempts, history, cancelled,
                   mislabelled, stray>>

(* setCancelMsg; ctx and cancel are made by the job, not by the UI.         *)
GiveCancel(j) ==
    /\ job[j].kind \in Cancellable
    /\ job[j].at = "launched"
    /\ state # "quit"
    /\ job' = [job EXCEPT ![j].at = "working"]
    /\ execCancel' = j
    /\ UNCHANGED <<mode, state, promptActive, proposedCmd, fixAttempts, history, cancelled,
                   mislabelled, stray>>

Reports(j, kind) ==
    /\ job[j].kind = kind
    /\ job[j].at = IF kind \in Cancellable THEN "working" ELSE "launched"
    /\ state # "quit"
    /\ Finish(j)

(* aiDoneMsg with "context canceled". A request cancelled while it waits to *)
(* try again fails with the error of its last attempt instead (doWithRetry).*)
RequestCancelled(j) ==
    /\ Reports(j, "request")
    /\ j \in cancelled
    /\ UNCHANGED <<mode, state, promptActive, proposedCmd, fixAttempts, history, execCancel,
                   mislabelled, stray>>

(* Mutant: the failure is shown and nothing else. *)
RequestFailsShown(j) ==
    /\ Reports(j, "request")
    /\ history' = WithoutLastUser(history)
    /\ UNCHANGED <<mode, state, promptActive, proposedCmd, fixAttempts, execCancel,
                   mislabelled, stray>>

(* An error, an empty answer, or one that is neither a command nor one of   *)
(* the two canonical comments.                                              *)
RequestFails(j) ==
    /\ Reports(j, "request")
    /\ history' = WithoutLastUser(history)
    /\ state' = "idle"
    /\ UNCHANGED <<mode, promptActive, proposedCmd, fixAttempts, execCancel,
                   mislabelled, stray>>

(* "# ask:" and "# cannot:" *)
RequestAnswered(j) ==
    /\ Reports(j, "request")
    /\ history' = Append(history, "assistant")
    /\ fixAttempts' = 0
    /\ state' = "idle"
    /\ UNCHANGED <<mode, promptActive, proposedCmd, execCancel, mislabelled, stray>>

RequestProposes(j) ==
    /\ Reports(j, "request")
    /\ proposedCmd' = j
    /\ state' = "proposing"
    /\ UNCHANGED <<mode, promptActive, fixAttempts, history, execCancel, mislabelled, stray>>

Label(j) ==
    mislabelled' = (mislabelled \/ job[j].cmd # proposedCmd)

Feedback == Trimmed(Append(history, "user"))

(* execDoneMsg.  What has run is shown and recorded from proposedCmd.       *)
ExecReports(j) ==
    /\ Reports(j, "exec")
    /\ Label(j)
    /\ UNCHANGED <<mode, promptActive, proposedCmd, execCancel, stray>>

ExecSucceeds(j) ==
    /\ ExecReports(j)
    /\ history' = Feedback
    /\ fixAttempts' = 0
    /\ state' = "idle"

ExecFails(j) ==
    /\ ExecReports(j)
    /\ fixAttempts >= MaxFixAttempts \/ mode # "ai"
    /\ history' = Feedback
    /\ state' = "idle"
    /\ UNCHANGED fixAttempts

(* The bound on jobs ends a behaviour here at most once. *)
AutoFix(j) ==
    /\ job[j].kind = "exec" /\ job[j].at = "working"
    /\ state # "quit"
    /\ fixAttempts < MaxFixAttempts /\ mode = "ai"
    /\ \E r \in Fresh :
          job' = [job EXCEPT ![j] = Over,
                             ![r] = [kind |-> "request", at |-> "launched", cmd |-> r]]
    /\ cancelled' = cancelled \ {j}
    /\ history' = Feedback
    /\ Label(j)
    /\ fixAttempts' = fixAttempts + 1
    /\ state' = "thinking"
    /\ UNCHANGED <<mode, promptActive, proposedCmd, execCancel, stray>>

SideReports(j) ==
    /\ Reports(j, "side")
    /\ state' = "idle"
    /\ UNCHANGED <<mode, promptActive, proposedCmd, fixAttempts, history, execCancel,
                   mislabelled, stray>>

(* modelsMsg: the picker opens over whatever the UI is doing.               *)
ModelsReport(j) ==
    /\ Reports(j, "models")
    /\ \/ UNCHANGED <<state, stray>>
       \/ state' = "picking" /\ Leaving
    /\ UNCHANGED <<mode, promptActive, proposedCmd, fixAttempts, history, execCancel,
                   mislabelled>>

Quit ==
    /\ Key("idle")
    /\ state' = "quit"
    /\ UNCHANGED <<mode, promptActive, proposedCmd, fixAttempts, history, execCancel, job,
                   cancelled, mislabelled, stray>>

----------------------------------------------------------------------------

RequestReports(j) ==
    RequestCancelled(j) \/ RequestFails(j) \/ RequestAnswered(j) \/ RequestProposes(j)

ExecEnds(j) == ExecSucceeds(j) \/ ExecFails(j) \/ AutoFix(j)

Keys ==
    \/ Ask \/ RunTyped \/ ToggleInputMode \/ Reset \/ FetchModels \/ PickEffort
    \/ EndPicking \/ EscThinking \/ EscExecuting \/ Decline \/ Edit \/ Accept
    \/ AcceptEdited \/ DropEdit \/ SideAction \/ OpenPrompt \/ ConfirmPrompt
    \/ ClosePrompt

Messages ==
    \E j \in Jobs : GiveCancel(j) \/ RequestReports(j) \/ ExecEnds(j)
                    \/ SideReports(j) \/ ModelsReport(j)

Next == Keys \/ Messages \/ Quit \/ (state = "quit" /\ UNCHANGED vars)

Spec == Init /\ [][Next]_vars

(* A request ends: its context has a deadline, ai.request-timeout.  A       *)
(* command may run for ever; the user may do nothing.                       *)
FairSpec ==
    /\ Spec
    /\ \A j \in Jobs : WF_vars(GiveCancel(j)) /\ WF_vars(RequestReports(j))

----------------------------------------------------------------------------
(* The type of every variable. *)
TypeOK ==
    /\ mode \in {"ai", "cmd"}
    /\ state \in {"idle", "thinking", "proposing", "editing", "executing", "picking", "quit"}
    /\ {promptActive, mislabelled, stray} \subseteq BOOLEAN
    /\ proposedCmd \in Jobs \cup {None}
    /\ fixAttempts \in 0..MaxFixAttempts
    /\ history \in Seq(Role)
    /\ execCancel \in Jobs \cup {None}
    /\ job \in [Jobs -> [kind : Kinds \cup {"none"},
                         at : {"none", "launched", "working", "over"},
                         cmd : Jobs \cup {None}]]
    /\ cancelled \subseteq Jobs

(* While it is busy the UI takes no key but Esc, and only a message makes   *)
(* it idle again.  Whatever was abandoned, answered late or opened over     *)
(* something else, there is always a job under way whose report will do so, *)
(* and while it thinks one whose report cannot be the "context canceled"    *)
(* that handleAIDone drops.                                                 *)
BusyHasCause ==
    /\ state = "thinking" => InFlight({"request"}) \ cancelled # {}
    /\ state = "executing" => InFlight({"exec", "side"}) # {}

(* As long as no state was taken from a job under way, one thing happens at *)
(* a time, the state says which, and Esc would reach it as soon as its      *)
(* cancel function has arrived.                                             *)
Sequential ==
    /\ TypeOK
    /\ ~stray =>
        /\ state = "thinking" <=> InFlight({"request"}) # {}
        /\ state = "executing" <=> InFlight({"exec", "side"}) # {}
        /\ \A i, j \in InFlight({"request", "exec", "side"}) : i = j
        /\ \A j \in InFlight(Cancellable) : job[j].at = "working" => execCancel = j

(* "▶ ran:" names the command that ran, in the transcript and in the shell  *)
(* history, unless a request was left behind whose answer came meanwhile.   *)
HonestLabel == mislabelled => stray

(* What is sent to the provider begins with a user turn (Anthropic and      *)
(* Gemini reject another) and ends with the turn that asks; trimming keeps  *)
(* both.                                                                    *)
SentIsAQuestion ==
    [][\A j \in Jobs : job[j] = NoJob /\ job'[j].kind = "request" =>
          LET sent == FromFirstUser(history')
          IN  sent # <<>> /\ Head(sent) = "user" /\ Last(sent) = "user"]_vars

(* The UI does not think for ever, even when a cancelled request and a new  *)
(* one answer in any order.                                                 *)
ThinkingEnds == state = "thinking" ~> state # "thinking"

=============================================================================
