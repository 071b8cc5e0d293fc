------------------------------- MODULE Procs -------------------------------
(***************************************************************************)
(* The background processes of the shell / AI terminal UI (cmd/aiproc.go): *)
(* commands with --for or --forever, each run by a goroutine of its own,   *)
(* and the Processes window in which the user lists, kills, deletes and    *)
(* purges them.  The UI goroutine alone holds the list.  A process hands   *)
(* it the cancel function of its context in a message, and reports its end *)
(* in another.  runAITUI waits for what is left when the UI has ended.     *)
(***************************************************************************)
EXTENDS Integers, Sequences, FiniteSets

CONSTANTS
    MaxProcs,  \* bound: processes started in one behaviour
    Windows,   \* sidebar windows other than Processes
    Stubborn   \* processes that outlive the end of their context for ever

ASSUME ProcsAssumption ==
    /\ MaxProcs \in Nat
    /\ Windows \in Nat
    /\ Stubborn \subseteq 1..MaxProcs

Procs == 1..MaxProcs
Chat == 0             \* focus targets: the chat, then the windows in order
ProcWin == Windows + 1
User == 0             \* the prompt holds what the user typed

VARIABLES
    loop,       \* the UI: "up", "quitting", "waiting" for processes, "exited"
    started,    \* processes started so far; the number of the last
    procs,      \* the list shown
    sel,        \* selected row, from 0
    window,     \* whether the Processes window exists
    focus,      \* the focus target
    inView,     \* inProcView: the prompt shows the selected command
    prompt,     \* the prompt: User, or the process whose command it shows
    saved,      \* the prompt saved on entering the process view
    handle,     \* processes whose cancel function has arrived
    done,       \* processes marked as finished
    run,        \* where each process's goroutine is
    cancelled,  \* processes whose context has been cancelled
    waitFor,    \* runAITUI: position in the list it waits for
    timer       \* its deadline channel: "set", "fired", "received"

vars == <<loop, started, procs, sel, window, focus, inView, prompt, saved,
          handle, done, run, cancelled, waitFor, timer>>

view == <<procs, sel, window, focus, inView, prompt, saved>>
exit == <<loop, waitFor, timer>>

Init ==
    /\ loop = "up"
    /\ started = 0
    /\ procs = <<>>
    /\ sel = 0
    /\ window = FALSE
    /\ focus = Chat
    /\ inView = FALSE
    /\ prompt = User
    /\ saved = User
    /\ handle = {}
    /\ done = {}
    /\ run = [p \in Procs |-> "none"]
    /\ cancelled = {}
    /\ waitFor = 1
    /\ timer = "set"

Listed == {procs[i] : i \in DOMAIN procs}

(* Quitting is a message like any other: keys typed before it are handled.  *)
UiRuns == loop \in {"up", "quitting"}
InProcessPane == UiRuns /\ window /\ focus = ProcWin

(* Mutant: the empty list is not treated apart. *)
ClampedToLast(s, n) == IF s >= n THEN n - 1 ELSE s

(* rebuildProcessNodes *)
Clamped(s, n) == IF n = 0 THEN 0 ELSE IF s >= n THEN n - 1 ELSE s

(* The cancel functions of these processes are called, where there is one.  *)
Cancel(ps) == cancelled' = cancelled \cup (ps \cap handle)

----------------------------------------------------------------------------
(* Focus and the prompt. *)

EnterProcessView ==
    /\ inView' = TRUE
    /\ saved' = IF inView THEN saved ELSE prompt
    /\ prompt' = procs[sel + 1]

ExitProcessView ==
    /\ inView' = FALSE
    /\ prompt' = IF inView THEN saved ELSE prompt
    /\ UNCHANGED saved

Targets == IF window THEN ProcWin + 1 ELSE ProcWin

FocusOn(f) ==
    /\ focus' = f
    /\ IF window /\ f = ProcWin THEN EnterProcessView ELSE ExitProcessView

(* Tab and Shift+Tab, in the chat and in every window. *)
CycleFocus ==
    /\ UiRuns
    /\ Targets > 1
    /\ \E step \in {1, Targets - 1} : FocusOn((focus + step) % Targets)
    /\ UNCHANGED <<exit, started, procs, sel, window, handle, done, run, cancelled>>

(* Esc; in another window Enter too. *)
LeavePane ==
    /\ UiRuns
    /\ focus # Chat
    /\ FocusOn(Chat)
    /\ UNCHANGED <<exit, started, procs, sel, window, handle, done, run, cancelled>>

MoveSelection ==
    /\ InProcessPane
    /\ \/ sel > 0 /\ sel' = sel - 1
       \/ sel + 1 < Len(procs) /\ sel' = sel + 1
    /\ prompt' = procs[sel' + 1]
    /\ UNCHANGED <<exit, started, procs, window, focus, inView, saved, handle, done, run,
                   cancelled>>

----------------------------------------------------------------------------
(* The list. *)

(* Mutant: the row that D left is kept. *)
StartKeepsRow ==
    /\ UiRuns
    /\ focus = Chat
    /\ started < MaxProcs
    /\ started' = started + 1
    /\ procs' = Append(procs, started')
    /\ window' = TRUE
    /\ run' = [run EXCEPT ![started'] = "launched"]
    /\ UNCHANGED <<exit, sel, focus, inView, prompt, saved, handle, done, cancelled>>

(* startBackgroundProcess; the command was typed in the chat. *)
Start ==
    /\ UiRuns
    /\ focus = Chat
    /\ started < MaxProcs
    /\ started' = started + 1
    /\ procs' = Append(procs, started')
    /\ window' = TRUE
    /\ sel' = Clamped(sel, Len(procs'))
    /\ run' = [run EXCEPT ![started'] = "launched"]
    /\ UNCHANGED <<exit, focus, inView, prompt, saved, handle, done, cancelled>>

(* Mutant: the view is left without its prompt being restored. *)
RemoveWindowOnly ==
    /\ window' = FALSE
    /\ focus' = Chat
    /\ UNCHANGED <<inView, prompt, saved>>

RemoveWindow ==
    /\ window' = FALSE
    /\ FocusOn(Chat)

(* What is left of the list after d or p.                                   *)
Relist(list) ==
    /\ procs' = list
    /\ sel' = Clamped(sel, Len(list))
    /\ IF list = <<>>
       THEN RemoveWindow
       ELSE /\ prompt' = list[sel' + 1]
            /\ UNCHANGED <<window, focus, inView, saved>>

Without(list, i) == SubSeq(list, 1, i - 1) \o SubSeq(list, i + 1, Len(list))

(* d *)
Delete ==
    /\ InProcessPane
    /\ Cancel({procs[sel + 1]})
    /\ Relist(Without(procs, sel + 1))
    /\ UNCHANGED <<exit, started, handle, done, run>>

(* k: "kill but keep in list".  Without a cancel function nothing happens.  *)
Kill ==
    /\ InProcessPane
    /\ Cancel({procs[sel + 1]})
    /\ UNCHANGED <<exit, started, view, handle, done, run>>

(* p: the rows not marked as finished are kept, in their order.             *)
Unfinished == {i \in DOMAIN procs : procs[i] \notin done}

Purge ==
    /\ InProcessPane
    /\ \E keep \in [1..Cardinality(Unfinished) -> Unfinished] :
        /\ {keep[i] : i \in DOMAIN keep} = Unfinished
        /\ \A i, j \in DOMAIN keep : i < j => keep[i] < keep[j]
        /\ Relist([i \in DOMAIN keep |-> procs[keep[i]]])
    /\ UNCHANGED <<exit, started, handle, done, run, cancelled>>

(* D leaves the selected row as it is: the next Start clamps it. *)
DeleteAll ==
    /\ InProcessPane
    /\ Cancel(Listed)
    /\ procs' = <<>>
    /\ RemoveWindow
    /\ UNCHANGED <<exit, started, sel, handle, done, run>>

----------------------------------------------------------------------------
(* The goroutine of process p.  Program.Send is a rendezvous with the UI    *)
(* loop, so the message is handled before the process goes on; once the     *)
(* loop has ended Send returns and the message is lost.                     *)

Goes(p, from, to) ==
    /\ loop # "exited"
    /\ run[p] = from
    /\ run' = [run EXCEPT ![p] = to]

(* Mutant: a cancel function nobody asked for is dropped. *)
HandleCancelListed(p) ==
    /\ handle' = IF p \in Listed THEN handle \cup {p} ELSE handle
    /\ UNCHANGED cancelled

(* handleProcCancelMsg: a process deleted meanwhile is cancelled now.       *)
HandleCancel(p) ==
    IF p \in Listed
    THEN handle' = handle \cup {p} /\ UNCHANGED cancelled
    ELSE cancelled' = cancelled \cup {p} /\ UNCHANGED handle

GiveCancel(p) ==
    /\ Goes(p, "launched", "working")
    /\ IF UiRuns THEN HandleCancel(p) ELSE UNCHANGED <<handle, cancelled>>
    /\ UNCHANGED <<exit, view, started, done>>

(* executePipelineIO returns: the command is over, or its context is.  The  *)
(* goroutine closes its session and doneCh.                                 *)
Returns(p) ==
    /\ Goes(p, "working", "ended")
    /\ UNCHANGED <<exit, view, started, handle, done, cancelled>>

ReturnsCancelled(p) == p \in cancelled \ Stubborn /\ Returns(p)

ReturnsByItself(p) == p \notin cancelled \cup Stubborn /\ Returns(p)

(* procDoneMsg *)
Report(p) ==
    /\ Goes(p, "ended", "over")
    /\ done' = IF UiRuns /\ p \in Listed THEN done \cup {p} ELSE done
    /\ UNCHANGED <<exit, view, started, handle, cancelled>>

----------------------------------------------------------------------------
(* The end: Ctrl-C, exit, quit or /exit in the chat, then the loop's own    *)
(* end (at once on a signal), then runAITUI's wait.                         *)

Quit ==
    /\ loop = "up"
    /\ focus = Chat
    /\ loop' = "quitting"
    /\ Cancel(Listed)
    /\ UNCHANGED <<view, started, handle, done, run, waitFor, timer>>

(* Mutant: the processes were cancelled when the user quit. *)
LoopEndsNoKill ==
    /\ UiRuns
    /\ loop' = "waiting"
    /\ cancelled' = IF loop = "up" THEN cancelled \cup (Listed \cap handle) ELSE cancelled
    /\ UNCHANGED <<view, started, handle, done, run, waitFor, timer>>

LoopEnds ==
    /\ UiRuns
    /\ loop' = "waiting"
    /\ Cancel(Listed)
    /\ UNCHANGED <<view, started, handle, done, run, waitFor, timer>>

TwoSecondsPass ==
    /\ loop = "waiting"
    /\ timer = "set"
    /\ timer' = "fired"
    /\ UNCHANGED <<loop, waitFor, view, started, handle, done, run, cancelled>>

(* Mutant: no deadline. *)
WaitNextForever ==
    /\ loop = "waiting"
    /\ waitFor <= Len(procs)
    /\ waitFor' = waitFor + 1
    /\ run[procs[waitFor]] \in {"ended", "over"}
    /\ UNCHANGED <<loop, timer, view, started, handle, done, run, cancelled>>

(* One select for each process in the list.  The deadline channel holds one *)
(* value: the select that receives it leaves none for the next.             *)
WaitNext ==
    /\ loop = "waiting"
    /\ waitFor <= Len(procs)
    /\ waitFor' = waitFor + 1
    /\ \/ run[procs[waitFor]] \in {"ended", "over"} /\ UNCHANGED timer
       \/ timer = "fired" /\ timer' = "received"
    /\ UNCHANGED <<loop, view, started, handle, done, run, cancelled>>

Exit ==
    /\ loop = "waiting"
    /\ waitFor > Len(procs)
    /\ loop' = "exited"
    /\ UNCHANGED <<view, started, handle, done, run, cancelled, waitFor, timer>>

Over == loop = "exited" /\ UNCHANGED vars

----------------------------------------------------------------------------

ProcStep(p) == GiveCancel(p) \/ ReturnsCancelled(p) \/ Report(p)

Shutdown == TwoSecondsPass \/ WaitNext \/ Exit

Next ==
    \/ CycleFocus \/ LeavePane \/ MoveSelection
    \/ Start \/ Delete \/ Kill \/ Purge \/ DeleteAll
    \/ \E p \in Procs : ProcStep(p) \/ ReturnsByItself(p)
    \/ Quit \/ LoopEnds \/ Shutdown
    \/ Over

Spec == Init /\ [][Next]_vars

(* A goroutine that can go on does, one that heeds its context ends with    *)
(* it, and runAITUI's wait goes on.  What the user does is free.            *)
Fairness ==
    /\ \A p \in Procs : WF_vars(ProcStep(p))
    /\ WF_vars(Shutdown)

LiveSpec == Spec /\ Fairness

----------------------------------------------------------------------------
(* The type of every variable. *)
TypeOK ==
    /\ loop \in {"up", "quitting", "waiting", "exited"}
    /\ started \in 0..MaxProcs
    /\ procs \in Seq(Procs)
    /\ sel \in Nat
    /\ window \in BOOLEAN
    /\ focus \in 0..ProcWin
    /\ inView \in BOOLEAN
    /\ prompt \in Procs \cup {User}
    /\ saved \in Procs \cup {User}
    /\ handle \subseteq Procs
    /\ done \subseteq Procs
    /\ run \in [Procs -> {"none", "launched", "working", "ended", "over"}]
    /\ cancelled \subseteq Procs
    /\ waitFor \in Nat \ {0}
    /\ timer \in {"set", "fired", "received"}

(* "d", "k" and every way into the pane index the list with the selected    *)
(* row and test nothing but that the list is not empty: while there is a    *)
(* window to go to the row must exist, whatever was purged, deleted or      *)
(* started since it was selected; that window is there exactly while there  *)
(* are processes, and the focus is on a window that exists.                 *)
RowExists ==
    /\ window <=> procs # <<>>
    /\ focus < Targets
    /\ UiRuns /\ window => sel < Len(procs)

(* In the pane the prompt shows the selected process's command; elsewhere   *)
(* it holds what the user had typed, however the pane was left.             *)
PromptFollows ==
    IF focus = ProcWin THEN prompt = procs[sel + 1] ELSE prompt = User

(* No process works unseen: one that is not in the list any more has had    *)
(* its context cancelled, even if it was deleted or purged before its       *)
(* cancel function had arrived.                                             *)
NoOrphan ==
    UiRuns => \A p \in Procs :
        run[p] = "working" /\ p \notin Listed => p \in cancelled

(* "Cancel any still-running background processes" (runAITUI): when it      *)
(* waits, every process in the list that could be cancelled has been, the   *)
(* ones included that were started after the user had quit.                 *)
ShutdownCancels ==
    loop = "waiting" => Listed \cap handle \subseteq cancelled

(* A process that has been deleted ends, if it heeds its context.           *)
DeletedEnds ==
    \A p \in Procs \ Stubborn :
        (run[p] # "none" /\ p \notin Listed) ~> (run[p] \in {"ended", "over"} \/ ~UiRuns)

(* Together: the pane, the prompt and the processes agree, and no process   *)
(* escapes the user or the end of the program.                              *)
PaneAgrees == TypeOK /\ RowExists /\ PromptFollows /\ NoOrphan /\ ShutdownCancels

(* "wait up to 2s for their goroutines to exit" (runAITUI): the program     *)
(* comes to its end whatever its background processes do.                   *)
ShutdownEnds == loop = "waiting" ~> loop = "exited"

(* The deadline does bound one wait: that for the last process in the list, *)
(* if no wait before it has taken the deadline's value.                     *)
LastWaitEnds ==
    (loop = "waiting" /\ waitFor = Len(procs) /\ timer # "received") ~> loop = "exited"

(* Together: what was cancelled ends, and so does the last wait.            *)
ProcsEnd == DeletedEnds /\ LastWaitEnds

=============================================================================
