---------------------------- MODULE ProcsProofs ----------------------------
(***************************************************************************)
(* Safety of the background processes for any number of processes and of   *)
(* windows: the pane shows a row that exists, the prompt follows it, and   *)
(* no process works that neither the user nor the end of the program can   *)
(* stop.                                                                   *)
(*                                                                         *)
(* The prompt needs that the process view is on exactly while the focus is *)
(* on the Processes window, and that it has saved what the user typed      *)
(* (ViewInv).  That no process escapes needs who can be cancelled: while   *)
(* the UI runs, each working process in the list has handed over its       *)
(* cancel function, and none that purging removes is still at work         *)
(* (HandleInv).                                                            *)
(***************************************************************************)
EXTENDS Procs, SequenceTheorems, FiniteSetTheorems, TLAPS

ViewInv ==
    /\ inView <=> focus = ProcWin
    /\ inView => saved = User

HandleInv ==
    /\ UiRuns => \A p \in Procs : run[p] = "working" /\ p \in Listed => p \in handle
    /\ \A p \in done : run[p] = "over"
    /\ \A p \in Procs : p > started => run[p] = "none"

IInv ==
    /\ TypeOK /\ RowExists /\ ViewInv /\ PromptFollows
    /\ HandleInv /\ NoOrphan /\ ShutdownCancels

USE DEF Chat, ProcWin, User, UiRuns, Targets, view, exit

----------------------------------------------------------------------------
(* The next and the previous focus target exist. *)
LEMMA CycleInRange ==
    ASSUME NEW n \in Nat \ {0}, NEW i \in 0..(n - 1), NEW step \in {1, n - 1}
    PROVE  (i + step) % n \in 0..(n - 1)
OBVIOUS

(* A row below the end of the list, whatever was selected. *)
LEMMA ClampedRow ==
    ASSUME NEW s \in Nat, NEW n \in Nat
    PROVE  Clamped(s, n) \in Nat /\ (n # 0 => Clamped(s, n) < n)
BY DEF Clamped

(* What d leaves. *)
LEMMA WithoutRow ==
    ASSUME NEW S, NEW list \in Seq(S), NEW i \in 1..Len(list)
    PROVE  /\ Without(list, i) \in Seq(S)
           /\ \A j \in DOMAIN list \ {i} :
                \E k \in DOMAIN Without(list, i) : Without(list, i)[k] = list[j]
           /\ \A k \in DOMAIN Without(list, i) :
                \E j \in DOMAIN list : Without(list, i)[k] = list[j]
<1> DEFINE a == SubSeq(list, 1, i - 1)
           b == SubSeq(list, i + 1, Len(list))
<1>1. a \in Seq(S) /\ Len(a) = i - 1 /\ \A j \in 1..(i - 1) : a[j] = list[j]
  <2>1. a \in Seq(S)
    OBVIOUS
  <2>2. Len(a) = i - 1
    OBVIOUS
  <2>3. \A j \in 1..(i - 1) : a[j] = list[j]
    OBVIOUS
  <2>4. QED
    BY <2>1, <2>2, <2>3
<1>2. /\ b \in Seq(S) /\ Len(b) = Len(list) - i
      /\ \A j \in 1..(Len(list) - i) : b[j] = list[j + i]
  <2>1. b \in Seq(S)
    OBVIOUS
  <2>2. Len(b) = Len(list) - i
    OBVIOUS
  <2>3. \A j \in 1..(Len(list) - i) : b[j] = list[j + i]
    OBVIOUS
  <2>4. QED
    BY <2>1, <2>2, <2>3
<1> HIDE DEF a, b
<1>3. /\ a \o b \in Seq(S) /\ Len(a \o b) = Len(list) - 1
      /\ \A j \in 1..(i - 1) : (a \o b)[j] = list[j]
      /\ \A j \in i..(Len(list) - 1) : (a \o b)[j] = list[j + 1]
  <2>1. a \o b \in Seq(S) /\ Len(a \o b) = Len(list) - 1
    <3>1. a \o b \in Seq(S)
      BY <1>1, <1>2
    <3>2. Len(a \o b) = Len(a) + Len(b)
      BY <1>1, <1>2, ConcatProperties
    <3>3. Len(list) \in Nat
      OBVIOUS
    <3>4. QED
      BY <1>1, <1>2, <3>1, <3>2, <3>3
  <2>2. \A j \in 1..(i - 1) : (a \o b)[j] = list[j]
    BY <1>1, <1>2
  <2>3. ASSUME NEW j \in i..(Len(list) - 1) PROVE (a \o b)[j] = list[j + 1]
    <3>1. j - (i - 1) \in 1..(Len(list) - i) /\ j \in (Len(a) + 1)..(Len(a) + Len(b))
      BY <1>1, <1>2
    <3>2. (a \o b)[j] = b[j - (i - 1)]
      BY <1>1, <1>2, <3>1
    <3>3. b[j - (i - 1)] = list[(j - (i - 1)) + i]
      BY <1>2, <3>1
    <3>4. QED
      BY <3>2, <3>3
  <2>4. QED
    BY <2>1, <2>2, <2>3
<1>4. \A j \in DOMAIN list \ {i} : \E k \in DOMAIN (a \o b) : (a \o b)[k] = list[j]
  <2> SUFFICES ASSUME NEW j \in DOMAIN list \ {i}
               PROVE  \E k \in DOMAIN (a \o b) : (a \o b)[k] = list[j]
    OBVIOUS
  <2>1. CASE j < i
    <3>1. j \in DOMAIN (a \o b) /\ (a \o b)[j] = list[j]
      BY <1>3, <2>1
    <3>2. QED
      BY <3>1
  <2>2. CASE j > i
    <3>0. j \in 1..Len(list) /\ Len(list) \in Nat /\ DOMAIN (a \o b) = 1..(Len(list) - 1)
      BY <1>3
    <3>1. j - 1 \in DOMAIN (a \o b) /\ (a \o b)[j - 1] = list[j]
      BY <1>3, <2>2, <3>0
    <3>2. QED
      BY <3>1
  <2>3. QED
    BY <2>1, <2>2
<1>5. ASSUME NEW k \in DOMAIN (a \o b) PROVE \E j \in DOMAIN list : (a \o b)[k] = list[j]
  <2>1. k \in 1..(Len(list) - 1) /\ Len(list) \in Nat /\ DOMAIN list = 1..Len(list)
    BY <1>3
  <2>2. CASE k < i
    <3>1. k \in 1..(i - 1) /\ k \in DOMAIN list
      BY <2>1, <2>2
    <3>2. QED
      BY <1>3, <3>1
  <2>3. CASE k >= i
    <3>1. k \in i..(Len(list) - 1) /\ k + 1 \in DOMAIN list
      BY <2>1, <2>3
    <3>2. QED
      BY <1>3, <3>1
  <2>4. QED
    BY <2>1, <2>2, <2>3
<1>6. QED
  BY <1>3, <1>4, <1>5 DEF Without, a, b

(* Moving the focus to a target that exists keeps view and prompt in step. *)
LEMMA FocusEffect ==
    ASSUME TypeOK, RowExists, ViewInv, PromptFollows, UiRuns,
           NEW f \in 0..(Targets - 1), FocusOn(f)
    PROVE  /\ focus' = f /\ inView' \in BOOLEAN /\ saved' \in Procs \cup {User}
           /\ inView' <=> focus' = ProcWin
           /\ inView' => saved' = User
           /\ prompt' = IF f = ProcWin THEN procs[sel + 1] ELSE User
           /\ prompt' \in Procs \cup {User}
<1> USE ProcsAssumption DEF TypeOK, RowExists, ViewInv, PromptFollows
<1>1. CASE f = ProcWin
  <2>1. window /\ sel + 1 \in 1..Len(procs)
    BY <1>1
  <2>2. procs[sel + 1] \in Procs
    BY <2>1
  <2>3. QED
    BY <1>1, <2>1, <2>2 DEF FocusOn, EnterProcessView
<1>2. CASE f # ProcWin
  BY <1>2 DEF FocusOn, ExitProcessView
<1>3. QED
  BY <1>1, <1>2

(* What is left after d or p has a selected row, or no window. *)
LEMMA RelistEffect ==
    ASSUME IInv, InProcessPane, NEW list \in Seq(Procs), Relist(list)
    PROVE  /\ procs' = list /\ sel' \in Nat /\ window' \in BOOLEAN /\ focus' \in 0..ProcWin
           /\ inView' \in BOOLEAN
           /\ prompt' \in Procs \cup {User} /\ saved' \in Procs \cup {User}
           /\ window' <=> list # << >>
           /\ focus' < Targets'
           /\ window' => sel' < Len(list)
           /\ ViewInv' /\ PromptFollows'
<1>0. /\ window /\ focus = ProcWin /\ inView /\ saved = User /\ sel \in Nat /\ Windows \in Nat
      /\ TypeOK /\ RowExists /\ ViewInv /\ PromptFollows /\ UiRuns
  BY ProcsAssumption DEF IInv, TypeOK, ViewInv, InProcessPane
<1>1. procs' = list /\ sel' = Clamped(sel, Len(list))
  BY DEF Relist
<1>2. /\ sel' \in Nat /\ Len(list) \in Nat
      /\ Len(list) # 0 => sel' < Len(list)
  <2>1. Len(list) \in Nat
    OBVIOUS
  <2>2. QED
    BY <1>0, <1>1, <2>1, ClampedRow
<1>3. CASE list = << >>
  <2>1. window' = FALSE /\ FocusOn(Chat)
    BY <1>3 DEF Relist, RemoveWindow
  <2>2. Chat \in 0..(Targets - 1) /\ Chat # ProcWin
    BY <1>0
  <2>3. /\ focus' = Chat /\ inView' \in BOOLEAN /\ saved' \in Procs \cup {User}
        /\ inView' <=> focus' = ProcWin
        /\ inView' => saved' = User
        /\ prompt' = User
    BY <1>0, <2>1, <2>2, FocusEffect
  <2>4. ViewInv' /\ PromptFollows'
    BY <2>2, <2>3 DEF ViewInv, PromptFollows
  <2>5. window' \in BOOLEAN /\ focus' \in 0..ProcWin /\ focus' < Targets'
    <3>1. Windows \in Nat /\ window' = FALSE /\ focus' = 0
      BY <1>0, <2>1, <2>3
    <3>2. ~window' /\ window' \in BOOLEAN
      BY <3>1
    <3>3. QED
      BY <3>1, <3>2
  <2>6. prompt' \in Procs \cup {User}
    BY <2>3
  <2>7. QED
    BY <1>1, <1>2, <1>3, <2>1, <2>3, <2>4, <2>5, <2>6
<1>4. CASE list # << >>
  <2>1. prompt' = list[sel' + 1] /\ UNCHANGED <<window, focus, inView, saved>>
    BY <1>4 DEF Relist
  <2>2. Len(list) # 0
    BY <1>4
  <2>3. sel' < Len(list)
    BY <1>2, <2>2
  <2>4. list[sel' + 1] \in Procs
    BY <1>2, <2>3, ElementOfSeq
  <2>5. ViewInv' /\ PromptFollows'
    BY <1>0, <1>1, <2>1 DEF ViewInv, PromptFollows
  <2>6. QED
    BY <1>0, <1>1, <1>2, <1>4, <2>1, <2>3, <2>4, <2>5
<1>5. QED
  BY <1>3, <1>4

----------------------------------------------------------------------------
(* The initial states satisfy the invariant. *)
LEMMA InitIInv == Init => IInv
<1> SUFFICES ASSUME Init PROVE IInv
  OBVIOUS
<1>1. TypeOK
  <2>1. procs \in Seq(Procs)
    BY DEF Init
  <2>2. started \in 0..MaxProcs /\ focus \in 0..ProcWin /\ sel \in Nat /\ waitFor \in Nat \ {0}
    BY ProcsAssumption DEF Init
  <2>3. QED
    BY <2>1, <2>2 DEF Init, TypeOK
<1>2. Listed = {}
  BY DEF Init, Listed
<1>3. RowExists /\ ViewInv /\ PromptFollows
  BY ProcsAssumption DEF Init, RowExists, ViewInv, PromptFollows
<1>4. HandleInv /\ NoOrphan /\ ShutdownCancels
  BY <1>2 DEF Init, HandleInv, NoOrphan, ShutdownCancels
<1>5. QED
  BY <1>1, <1>3, <1>4 DEF IInv

(* The parts of the invariant that say what the user sees. *)
PaneOK == TypeOK /\ RowExists /\ ViewInv /\ PromptFollows

(* The row that the keys of the pane act on. *)
LEMMA SelectedRow ==
    ASSUME PaneOK, InProcessPane
    PROVE  sel + 1 \in 1..Len(procs) /\ procs[sel + 1] \in Procs /\ Len(procs) \in Nat
<1>1. sel \in Nat /\ Len(procs) \in Nat /\ sel < Len(procs)
  BY DEF PaneOK, TypeOK, RowExists, InProcessPane
<1>2. QED
  BY <1>1 DEF PaneOK, TypeOK

(* Moving the focus leaves the list alone. *)
LEMMA FocusPane ==
    ASSUME PaneOK, UiRuns, NEW f \in 0..(Targets - 1), FocusOn(f),
           UNCHANGED <<exit, started, procs, sel, window, handle, done, run, cancelled>>
    PROVE  PaneOK'
<1>1. /\ focus' = f /\ inView' \in BOOLEAN /\ saved' \in Procs \cup {User}
      /\ inView' <=> focus' = ProcWin
      /\ inView' => saved' = User
      /\ prompt' = IF f = ProcWin THEN procs[sel + 1] ELSE User
      /\ prompt' \in Procs \cup {User}
  BY FocusEffect DEF PaneOK
<1>2. f \in 0..ProcWin
  BY ProcsAssumption DEF PaneOK, TypeOK
<1>3. TypeOK'
  BY <1>1, <1>2 DEF PaneOK, TypeOK
<1>4. window' = window /\ f < Targets /\ loop' = loop /\ procs' = procs /\ sel' = sel
  BY ProcsAssumption DEF PaneOK, TypeOK
<1>5. RowExists'
  BY <1>1, <1>4 DEF PaneOK, RowExists
<1>6. ViewInv' /\ PromptFollows'
  BY <1>1, <1>4 DEF ViewInv, PromptFollows
<1>7. QED
  BY <1>3, <1>5, <1>6 DEF PaneOK

(* What a step does that concerns neither list nor focus. *)
LEMMA SamePane ==
    ASSUME PaneOK, UNCHANGED <<view, started>>, UiRuns' => UiRuns,
           loop' \in {"up", "quitting", "waiting", "exited"},
           handle' \subseteq Procs, done' \subseteq Procs, cancelled' \subseteq Procs,
           run' \in [Procs -> {"none", "launched", "working", "ended", "over"}],
           waitFor' \in Nat \ {0}, timer' \in {"set", "fired", "received"}
    PROVE  PaneOK'
BY DEF PaneOK, TypeOK, RowExists, ViewInv, PromptFollows

(* Cancelling keeps to the processes there are. *)
LEMMA CancelType ==
    ASSUME TypeOK, NEW ps, Cancel(ps)
    PROVE  cancelled' \subseteq Procs
BY DEF TypeOK, Cancel

(* A new row at the end of the list. *)
LEMMA StartEffect ==
    ASSUME PaneOK, Start
    PROVE  /\ started + 1 \in Procs /\ procs' = Append(procs, started + 1)
           /\ procs' \in Seq(Procs) /\ procs' # << >>
           /\ sel' \in Nat /\ sel' < Len(procs')
           /\ Listed' = Listed \cup {started + 1}
<1>1. /\ procs \in Seq(Procs) /\ sel \in Nat /\ started \in Nat
      /\ started' = started + 1 /\ procs' = Append(procs, started')
      /\ sel' = Clamped(sel, Len(procs'))
  BY ProcsAssumption DEF PaneOK, TypeOK, Start
<1>2. started + 1 \in Procs
  BY ProcsAssumption DEF PaneOK, TypeOK, Start, Procs
<1>3. procs' \in Seq(Procs) /\ Len(procs') \in Nat \ {0}
  BY <1>1, <1>2
<1>4. sel' \in Nat /\ sel' < Len(procs')
  BY <1>1, <1>3, ClampedRow
<1>5. Listed' = Listed \cup {started + 1}
  BY <1>1, <1>2 DEF Listed
<1>6. QED
  BY <1>1, <1>2, <1>3, <1>4, <1>5

(* The rows that p keeps. *)
LEMMA PurgeEffect ==
    ASSUME PaneOK, Purge
    PROVE  \E list \in Seq(Procs) :
            /\ Relist(list)
            /\ {list[i] : i \in DOMAIN list} = Listed \ done
<1>1. Cardinality(Unfinished) \in Nat
  <2>1. IsFiniteSet(1..Len(procs)) /\ Unfinished \subseteq 1..Len(procs)
    BY FS_Interval DEF PaneOK, TypeOK, Unfinished
  <2>2. QED
    BY <2>1, FS_Subset, FS_CardinalityType
<1>2. PICK keep \in [1..Cardinality(Unfinished) -> Unfinished] :
        /\ {keep[i] : i \in DOMAIN keep} = Unfinished
        /\ Relist([i \in DOMAIN keep |-> procs[keep[i]]])
  BY DEF Purge
<1> DEFINE list == [i \in DOMAIN keep |-> procs[keep[i]]]
<1>3. \A i \in DOMAIN keep : procs[keep[i]] \in Procs
  BY DEF Unfinished, PaneOK, TypeOK
<1>4. list \in Seq(Procs)
  BY <1>1, <1>3
<1>5. {list[i] : i \in DOMAIN list} = {procs[i] : i \in Unfinished}
  BY <1>2
<1>6. {procs[i] : i \in Unfinished} = Listed \ done
  BY DEF Unfinished, Listed
<1>7. QED
  BY <1>2, <1>4, <1>5, <1>6

(* What d keeps. *)
LEMMA DeleteEffect ==
    ASSUME PaneOK, Delete
    PROVE  \E list \in Seq(Procs) :
            /\ Relist(list)
            /\ Listed \ {procs[sel + 1]} \subseteq {list[i] : i \in DOMAIN list}
            /\ {list[i] : i \in DOMAIN list} \subseteq Listed
            /\ Cancel({procs[sel + 1]})
<1> DEFINE list == Without(procs, sel + 1)
<1>1. sel + 1 \in 1..Len(procs) /\ procs \in Seq(Procs)
  BY SelectedRow DEF Delete, PaneOK, TypeOK
<1>2. /\ list \in Seq(Procs)
      /\ \A j \in DOMAIN procs \ {sel + 1} : \E k \in DOMAIN list : list[k] = procs[j]
      /\ \A k \in DOMAIN list : \E j \in DOMAIN procs : list[k] = procs[j]
  BY <1>1, WithoutRow
<1> HIDE DEF list
<1>3. /\ Listed \ {procs[sel + 1]} \subseteq {list[i] : i \in DOMAIN list}
      /\ {list[i] : i \in DOMAIN list} \subseteq Listed
  BY <1>2 DEF Listed
<1>4. Relist(list) /\ Cancel({procs[sel + 1]})
  BY DEF Delete, list
<1>5. QED
  BY <1>2, <1>3, <1>4

(* The selected row exists and the prompt follows it, whatever the user and *)
(* the processes do.                                                        *)
LEMMA PaneStep == IInv /\ [Next]_vars => PaneOK'
<1> SUFFICES ASSUME IInv, [Next]_vars PROVE PaneOK'
  OBVIOUS
<1>0. PaneOK /\ ProcsAssumption /\ Windows \in Nat
  BY ProcsAssumption DEF IInv, PaneOK
<1>1. CASE CycleFocus
  <2>1. PICK step \in {1, Targets - 1} : FocusOn((focus + step) % Targets)
    BY <1>1 DEF CycleFocus
  <2>2. Targets \in Nat \ {0} /\ focus \in 0..(Targets - 1)
    BY <1>0 DEF PaneOK, TypeOK, RowExists
  <2>3. (focus + step) % Targets \in 0..(Targets - 1)
    BY <2>1, <2>2, CycleInRange
  <2>4. QED
    BY <1>0, <1>1, <2>1, <2>3, FocusPane DEF CycleFocus
<1>2. CASE LeavePane
  <2>1. Chat \in 0..(Targets - 1)
    BY <1>0
  <2>2. QED
    BY <1>0, <1>2, <2>1, FocusPane DEF LeavePane
<1>3. CASE MoveSelection
  <2>1. PICK row \in {sel - 1, sel + 1} : row \in 0..(Len(procs) - 1) /\ sel' = row
    BY <1>0, <1>3, SelectedRow DEF MoveSelection, PaneOK, TypeOK
  <2>2. procs[row + 1] \in Procs /\ prompt' = procs[row + 1]
    BY <1>0, <1>3, <2>1, SelectedRow DEF MoveSelection, PaneOK, TypeOK
  <2>3. QED
    BY <1>0, <1>3, <2>1, <2>2
       DEF MoveSelection, InProcessPane, PaneOK, TypeOK, RowExists, ViewInv, PromptFollows
<1>4. CASE Start
  <2>1. /\ procs' \in Seq(Procs) /\ procs' # << >> /\ sel' \in Nat /\ sel' < Len(procs')
        /\ started' \in 0..MaxProcs
    BY <1>0, <1>4, StartEffect DEF Start, PaneOK, TypeOK
  <2>2. run' \in [Procs -> {"none", "launched", "working", "ended", "over"}]
    BY <1>0, <1>4 DEF Start, PaneOK, TypeOK
  <2>3. /\ focus = 0 /\ window' /\ window' \in BOOLEAN
        /\ UNCHANGED <<exit, focus, inView, prompt, saved, handle, done, cancelled>>
    BY <1>4 DEF Start
  <2>4. focus' < Targets' /\ focus' # ProcWin
    BY <1>0, <2>3
  <2>5. QED
    BY <1>0, <2>1, <2>2, <2>3, <2>4 DEF PaneOK, TypeOK, RowExists, ViewInv, PromptFollows
<1>5. CASE Delete \/ Purge
  <2>1. PICK list \in Seq(Procs) : Relist(list)
    BY <1>0, <1>5, DeleteEffect, PurgeEffect
  <2>2. /\ cancelled' \subseteq Procs /\ InProcessPane
        /\ UNCHANGED <<exit, started, handle, done, run>>
    BY <1>0, <1>5, CancelType DEF Delete, Purge, PaneOK, TypeOK
  <2>3. QED
    BY <1>0, <2>1, <2>2, RelistEffect DEF PaneOK, TypeOK, RowExists
<1>6. CASE DeleteAll
  <2>1. FocusOn(Chat) /\ window' = FALSE /\ ~window' /\ procs' = << >> /\ sel' = sel
    BY <1>6 DEF DeleteAll, RemoveWindow
  <2>2. Chat \in 0..(Targets - 1) /\ UiRuns /\ Chat # ProcWin
    BY <1>0, <1>6 DEF DeleteAll, InProcessPane
  <2>3. /\ focus' = Chat /\ inView' \in BOOLEAN /\ saved' \in Procs \cup {User}
        /\ inView' <=> focus' = ProcWin
        /\ inView' => saved' = User
        /\ prompt' = User
    BY <1>0, <2>1, <2>2, FocusEffect DEF PaneOK
  <2>4. cancelled' \subseteq Procs
    BY <1>0, <1>6, CancelType DEF DeleteAll, PaneOK
  <2>5. focus' < Targets' /\ focus' \in 0..ProcWin
    BY <1>0, <2>1, <2>3
  <2>6. procs' \in Seq(Procs)
    BY <2>1
  <2>7. TypeOK'
    BY <1>0, <1>6, <2>1, <2>3, <2>4, <2>5, <2>6 DEF DeleteAll, PaneOK, TypeOK
  <2>8. QED
    BY <2>1, <2>2, <2>3, <2>5, <2>7 DEF PaneOK, RowExists, ViewInv, PromptFollows
<1>7. CASE Kill \/ Quit \/ LoopEnds
  <2>1. cancelled' \subseteq Procs
    BY <1>0, <1>7, CancelType DEF Kill, Quit, LoopEnds, PaneOK
  <2>2. QED
    BY <1>0, <1>7, <2>1, SamePane DEF Kill, Quit, LoopEnds, PaneOK, TypeOK
<1>8. ASSUME NEW p \in Procs, ProcStep(p) \/ ReturnsByItself(p) PROVE PaneOK'
  BY <1>0, <1>8, SamePane DEF ProcStep, ReturnsByItself, ReturnsCancelled, Returns,
     GiveCancel, HandleCancel, Report, Goes, PaneOK, TypeOK
<1>9. CASE Shutdown \/ UNCHANGED vars
  BY <1>0, <1>9, SamePane DEF Shutdown, TwoSecondsPass, WaitNext, Exit, vars, PaneOK, TypeOK
<1>10. QED
  BY <1>1, <1>2, <1>3, <1>4, <1>5, <1>6, <1>7, <1>8, <1>9 DEF Next, Over

----------------------------------------------------------------------------
(* What a step may do to the processes that are no longer in the list. *)

(* Rows are left out that have been cancelled or are over. *)
LEMMA DropRows ==
    ASSUME IInv, InProcessPane, UNCHANGED <<loop, started, handle, done, run>>,
           Listed' \subseteq Listed, cancelled \subseteq cancelled',
           (Listed \ Listed') \cap handle \subseteq cancelled' \cup done
    PROVE  HandleInv' /\ NoOrphan' /\ ShutdownCancels'
<1>1. UiRuns /\ loop # "waiting"
  BY DEF InProcessPane
<1>2. HandleInv' /\ ShutdownCancels'
  BY <1>1 DEF IInv, HandleInv, ShutdownCancels
<1>3. NoOrphan'
  BY <1>1 DEF IInv, HandleInv, NoOrphan
<1>4. QED
  BY <1>2, <1>3

(* No process escapes: each one at work can be cancelled, or has been.      *)
LEMMA HandleStep == IInv /\ [Next]_vars => HandleInv' /\ NoOrphan' /\ ShutdownCancels'
<1> DEFINE Safe == HandleInv' /\ NoOrphan' /\ ShutdownCancels'
<1> SUFFICES ASSUME IInv, [Next]_vars PROVE Safe
  OBVIOUS
<1>0. PaneOK /\ TypeOK /\ HandleInv /\ NoOrphan /\ ShutdownCancels
  BY DEF IInv, PaneOK
<1>1. CASE CycleFocus \/ LeavePane \/ MoveSelection \/ UNCHANGED vars
  <2>1. UNCHANGED <<loop, started, procs, handle, done, run, cancelled>>
    BY <1>1 DEF CycleFocus, LeavePane, MoveSelection, vars
  <2>2. Listed' = Listed
    BY <2>1 DEF Listed
  <2>3. QED
    BY <1>0, <2>1, <2>2 DEF HandleInv, NoOrphan, ShutdownCancels
<1>2. CASE Start
  <2>1. /\ Listed' = Listed \cup {started + 1} /\ started + 1 \in Procs
        /\ run' = [run EXCEPT ![started + 1] = "launched"]
        /\ started' = started + 1 /\ started \in Nat
        /\ UiRuns /\ UNCHANGED <<loop, handle, done, cancelled>>
    BY <1>0, <1>2, StartEffect, ProcsAssumption DEF Start, TypeOK
  <2>2. run[started + 1] = "none" /\ started + 1 > started /\ started + 1 \notin done
    BY <1>0, <2>1 DEF HandleInv
  <2>3. \A p \in Procs : p # started + 1 => run'[p] = run[p]
    BY <1>0, <2>1 DEF TypeOK
  <2>4. run'[started + 1] = "launched"
    BY <1>0, <2>1 DEF TypeOK
  <2>5. \A p \in Procs : p > started + 1 => p > started /\ p # started + 1
    BY <2>1 DEF Procs
  <2>6. HandleInv'
    BY <1>0, <2>1, <2>2, <2>3, <2>4, <2>5 DEF HandleInv, TypeOK
  <2>7. NoOrphan' /\ ShutdownCancels'
    BY <1>0, <2>1, <2>3, <2>4 DEF NoOrphan, ShutdownCancels
  <2>8. QED
    BY <2>6, <2>7
<1>3. CASE Delete
  <2>1. PICK list \in Seq(Procs) :
            /\ Relist(list)
            /\ Listed \ {procs[sel + 1]} \subseteq {list[i] : i \in DOMAIN list}
            /\ {list[i] : i \in DOMAIN list} \subseteq Listed
            /\ Cancel({procs[sel + 1]})
    BY <1>0, <1>3, DeleteEffect
  <2>2. Listed' = {list[i] : i \in DOMAIN list}
    BY <2>1 DEF Relist, Listed
  <2>3. QED
    BY <1>3, <2>1, <2>2, DropRows DEF Delete, Cancel
<1>4. CASE Purge
  <2>1. PICK list \in Seq(Procs) : /\ Relist(list)
                                   /\ {list[i] : i \in DOMAIN list} = Listed \ done
    BY <1>0, <1>4, PurgeEffect
  <2>2. Listed' = Listed \ done
    BY <2>1 DEF Relist, Listed
  <2>3. QED
    BY <1>4, <2>2, DropRows DEF Purge
<1>5. CASE DeleteAll
  <2>1. Listed' = {}
    BY <1>5 DEF DeleteAll, Listed
  <2>2. QED
    BY <1>5, <2>1, DropRows DEF DeleteAll, Cancel
<1>6. CASE Kill \/ Quit \/ LoopEnds
  <2>1. UNCHANGED <<started, procs, handle, done, run>> /\ cancelled \subseteq cancelled'
    BY <1>6 DEF Kill, Quit, LoopEnds, Cancel
  <2>2. Listed' = Listed
    BY <2>1 DEF Listed
  <2>3. UiRuns /\ (loop' = "waiting" => Listed \cap handle \subseteq cancelled')
    BY <1>6 DEF Kill, Quit, LoopEnds, Cancel, InProcessPane
  <2>4. QED
    BY <1>0, <2>1, <2>2, <2>3 DEF HandleInv, NoOrphan, ShutdownCancels
<1>7. ASSUME NEW p \in Procs, ProcStep(p) \/ ReturnsByItself(p) PROVE Safe
  <2>0. UNCHANGED <<loop, started, procs>>
    BY <1>7 DEF ProcStep, ReturnsByItself, ReturnsCancelled, Returns, GiveCancel, Report
  <2>1. Listed' = Listed
    BY <2>0 DEF Listed
  <2>2. CASE GiveCancel(p)
    <3>1. /\ run[p] = "launched" /\ p \notin done
          /\ run' = [run EXCEPT ![p] = "working"]
          /\ done' = done
      BY <1>0, <2>2 DEF GiveCancel, Goes, HandleInv
    <3>2. /\ handle \subseteq handle' /\ cancelled \subseteq cancelled'
          /\ UiRuns /\ p \in Listed => p \in handle'
          /\ UiRuns /\ p \notin Listed => p \in cancelled'
          /\ ~UiRuns => handle' = handle
      BY <2>2 DEF GiveCancel, HandleCancel
    <3>3. /\ \A q \in Procs : q # p => run'[q] = run[q]
          /\ run'[p] = "working"
      BY <1>0, <3>1 DEF TypeOK
    <3>4. HandleInv'
      BY <1>0, <2>0, <2>1, <3>1, <3>2, <3>3 DEF HandleInv, TypeOK
    <3>5. NoOrphan'
      BY <1>0, <2>0, <2>1, <3>2, <3>3 DEF NoOrphan
    <3>6. ShutdownCancels'
      BY <1>0, <2>0, <2>1, <3>2 DEF ShutdownCancels
    <3>7. QED
      BY <3>4, <3>5, <3>6
  <2>3. CASE Returns(p) \/ Report(p)
    <3>1. /\ UNCHANGED <<handle, cancelled>>
          /\ run[p] # "none" /\ run[p] # "over" /\ run'[p] # "working"
          /\ \A q \in Procs : q # p => run'[q] = run[q]
      BY <1>0, <2>3 DEF Returns, Report, Goes, TypeOK
    <3>2. done' \subseteq done \cup {q \in {p} : run'[q] = "over"}
      BY <1>0, <2>3 DEF Returns, Report, Goes, TypeOK
    <3>3. p \notin done
      BY <1>0, <3>1 DEF HandleInv
    <3>4. HandleInv'
      BY <1>0, <2>0, <2>1, <3>1, <3>2, <3>3 DEF HandleInv, TypeOK
    <3>5. NoOrphan' /\ ShutdownCancels'
      BY <1>0, <2>0, <2>1, <3>1 DEF NoOrphan, ShutdownCancels
    <3>6. QED
      BY <3>4, <3>5
  <2>4. QED
    BY <1>7, <2>2, <2>3 DEF ProcStep, ReturnsByItself, ReturnsCancelled
<1>8. CASE Shutdown
  <2>1. /\ UNCHANGED <<procs, started, handle, done, run, cancelled>>
        /\ loop = "waiting" /\ loop' \in {"waiting", "exited"}
    BY <1>8 DEF Shutdown, TwoSecondsPass, WaitNext, Exit
  <2>2. Listed' = Listed
    BY <2>1 DEF Listed
  <2>3. QED
    BY <1>0, <2>1, <2>2 DEF HandleInv, NoOrphan, ShutdownCancels
<1>9. QED
  BY <1>1, <1>2, <1>3, <1>4, <1>5, <1>6, <1>7, <1>8 DEF Next, Over

(* The invariant holds in every reachable state. *)
LEMMA Invariance == Spec => []IInv
<1>1. IInv /\ [Next]_vars => IInv'
  BY PaneStep, HandleStep DEF PaneOK, IInv
<1>2. QED
  BY InitIInv, <1>1, PTL DEF Spec

(* The Processes window and the processes agree: d and k act on a row that  *)
(* exists, the prompt shows its command and gives back what the user had    *)
(* typed, no process deleted or purged works on with a live context, and    *)
(* runAITUI waits only after it has cancelled all it can.                   *)
THEOREM PaneHolds == Spec => []PaneAgrees
<1>1. IInv => PaneAgrees
  BY DEF IInv, PaneAgrees
<1>2. QED
  BY Invariance, <1>1, PTL

=============================================================================
