--------------------------- MODULE SidebarProofs ---------------------------
(***************************************************************************)
(* Safety of the AI screen's sidebar and of its timers, for any lists, any *)
(* number of loads in flight and any order of their answers: an action is  *)
(* what the screen announced, the selected row is drawn, what is drawn     *)
(* fits, and a screen that says it is reconnecting has something pending   *)
(* that will do so.                                                        *)
(*                                                                         *)
(* An action is right when it starts because a prompt remembers what it    *)
(* was opened on (PromptInv): by its name and the number of its window,    *)
(* which no load changes, and not by a row.  The selected row is drawn     *)
(* because it is one of the list's (ScreenInv) and because of what the     *)
(* planner leaves an open window (PlanFits).                               *)
(***************************************************************************)
EXTENDS MCSidebar, FiniteSetTheorems, WellFoundedInduction, TLAPS

----------------------------------------------------------------------------
(* The actions.                                                             *)

PromptKinds == {"create", "delete", "publish", "purge-subscription", "purge", "send"}

(* What Enter will do, given the prompt and the labels of the windows.      *)
Promise ==
    Action(prompt.kind, wins[prompt.win].label,
           IF prompt.kind \in {"send", "publish"} THEN prompt.target ELSE prompt.name,
           IF prompt.kind = "purge-subscription" THEN prompt.target ELSE 0,
           prompt.nodeKind)

(* The windows keep their numbers and their labels under an open prompt.    *)
WindowsInv ==
    /\ wins \in Seq({wins[i] : i \in DOMAIN wins})
    /\ \A i \in DOMAIN wins : "label" \in DOMAIN wins[i]
    /\ focus \in 0..Len(wins)

(* The inductive invariant: an open prompt holds all that the screen said,  *)
(* so that what it promises does not depend on the rows.                    *)
PromptInv ==
    /\ WindowsInv
    /\ prompt = NoPrompt => doing = Nothing \/ doing = shown
    /\ prompt # NoPrompt =>
        /\ doing = Nothing
        /\ prompt.kind \in PromptKinds
        /\ prompt.win \in DOMAIN wins
        /\ prompt = [kind |-> prompt.kind, win |-> prompt.win, name |-> prompt.name,
                     target |-> prompt.target, nodeKind |-> prompt.nodeKind]
        /\ shown = Promise

(* A prompt is about the focused window, and its line says what Enter does. *)
LEMMA PromptsSayWhatTheyDo ==
    ASSUME NEW p \in Prompts
    PROVE  /\ p.kind \in PromptKinds /\ p.win = focus
           /\ p = [kind |-> p.kind, win |-> p.win, name |-> p.name,
                   target |-> p.target, nodeKind |-> p.nodeKind]
           /\ PromptLine(p) = Action(p.kind, wins[p.win].label,
                                     IF p.kind \in {"send", "publish"} THEN p.target ELSE p.name,
                                     IF p.kind = "purge-subscription" THEN p.target ELSE 0,
                                     p.nodeKind)
<1>1. PICK kind, name, target, nodeKind :
        /\ kind \in PromptKinds
        /\ p = [kind |-> kind, win |-> focus, name |-> name, target |-> target, nodeKind |-> nodeKind]
        /\ kind = "send" => nodeKind = Selected.kind
  BY DEF Prompts, PromptKinds
<1>2. /\ p.kind = kind /\ p.win = focus /\ p.name = name /\ p.target = target
      /\ p.nodeKind = nodeKind
  BY <1>1
<1>3. ASSUME NEW l, NEW k PROVE kind # "send" => Via(kind, l, k) = Via(kind, l, nodeKind)
  BY <1>1 DEF Via, PromptKinds
<1>4. kind = "send" => (IF p.kind = "create" THEN "none" ELSE Selected.kind) = nodeKind
  BY <1>1, <1>2
<1>5. QED
  BY <1>1, <1>2, <1>3, <1>4 DEF PromptLine, Action

(* A step that keeps the number of windows and gives each a label keeps the *)
(* windows in order.                                                        *)
LEMMA WindowsStay ==
    ASSUME WindowsInv,
           wins' = [i \in DOMAIN wins |-> wins'[i]],
           \A i \in DOMAIN wins : "label" \in DOMAIN wins'[i],
           focus' \in 0..Len(wins)
    PROVE  WindowsInv' /\ DOMAIN wins' = DOMAIN wins
<1>1. Len(wins) \in Nat /\ DOMAIN wins = 1..Len(wins)
  BY DEF WindowsInv
<1>2. DOMAIN wins' = 1..Len(wins)
  BY <1>1
<1>3. wins' \in [1..Len(wins) -> {wins'[i] : i \in DOMAIN wins'}]
  BY <1>1, <1>2
<1>4. wins' \in Seq({wins'[i] : i \in DOMAIN wins'})
  BY <1>1, <1>3
<1>5. Len(wins') = Len(wins)
  BY <1>1, <1>2, <1>4
<1>6. QED
  BY <1>1, <1>2, <1>4, <1>5 DEF WindowsInv

(* A key changes the focused window only, and not its label.                *)
LEMMA KeysKeepWindows ==
    WindowsInv /\ (\/ \E delta \in {-1, 1} : MoveSel(delta)
                   \/ Fold \/ CycleSort \/ ToggleTree \/ EscFilter \/ TypeFilter)
    => WindowsInv'
<1> SUFFICES ASSUME WindowsInv,
                    \/ \E delta \in {-1, 1} : MoveSel(delta)
                    \/ Fold \/ CycleSort \/ ToggleTree \/ EscFilter \/ TypeFilter
             PROVE  WindowsInv'
  OBVIOUS
<1>1. focus \in 0..Len(wins) /\ (\A i \in DOMAIN wins : "label" \in DOMAIN wins[i])
      /\ DOMAIN wins = 1..Len(wins) /\ Len(wins) \in Nat
  BY DEF WindowsInv
<1>2. focus' = focus /\ focus \in DOMAIN wins
  BY <1>1 DEF MoveSel, Fold, CycleSort, ToggleTree, EscFilter, TypeFilter, InPane, InFilter,
              ObjectsFocused
<1>3. ASSUME NEW w, wins' = [wins EXCEPT ![focus] = w], "label" \in DOMAIN w
      PROVE  WindowsInv'
  <2>1. /\ wins' = [i \in DOMAIN wins |-> wins'[i]]
        /\ \A i \in DOMAIN wins : "label" \in DOMAIN wins'[i]
    BY <1>1, <1>2, <1>3
  <2>2. QED
    BY <2>1, <1>1, <1>2, WindowsStay
<1>4. CASE \E delta \in {-1, 1} : MoveSel(delta)
  <2>1. PICK v : wins' = [wins EXCEPT ![focus] = [wins[focus] EXCEPT !.sel = v]]
    BY <1>4, <1>2 DEF MoveSel
  <2>2. "label" \in DOMAIN [wins[focus] EXCEPT !.sel = v]
    BY <1>1, <1>2
  <2>3. QED
    BY <2>1, <2>2, <1>3
<1>5. CASE Fold
  <2>1. PICK v : wins' = [wins EXCEPT ![focus] = [wins[focus] EXCEPT !.folded = v]]
    BY <1>5, <1>2 DEF Fold
  <2>2. "label" \in DOMAIN [wins[focus] EXCEPT !.folded = v]
    BY <1>1, <1>2
  <2>3. QED
    BY <2>1, <2>2, <1>3
<1>6. CASE CycleSort
  <2>1. PICK v : wins' = [wins EXCEPT ![focus] = [wins[focus] EXCEPT !.sort = v, !.sel = 0]]
    BY <1>6, <1>2 DEF CycleSort
  <2>2. "label" \in DOMAIN [wins[focus] EXCEPT !.sort = v, !.sel = 0]
    BY <1>1, <1>2
  <2>3. QED
    BY <2>1, <2>2, <1>3
<1>7. CASE ToggleTree
  <2>1. PICK u, v : wins' = [wins EXCEPT ![focus] = [[wins[focus] EXCEPT !.tree = u] EXCEPT !.sel = v]]
    BY <1>7, <1>2 DEF ToggleTree, Focused
  <2>2. "label" \in DOMAIN [[wins[focus] EXCEPT !.tree = u] EXCEPT !.sel = v]
    BY <1>1, <1>2
  <2>3. QED
    BY <2>1, <2>2, <1>3
<1>8. CASE EscFilter \/ TypeFilter
  <2>1. PICK v : wins' = [wins EXCEPT ![focus] = [wins[focus] EXCEPT !.filter = v, !.sel = 0]]
    BY <1>8, <1>2 DEF EscFilter, TypeFilter
  <2>2. "label" \in DOMAIN [wins[focus] EXCEPT !.filter = v, !.sel = 0]
    BY <1>1, <1>2
  <2>3. QED
    BY <2>1, <2>2, <1>3
<1>9. QED
  BY <1>4, <1>5, <1>6, <1>7, <1>8

(* A load replaces the rows of every window and the label of none.          *)
LEMMA LoadsKeepLabels ==
    WindowsInv /\ ObjectsDone
    => /\ WindowsInv' /\ DOMAIN wins' = DOMAIN wins
       /\ \A i \in DOMAIN wins : wins'[i].label = wins[i].label
<1> SUFFICES ASSUME WindowsInv, ObjectsDone
             PROVE  /\ WindowsInv' /\ DOMAIN wins' = DOMAIN wins
                    /\ \A i \in DOMAIN wins : wins'[i].label = wins[i].label
  OBVIOUS
<1>1. focus \in 0..Len(wins) /\ \A i \in DOMAIN wins : "label" \in DOMAIN wins[i]
  BY DEF WindowsInv
<1> DEFINE fresh(w, nodes) == [w EXCEPT !.nodes = nodes, !.failed = FALSE]
           back(w, nodes) ==
               [fresh(w, nodes) EXCEPT !.sel = IF @ < Len(Rows(fresh(w, nodes))) THEN @
                                               ELSE IF Len(Rows(fresh(w, nodes))) > 0
                                                    THEN Len(Rows(fresh(w, nodes))) - 1 ELSE 0]
           answers(w) == IF IsProcs(w) THEN {w}
                         ELSE {back(w, l) : l \in Listings[w.label]}
                              \cup {[back(w, <<>>) EXCEPT !.failed = TRUE]}
<1>2. ASSUME NEW w, NEW a \in answers(w), "label" \in DOMAIN w
      PROVE  "label" \in DOMAIN a /\ a.label = w.label
  <2>1. ASSUME NEW l
        PROVE  "label" \in DOMAIN back(w, l) /\ back(w, l).label = w.label
    <3>1. "label" \in DOMAIN fresh(w, l) /\ fresh(w, l).label = w.label
      BY <1>2
    <3>2. ASSUME NEW r, NEW v, "label" \in DOMAIN r
          PROVE  "label" \in DOMAIN [r EXCEPT !.sel = v] /\ [r EXCEPT !.sel = v].label = r.label
      BY <3>2
    <3> HIDE DEF fresh
    <3>3. QED
      BY <3>1, <3>2
  <2>2. ASSUME NEW r, "label" \in DOMAIN r
        PROVE  "label" \in DOMAIN [r EXCEPT !.failed = TRUE] /\ [r EXCEPT !.failed = TRUE].label = r.label
    BY <2>2
  <2> HIDE DEF back
  <2>3. QED
    BY <1>2, <2>1, <2>2
<1>3. /\ wins' = [i \in DOMAIN wins |-> wins'[i]]
      /\ \A i \in DOMAIN wins : wins'[i] \in answers(wins[i])
  BY DEF ObjectsDone
<1> HIDE DEF answers
<1>4. \A i \in DOMAIN wins : "label" \in DOMAIN wins'[i] /\ wins'[i].label = wins[i].label
  BY <1>1, <1>2, <1>3
<1>5. focus' = focus
  BY DEF ObjectsDone
<1>6. QED
  BY <1>1, <1>3, <1>4, <1>5, WindowsStay

(* The window of processes comes and goes at the end.                       *)
LEMMA ProcessesKeepWindows ==
    WindowsInv /\ (ProcessStarts \/ ProcessRemoved) => WindowsInv'
<1> SUFFICES ASSUME WindowsInv, ProcessStarts \/ ProcessRemoved PROVE WindowsInv'
  OBVIOUS
<1>1. /\ wins \in Seq({wins[i] : i \in DOMAIN wins}) /\ Len(wins) \in Nat
      /\ DOMAIN wins = 1..Len(wins) /\ focus \in 0..Len(wins)
      /\ \A i \in DOMAIN wins : "label" \in DOMAIN wins[i]
  BY DEF WindowsInv
<1>2. CASE wins' = wins
  <2>1. focus' \in 0..Len(wins)
    BY <1>1 DEF ProcessStarts, ProcessRemoved
  <2>2. QED
    BY <1>2, <2>1, <1>1 DEF WindowsInv
<1>3. CASE wins' = Append(wins, Window("Processes")) /\ focus' = focus
  <2>1. "label" \in DOMAIN Window("Processes")
    BY DEF Window
  <2>2. /\ DOMAIN wins' = 1..(Len(wins) + 1)
        /\ \A i \in 1..(Len(wins) + 1) : wins'[i] = IF i <= Len(wins) THEN wins[i] ELSE Window("Processes")
        /\ wins' = [i \in 1..(Len(wins) + 1) |-> wins'[i]]
    <3>1. ASSUME NEW w, NEW s \in Seq({wins[i] : i \in DOMAIN wins}), s = wins
          PROVE  /\ DOMAIN Append(s, w) = 1..(Len(s) + 1)
                 /\ \A i \in 1..(Len(s) + 1) : Append(s, w)[i] = IF i <= Len(s) THEN s[i] ELSE w
                 /\ Append(s, w) = [i \in 1..(Len(s) + 1) |-> Append(s, w)[i]]
      <4>1. \A i \in 1..Len(s) : Append(s, w)[i] = s[i]
        OBVIOUS
      <4>2. Append(s, w)[Len(s) + 1] = w /\ DOMAIN Append(s, w) = 1..(Len(s) + 1)
        OBVIOUS
      <4>3. Append(s, w) = [i \in 1..(Len(s) + 1) |-> Append(s, w)[i]]
        <5> DEFINE All == {wins[i] : i \in DOMAIN wins} \cup {w}
        <5>1. \A i \in 1..Len(s) : s[i] \in All
          BY <3>1
        <5>2. s \in Seq(All)
          BY <5>1
        <5> HIDE DEF All
        <5>3. w \in All
          BY DEF All
        <5>4. Append(s, w) \in Seq(All) /\ Len(Append(s, w)) = Len(s) + 1
          BY <5>2, <5>3
        <5>5. ASSUME NEW t \in Seq(All) PROVE t = [i \in 1..Len(t) |-> t[i]]
          <6>1. t \in [1..Len(t) -> All]
            OBVIOUS
          <6>2. QED
            BY <6>1
        <5>6. QED
          BY <5>4, <5>5
      <4>4. QED
        BY <4>1, <4>2, <4>3
    <3>2. QED
      BY <1>1, <1>3, <3>1
  <2>3. wins' \in Seq({wins'[i] : i \in DOMAIN wins'}) /\ Len(wins') = Len(wins) + 1
    BY <2>2, <1>1
  <2>4. QED
    BY <1>1, <1>3, <2>1, <2>2, <2>3 DEF WindowsInv
<1>4. CASE wins' = Front(wins) /\ focus' = 0 /\ focus # 0
  <2>1. /\ DOMAIN wins' = 1..(Len(wins) - 1)
        /\ \A i \in 1..(Len(wins) - 1) : wins'[i] = wins[i]
        /\ wins' = [i \in 1..(Len(wins) - 1) |-> wins'[i]]
        /\ Len(wins) - 1 \in Nat
    BY <1>1, <1>4 DEF Front
  <2>2. wins' \in Seq({wins'[i] : i \in DOMAIN wins'}) /\ Len(wins') = Len(wins) - 1
    BY <2>1
  <2>3. QED
    BY <1>1, <1>4, <2>1, <2>2 DEF WindowsInv
<1>5. QED
  BY <1>2, <1>3, <1>4 DEF ProcessStarts, ProcessRemoved

(* Every step keeps the promise of an open prompt, or redeems it.           *)
LEMMA PromptStep == PromptInv /\ [Next]_vars => PromptInv'
<1> SUFFICES ASSUME PromptInv, [Next]_vars PROVE PromptInv'
  OBVIOUS
<1>1. WindowsInv
  BY DEF PromptInv
<1>2. ASSUME WindowsInv', Idle, UNCHANGED <<prompt, doing, shown>> PROVE PromptInv'
  BY <1>2 DEF PromptInv, Idle
<1>3. ASSUME UNCHANGED <<wins, focus>> PROVE WindowsInv'
  BY <1>1, <1>3 DEF WindowsInv
<1>4. ASSUME WindowsInv', DOMAIN wins' = DOMAIN wins,
             \A i \in DOMAIN wins : wins'[i].label = wins[i].label,
             UNCHANGED <<prompt, doing, shown>>
      PROVE  PromptInv'
  BY <1>4 DEF PromptInv, Promise, Action
<1>5. ASSUME NEW forward \in BOOLEAN, CycleFocus(forward) PROVE PromptInv'
  <2>1. focus' \in 0..Len(wins) /\ wins' = wins
    <3>1. Len(wins) \in Nat /\ focus \in Nat
      BY <1>1 DEF WindowsInv
    <3>2. ASSUME NEW m \in Nat, NEW n \in Nat \ {0} PROVE m % n \in 0..(n - 1)
      OBVIOUS
    <3>3. PICK m \in Nat : focus' = m % (Len(wins) + 1)
      <4>1. CASE forward
        <5>1. focus' = (focus + 1) % (Len(wins) + 1)
          BY <1>5, <4>1 DEF CycleFocus
        <5>2. focus + 1 \in Nat
          BY <3>1
        <5>3. QED
          BY <5>1, <5>2
      <4>2. CASE ~forward
        <5>1. focus' = (focus + (Len(wins) + 1 - 1)) % (Len(wins) + 1)
          BY <1>5, <4>2 DEF CycleFocus
        <5>2. focus + (Len(wins) + 1 - 1) \in Nat
          BY <3>1
        <5>3. QED
          BY <5>1, <5>2
      <4>3. QED
        BY <4>1, <4>2
    <3>4. focus' \in 0..Len(wins)
      BY <3>1, <3>2, <3>3
    <3>5. QED
      BY <1>5, <3>4 DEF CycleFocus
  <2>2. WindowsInv'
    BY <2>1, <1>1 DEF WindowsInv
  <2>3. QED
    BY <1>5, <2>2, <1>2 DEF CycleFocus
<1>6. CASE BackToChat
  <2>1. WindowsInv'
    BY <1>6, <1>1 DEF BackToChat, WindowsInv
  <2>2. QED
    BY <1>6, <2>1, <1>2 DEF BackToChat
<1>7. CASE \/ \E delta \in {-1, 1} : MoveSel(delta)
           \/ Fold \/ CycleSort \/ ToggleTree \/ EscFilter \/ TypeFilter
  <2>1. Idle /\ UNCHANGED <<prompt, doing, shown>>
    BY <1>7 DEF MoveSel, Fold, CycleSort, ToggleTree, EscFilter, TypeFilter, InPane, InFilter
  <2>2. QED
    BY <1>1, <1>7, <2>1, <1>2, KeysKeepWindows
<1>8. CASE StartFilter \/ EndFilter
  BY <1>8, <1>2, <1>3 DEF StartFilter, EndFilter, InPane, InFilter
<1>9. CASE OpenPrompt
  <2>1. PICK p \in Prompts : prompt' = p /\ shown' = PromptLine(p)
    BY <1>9 DEF OpenPrompt
  <2>2. /\ wins' = wins /\ focus' = focus /\ doing' = doing /\ doing = Nothing
        /\ focus \in DOMAIN wins
    BY <1>9, <1>1 DEF OpenPrompt, screen, InPane, Idle, ObjectsFocused, WindowsInv
  <2>3. prompt' # NoPrompt
    BY <2>1, PromptsSayWhatTheyDo DEF NoPrompt, PromptKinds
  <2>4. shown' = Promise'
    BY <2>1, <2>2, PromptsSayWhatTheyDo DEF Promise, Action
  <2>5. QED
    BY <2>1, <2>2, <2>3, <2>4, <1>3, PromptsSayWhatTheyDo DEF PromptInv
<1>10. CASE TypeIntoPrompt
  <2>1. /\ prompt.kind \in {"create", "send", "publish"} /\ prompt # NoPrompt
        /\ UNCHANGED <<wins, focus, doing>>
    BY <1>10 DEF TypeIntoPrompt, NoPrompt, screen
  <2>2. /\ prompt'.kind = prompt.kind /\ prompt'.win = prompt.win
        /\ prompt'.target = prompt.target /\ prompt'.nodeKind = prompt.nodeKind
        /\ prompt' = [kind |-> prompt'.kind, win |-> prompt'.win, name |-> prompt'.name,
                      target |-> prompt'.target, nodeKind |-> prompt'.nodeKind]
        /\ prompt' # NoPrompt
    BY <1>10, <2>1 DEF TypeIntoPrompt, PromptInv, NoPrompt
  <2>3. shown = Promise
    BY <2>1 DEF PromptInv
  <2>4. shown' = Promise'
    <3>1. CASE prompt.kind = "create"
      BY <1>10, <3>1, <2>1, <2>2, <2>3 DEF TypeIntoPrompt, Promise, Action
    <3>2. CASE prompt.kind # "create"
      BY <1>10, <3>2, <2>1, <2>2, <2>3 DEF TypeIntoPrompt, Promise, Action
    <3>3. QED
      BY <3>1, <3>2
  <2>5. QED
    BY <2>1, <2>2, <2>4, <1>3 DEF PromptInv
<1>11. CASE EscPrompt
  BY <1>11, <1>3 DEF EscPrompt, PromptInv, screen, NoPrompt
<1>12. CASE ConfirmPrompt
  BY <1>12, <1>3 DEF ConfirmPrompt, PromptInv, Promise, screen
<1>13. CASE ActAtOnce
  <2>1. doing' = shown' /\ prompt' = NoPrompt /\ UNCHANGED <<wins, focus>>
    BY <1>13 DEF ActAtOnce, screen, InPane, Idle
  <2>2. QED
    BY <2>1, <1>3 DEF PromptInv
<1>14. CASE ActionDone
  BY <1>14, <1>3 DEF ActionDone, PromptInv, screen
<1>15. CASE StartLoad \/ UNCHANGED vars
  <2>1. UNCHANGED <<wins, focus, prompt, doing, shown>>
    BY <1>15 DEF StartLoad, screen, vars
  <2>2. QED
    BY <2>1, <1>3, <1>4
<1>16. CASE ObjectsDone
  BY <1>1, <1>16, <1>4, LoadsKeepLabels DEF ObjectsDone
<1>17. CASE ProcessStarts \/ ProcessRemoved
  BY <1>1, <1>17, <1>2, ProcessesKeepWindows DEF ProcessStarts, ProcessRemoved
<1>18. QED
  BY <1>5, <1>6, <1>7, <1>8, <1>9, <1>10, <1>11, <1>12, <1>13, <1>14, <1>15, <1>16, <1>17
  DEF Next

(* Acting on a row (cmd/aisidebaractions.go): whatever loads, filters or    *)
(* sorts replace the rows between the prompt and Enter, the action is on    *)
(* the object the screen named, through the adapter it is reached by.       *)
THEOREM ActsAsAnnounced == Spec => []ActsOnWhatWasShown
<1>1. ASSUME Init PROVE PromptInv
  <2>1. PICK s \in Screens : wins = [i \in DOMAIN s |-> Window(s[i])]
    BY <1>1 DEF Init
  <2>2. DOMAIN s = 1..Len(s) /\ Len(s) \in Nat
    BY SidebarAssumption, <2>1
  <2>3. wins \in Seq({wins[i] : i \in DOMAIN wins})
    BY <2>1, <2>2
  <2>4. \A i \in DOMAIN wins : "label" \in DOMAIN wins[i]
    BY <2>1 DEF Window
  <2>5. WindowsInv
    BY <1>1, <2>3, <2>4 DEF WindowsInv, Init
  <2>6. QED
    BY <1>1, <2>5 DEF PromptInv, Init
<1>2. PromptInv => ActsOnWhatWasShown
  BY DEF PromptInv, ActsOnWhatWasShown
<1>3. QED
  BY <1>1, <1>2, PromptStep, PTL DEF Spec

----------------------------------------------------------------------------
(* Least and greatest numbers.                                              *)

(* A set of numbers that has an element has a least one.                    *)
LEMMA LeastOf ==
    ASSUME NEW S, S \subseteq Nat, S # {}
    PROVE  \E m \in S : \A k \in S : m <= k
<1>1. \E m \in S : \A k \in S : ~ (<<k, m>> \in OpToRel(<, Nat))
  BY NatLessThanWellFounded, WFMin
<1>2. PICK m \in S : \A k \in S : ~ (<<k, m>> \in OpToRel(<, Nat))
  BY <1>1
<1>3. \A k \in S : ~(k < m)
  BY <1>2 DEF OpToRel
<1>4. QED
  BY <1>3

(* One that is bounded has a greatest one.                                  *)
LEMMA GreatestOf ==
    ASSUME NEW n \in Nat, NEW S, S \subseteq 1..n, S # {}
    PROVE  \E m \in S : \A k \in S : k <= m
<1> DEFINE T == {n - i : i \in S}
<1>1. T \subseteq Nat /\ T # {}
  <2>1. PICK s \in S : TRUE
    OBVIOUS
  <2>2. n - s \in T
    BY <2>1
  <2>3. \A i \in S : n - i \in Nat
    OBVIOUS
  <2>4. QED
    BY <2>2, <2>3
<1>2. PICK t \in T : \A k \in T : t <= k
  BY <1>1, LeastOf
<1>3. PICK m \in S : t = n - m
  OBVIOUS
<1>4. ASSUME NEW k \in S PROVE k <= m
  <2>1. t <= n - k
    BY <1>2
  <2>2. QED
    BY <2>1, <1>3
<1>5. QED
  BY <1>4

----------------------------------------------------------------------------
(* Lines on the screen.                                                     *)

LinesOf(lines) == UNION {{i} \X (1..lines[i]) : i \in DOMAIN lines}

LEMMA StackedIsNatural ==
    ASSUME NEW S, IsFiniteSet(S), NEW f \in [S -> Nat]
    PROVE  IsFiniteSet(LinesOf(f)) /\ Stacked(f) \in Nat /\ Stacked(f) = Cardinality(LinesOf(f))
<1> DEFINE blocks == {{i} \X (1..f[i]) : i \in S}
           blockOf == [i \in S |-> {i} \X (1..f[i])]
<1>1. blockOf \in Surjection(S, blocks)
  BY DEF Surjection
<1>2. IsFiniteSet(blocks)
  BY <1>1, FS_Surjection
<1>3. ASSUME NEW i \in S PROVE IsFiniteSet({i} \X (1..f[i]))
  <2>1. IsFiniteSet({i}) /\ 1 \in Int /\ f[i] \in Int
    BY FS_Singleton
  <2>2. IsFiniteSet(1..f[i])
    BY <2>1, FS_Interval
  <2>3. QED
    BY <2>1, <2>2, FS_Product
<1>4. IsFiniteSet(UNION blocks)
  BY <1>2, <1>3, FS_UNION
<1>5. LinesOf(f) = UNION blocks
  BY DEF LinesOf
<1>6. QED
  BY <1>4, <1>5, FS_CardinalityType DEF Stacked, LinesOf

(* A screen on which one window only may have grown, by k lines, has at     *)
(* most k lines more.                                                       *)
LEMMA OneGrows ==
    ASSUME NEW S, IsFiniteSet(S), NEW f \in [S -> Nat],
           NEW T, IsFiniteSet(T), NEW g \in [T -> Nat], NEW x, NEW k \in Nat,
           \A i \in T : g[i] <= (IF i \in S THEN f[i] ELSE 0) + (IF i = x THEN k ELSE 0)
    PROVE  Stacked(g) <= Stacked(f) + k
<1> DEFINE b == IF x \in S THEN f[x] ELSE 0
           more == {x} \X ((b + 1)..(b + k))
<1>1. b \in Nat
  OBVIOUS
<1>2. IsFiniteSet(more) /\ Cardinality(more) = k
  <2> HIDE DEF b
  <2>1. IsFiniteSet((b + 1)..(b + k)) /\ Cardinality((b + 1)..(b + k)) = k
    <3>1. b + 1 \in Int /\ b + k \in Int
      BY <1>1
    <3>2. /\ IsFiniteSet((b + 1)..(b + k))
          /\ Cardinality((b + 1)..(b + k)) = IF b + 1 > b + k THEN 0 ELSE (b + k) - (b + 1) + 1
      BY <3>1, FS_Interval
    <3>3. QED
      BY <1>1, <3>2
  <2>2. IsFiniteSet({x}) /\ Cardinality({x}) = 1
    BY FS_Singleton
  <2>3. IsFiniteSet(more) /\ Cardinality(more) = Cardinality({x}) * Cardinality((b + 1)..(b + k))
    BY <2>1, <2>2, FS_Product
  <2>4. QED
    BY <2>1, <2>2, <2>3
<1>3. LinesOf(g) \subseteq LinesOf(f) \cup more
  <2>1. ASSUME NEW i \in T, NEW l \in 1..g[i] PROVE <<i, l>> \in LinesOf(f) \cup more
    <3>1. CASE i \in S /\ l <= f[i]
      BY <2>1, <3>1 DEF LinesOf
    <3>2. CASE ~(i \in S /\ l <= f[i])
      <4>1. g[i] \in Nat /\ (i \in S => f[i] \in Nat) /\ l \in Nat /\ l >= 1 /\ l <= g[i]
        OBVIOUS
      <4>2. i = x
        BY <3>2, <4>1
      <4>3. l \in (b + 1)..(b + k)
        BY <3>2, <4>1, <4>2
      <4>4. QED
        BY <4>2, <4>3
    <3>3. QED
      BY <3>1, <3>2
  <2>2. QED
    BY <2>1 DEF LinesOf
<1> HIDE DEF more
<1>4. /\ IsFiniteSet(LinesOf(f)) /\ Stacked(f) = Cardinality(LinesOf(f))
      /\ IsFiniteSet(LinesOf(g)) /\ Stacked(g) = Cardinality(LinesOf(g))
      /\ Stacked(f) \in Nat /\ Stacked(g) \in Nat
  BY StackedIsNatural
<1>5. /\ IsFiniteSet(LinesOf(f) \cup more)
      /\ Cardinality(LinesOf(f) \cup more)
            = Stacked(f) + k - Cardinality(LinesOf(f) \cap more)
  BY <1>2, <1>4, FS_Union
<1>6. Cardinality(LinesOf(f) \cap more) \in Nat
  BY <1>4, FS_Intersection, FS_CardinalityType
<1>7. Cardinality(LinesOf(g)) <= Cardinality(LinesOf(f) \cup more)
  BY <1>3, <1>5, FS_Subset
<1>8. QED
  BY <1>4, <1>5, <1>6, <1>7

(* Two parts of every window are at most as high as the windows of the one  *)
(* and of the other.                                                        *)
LEMMA StackedAdds ==
    ASSUME NEW S, IsFiniteSet(S), NEW f \in [S -> Nat], NEW g \in [S -> Nat],
           NEW h \in [S -> Nat], \A i \in S : h[i] <= f[i] + g[i]
    PROVE  Stacked(h) <= Stacked(f) + Stacked(g)
<1> DEFINE below == {<<p[1], f[p[1]] + p[2]>> : p \in LinesOf(g)}
           move == [p \in LinesOf(g) |-> <<p[1], f[p[1]] + p[2]>>]
<1>1. /\ IsFiniteSet(LinesOf(f)) /\ Stacked(f) = Cardinality(LinesOf(f))
      /\ IsFiniteSet(LinesOf(g)) /\ Stacked(g) = Cardinality(LinesOf(g))
      /\ IsFiniteSet(LinesOf(h)) /\ Stacked(h) = Cardinality(LinesOf(h))
      /\ Stacked(f) \in Nat /\ Stacked(g) \in Nat /\ Stacked(h) \in Nat
  BY StackedIsNatural
<1>2. move \in Surjection(LinesOf(g), below)
  BY DEF Surjection
<1>3. IsFiniteSet(below) /\ Cardinality(below) <= Stacked(g)
  BY <1>1, <1>2, FS_Surjection
<1>4. LinesOf(h) \subseteq LinesOf(f) \cup below
  <2>1. ASSUME NEW i \in S, NEW l \in 1..h[i] PROVE <<i, l>> \in LinesOf(f) \cup below
    <3>1. f[i] \in Nat /\ g[i] \in Nat /\ h[i] \in Nat /\ h[i] <= f[i] + g[i]
      OBVIOUS
    <3>2. CASE l <= f[i]
      BY <3>1, <3>2 DEF LinesOf
    <3>3. CASE l > f[i]
      <4>1. l - f[i] \in 1..g[i]
        BY <3>1, <3>3
      <4>2. <<i, l - f[i]>> \in LinesOf(g)
        BY <4>1 DEF LinesOf
      <4>3. f[i] + (l - f[i]) = l
        BY <3>1
      <4>4. <<i, f[i] + (l - f[i])>> \in below
        BY <4>2
      <4>5. QED
        BY <4>3, <4>4
    <3>4. QED
      BY <3>1, <3>2, <3>3
  <2>2. QED
    BY <2>1 DEF LinesOf
<1> HIDE DEF below
<1>5. /\ IsFiniteSet(LinesOf(f) \cup below)
      /\ Cardinality(LinesOf(f) \cup below)
            = Stacked(f) + Cardinality(below) - Cardinality(LinesOf(f) \cap below)
  BY <1>1, <1>3, FS_Union
<1>6. Cardinality(LinesOf(f) \cap below) \in Nat /\ Cardinality(below) \in Nat
  BY <1>1, <1>3, FS_Intersection, FS_CardinalityType
<1>7. Cardinality(LinesOf(h)) <= Cardinality(LinesOf(f) \cup below)
  BY <1>4, <1>5, FS_Subset
<1>8. QED
  BY <1>1, <1>3, <1>5, <1>6, <1>7

----------------------------------------------------------------------------
(* The plan.                                                                *)

WindowsOf(n) == [1..n -> [rows : Nat \ {0}, folded : BOOLEAN]]

(* The lines of each window, and what each has beyond its floor.            *)
CostLines(n, ws, folded, body) == [i \in 1..n |-> Cost(ws, i, folded[i], body[i])]
Beyond(n, ws, body) == [i \in 1..n |-> body[i] - FloorRows(ws[i])]

LEMMA Costs ==
    ASSUME NEW n \in Nat, NEW ws \in WindowsOf(n),
           NEW folded \in [1..n -> BOOLEAN], NEW body \in [1..n -> Nat]
    PROVE  /\ \A i \in 1..n : CostLines(n, ws, folded, body)[i]
                   = (IF folded[i] THEN 1 ELSE 2 + body[i]) + (IF i < n THEN 1 ELSE 0)
           /\ CostLines(n, ws, folded, body) \in [1..n -> Nat]
           /\ Total(ws, folded, body) = Stacked(CostLines(n, ws, folded, body))
           /\ Total(ws, folded, body) \in Nat
<1>1. DOMAIN ws = 1..n /\ Cardinality(1..n) = n /\ IsFiniteSet(1..n)
  BY FS_Interval DEF WindowsOf
<1>2. \A i \in 1..n : CostLines(n, ws, folded, body)[i]
                   = (IF folded[i] THEN 1 ELSE 2 + body[i]) + (IF i < n THEN 1 ELSE 0)
  BY <1>1 DEF CostLines, Cost, Margin, Windows
<1>3. CostLines(n, ws, folded, body) \in [1..n -> Nat]
  <2>1. \A i \in 1..n : CostLines(n, ws, folded, body)[i] \in Nat
    BY <1>2
  <2>2. DOMAIN CostLines(n, ws, folded, body) = 1..n
        /\ CostLines(n, ws, folded, body) = [i \in 1..n |-> CostLines(n, ws, folded, body)[i]]
    BY DEF CostLines
  <2>3. QED
    BY <2>1, <2>2
<1>4. Total(ws, folded, body) = Stacked(CostLines(n, ws, folded, body))
  BY <1>1 DEF Total, Windows, CostLines
<1>5. QED
  BY <1>1, <1>2, <1>3, <1>4, StackedIsNatural

LEMMA Floored ==
    ASSUME NEW n \in Nat, NEW ws \in WindowsOf(n), NEW i \in 1..n
    PROVE  /\ ws[i].rows \in Nat \ {0} /\ ws[i].folded \in BOOLEAN
           /\ FloorRows(ws[i]) \in 1..3 /\ FloorRows(ws[i]) <= ws[i].rows
           /\ FloorRows(ws[i]) = 3 \/ FloorRows(ws[i]) = ws[i].rows
BY DEF WindowsOf, FloorRows, AtMost

(* What is handed out beyond the floors is never more than there is: the    *)
(* last window that gets something gets what those before it have left.     *)
LEMMA GrowthFits ==
    ASSUME NEW n \in Nat, NEW ws \in WindowsOf(n), NEW at \in 0..n, NEW surplus \in Nat
    PROVE  LET G == Growth(ws, at, surplus) IN
           /\ G \in [1..n -> Nat]
           /\ \A i \in 1..n : G[i] >= FloorRows(ws[i])
           /\ Beyond(n, ws, G) \in [1..n -> Nat]
           /\ Stacked(Beyond(n, ws, G)) <= surplus
<1> DEFINE growing == {i \in 1..n : ~ws[i].folded}
           want(i) == ws[i].rows - FloorRows(ws[i])
           earlier(i) == {j \in growing : IF i = at THEN FALSE ELSE j = at \/ j < i}
           wants(i) == [j \in earlier(i) |-> want(j)]
           left(i) == surplus - Stacked(wants(i))
           extra == [i \in 1..n |-> IF i \in growing THEN AtMost(want(i), AtLeast(left(i), 0)) ELSE 0]
           G == Growth(ws, at, surplus)
<1>1. DOMAIN ws = 1..n /\ IsFiniteSet(1..n)
  BY FS_Interval DEF WindowsOf
<1>2. G = [i \in 1..n |-> FloorRows(ws[i]) + extra[i]]
  BY <1>1 DEF Growth, Windows
<1>3. \A i \in 1..n : want(i) \in Nat
  BY Floored
<1>4. ASSUME NEW i \in 1..n
      PROVE  /\ IsFiniteSet(earlier(i)) /\ wants(i) \in [earlier(i) -> Nat]
             /\ Stacked(wants(i)) \in Nat /\ left(i) \in Int
  <2>1. earlier(i) \subseteq 1..n
    OBVIOUS
  <2>2. IsFiniteSet(earlier(i))
    BY <1>1, <2>1, FS_Subset
  <2>3. wants(i) \in [earlier(i) -> Nat]
    BY <1>3, <2>1
  <2>4. Stacked(wants(i)) \in Nat
    BY <2>2, <2>3, StackedIsNatural
  <2> HIDE DEF wants, earlier
  <2>5. QED
    BY <2>2, <2>3, <2>4
<1> HIDE DEF left
<1>5. ASSUME NEW i \in 1..n
      PROVE  /\ extra[i] \in Nat
             /\ extra[i] > 0 => i \in growing /\ extra[i] <= left(i) /\ extra[i] <= want(i)
             /\ i \in growing => extra[i] <= want(i)
             /\ i \notin growing => extra[i] = 0
  <2>1. extra[i] = IF i \in growing THEN AtMost(want(i), AtLeast(left(i), 0)) ELSE 0
    OBVIOUS
  <2>2. want(i) \in Nat /\ left(i) \in Int
    BY <1>3, <1>4
  <2> HIDE DEF extra, want, growing
  <2>3. QED
    BY <2>1, <2>2 DEF AtMost, AtLeast
<1>6. extra \in [1..n -> Nat]
  BY <1>5
<1> HIDE DEF growing, want
<1>7. Stacked(extra) <= surplus
  <2> DEFINE some == {i \in 1..n : extra[i] > 0}
  <2> HIDE DEF extra
  <2>1. CASE some = {}
    <3>1. \A i \in 1..n : extra[i] <= (IF i \in {} THEN 0 ELSE 0) + (IF i = 0 THEN 0 ELSE 0)
      BY <2>1, <1>6
    <3> DEFINE none == [i \in {} |-> 0]
    <3>2. IsFiniteSet({}) /\ none \in [{} -> Nat]
      BY FS_EmptySet
    <3>3. Stacked(none) = 0
      <4>1. LinesOf(none) = {}
        BY DEF LinesOf
      <4>2. QED
        BY <4>1, <3>2, FS_EmptySet, StackedIsNatural
    <3>4. \A i \in 1..n : extra[i] <= (IF i \in {} THEN none[i] ELSE 0) + (IF i = 0 THEN 0 ELSE 0)
      BY <3>1
    <3> HIDE DEF none
    <3>5. Stacked(extra) <= Stacked(none) + 0
      BY <1>1, <1>6, <3>2, <3>4, OneGrows
    <3>6. Stacked(extra) \in Nat
      BY <1>1, <1>6, StackedIsNatural
    <3>7. QED
      BY <3>3, <3>5, <3>6
  <2>2. CASE some # {}
    <3>1. PICK last \in some : \A j \in some \ {last} : j \in earlier(last)
      <4>1. CASE some \subseteq {at}
        BY <2>2, <4>1
      <4>2. CASE ~(some \subseteq {at})
        <5>1. some \ {at} \subseteq 1..n /\ some \ {at} # {}
          BY <4>2
        <5>2. PICK m \in some \ {at} : \A k \in some \ {at} : k <= m
          BY <5>1, GreatestOf
        <5>3. \A j \in some \ {m} : j \in growing /\ (j = at \/ j < m)
          BY <1>5, <5>2
        <5>4. \A j \in some \ {m} : j \in earlier(m)
          BY <5>2, <5>3
        <5>5. QED
          BY <5>2, <5>4
      <4>3. QED
        BY <4>1, <4>2
    <3>2. last \in 1..n /\ extra[last] \in Nat /\ extra[last] <= left(last)
      BY <1>5, <1>6
    <3>3. ASSUME NEW i \in 1..n
          PROVE  extra[i] <= (IF i \in earlier(last) THEN wants(last)[i] ELSE 0)
                              + (IF i = last THEN extra[last] ELSE 0)
      <4>1. last \notin earlier(last)
        BY <3>2
      <4>2. extra[i] \in Nat /\ want(i) \in Nat
        BY <1>6, <1>3
      <4>3. CASE i = last
        BY <4>1, <4>2, <4>3
      <4>4. CASE i # last /\ i \in some
        <5>1. i \in earlier(last) /\ wants(last)[i] = want(i)
          BY <3>1, <4>4
        <5>2. extra[i] <= want(i)
          BY <1>5, <4>4
        <5>3. QED
          BY <5>1, <5>2, <4>4, <4>2
      <4>5. CASE i \notin some
        <5>1. extra[i] = 0
          BY <4>5, <4>2
        <5>2. i \in earlier(last) => wants(last)[i] \in Nat
          BY <1>4, <3>2
        <5>3. QED
          BY <5>1, <5>2, <3>2
      <4>6. QED
        BY <4>3, <4>4, <4>5
    <3>4. /\ IsFiniteSet(earlier(last)) /\ wants(last) \in [earlier(last) -> Nat]
          /\ Stacked(wants(last)) \in Nat
      BY <1>4, <3>2
    <3> HIDE DEF wants, earlier
    <3>5. Stacked(extra) <= Stacked(wants(last)) + extra[last]
      BY <1>1, <1>6, <3>2, <3>3, <3>4, OneGrows
    <3>6. extra[last] <= surplus - Stacked(wants(last))
      BY <3>2 DEF left
    <3>7. Stacked(extra) \in Nat
      BY <1>1, <1>6, StackedIsNatural
    <3>8. QED
      BY <3>2, <3>4, <3>5, <3>6, <3>7
  <2>3. QED
    BY <2>1, <2>2
<1> HIDE DEF extra
<1>8. Beyond(n, ws, G) = extra
  <2>1. \A i \in 1..n : G[i] - FloorRows(ws[i]) = extra[i]
    BY <1>2, <1>6, Floored
  <2>2. extra = [i \in 1..n |-> extra[i]]
    BY <1>6
  <2> HIDE DEF G
  <2>3. QED
    BY <2>1, <2>2 DEF Beyond
<1>9. G \in [1..n -> Nat] /\ \A i \in 1..n : G[i] >= FloorRows(ws[i])
  <2>1. ASSUME NEW i \in 1..n
        PROVE  FloorRows(ws[i]) + extra[i] \in Nat /\ FloorRows(ws[i]) + extra[i] >= FloorRows(ws[i])
    <3>1. FloorRows(ws[i]) \in Nat /\ extra[i] \in Nat
      BY <1>6, Floored
    <3>2. QED
      BY <3>1
  <2> HIDE DEF G
  <2>2. QED
    BY <1>2, <2>1
<1> HIDE DEF G
<1>10. QED
  BY <1>6, <1>7, <1>8, <1>9 DEF G

(* With all windows folded but the focused one, which keeps its floor, the  *)
(* plan takes 2 * n + 3 lines at most.                                      *)
LEMMA AllFoldedFit ==
    ASSUME NEW n \in Nat, NEW at \in 0..n, NEW g \in [1..n -> Nat],
           \A i \in 1..n : g[i] <= (IF i < n THEN 2 ELSE 1) + (IF i = at THEN 4 ELSE 0)
    PROVE  Stacked(g) <= 2 * n + 3
<1> DEFINE titles == [i \in 1..n |-> IF i < n THEN 2 ELSE 1]
<1>1. IsFiniteSet(1..n) /\ Cardinality(1..n) = n /\ IsFiniteSet(1..2) /\ Cardinality(1..2) = 2
  <2>1. IsFiniteSet(1..n) /\ Cardinality(1..n) = n
    BY FS_Interval
  <2>2. IsFiniteSet(1..2) /\ Cardinality(1..2) = IF 1 > 2 THEN 0 ELSE 2 - 1 + 1
    <3>1. 1 \in Int /\ 2 \in Int
      OBVIOUS
    <3>2. QED
      BY <3>1, FS_Interval
  <2>3. QED
    BY <2>1, <2>2
<1>2. titles \in [1..n -> Nat]
  OBVIOUS
<1>3. Stacked(titles) <= IF n = 0 THEN 0 ELSE 2 * n - 1
  <2>1. LinesOf(titles) = ((1..n) \X (1..2)) \ {<<n, 2>>}
    <3>1. ASSUME NEW i \in 1..n, NEW l \in 1..titles[i]
          PROVE  <<i, l>> \in ((1..n) \X (1..2)) \ {<<n, 2>>}
      <4>1. CASE i < n
        BY <4>1
      <4>2. CASE i = n
        BY <4>2
      <4>3. QED
        BY <4>1, <4>2
    <3>2. ASSUME NEW i \in 1..n, NEW l \in 1..2, <<i, l>> # <<n, 2>>
          PROVE  l \in 1..titles[i]
      <4>1. CASE i < n
        BY <4>1
      <4>2. CASE i = n
        <5>1. l = 1
          BY <3>2, <4>2
        <5>2. QED
          BY <5>1, <4>2
      <4>3. QED
        BY <4>1, <4>2
    <3> HIDE DEF titles
    <3>3. ASSUME NEW p \in LinesOf(titles) PROVE p \in ((1..n) \X (1..2)) \ {<<n, 2>>}
      <4>1. PICK i \in 1..n : p \in {i} \X (1..titles[i])
        BY <1>2 DEF LinesOf
      <4>2. PICK l \in 1..titles[i] : p = <<i, l>>
        BY <4>1
      <4>3. QED
        BY <4>2, <3>1
    <3>4. ASSUME NEW p \in ((1..n) \X (1..2)) \ {<<n, 2>>} PROVE p \in LinesOf(titles)
      <4>1. PICK i \in 1..n, l \in 1..2 : p = <<i, l>>
        OBVIOUS
      <4>2. p \in {i} \X (1..titles[i])
        BY <3>2, <4>1
      <4>3. QED
        BY <4>2, <1>2 DEF LinesOf
    <3>5. QED
      BY <3>3, <3>4
  <2>2. IsFiniteSet((1..n) \X (1..2)) /\ Cardinality((1..n) \X (1..2)) = Cardinality(1..n) * Cardinality(1..2)
    BY <1>1, FS_Product
  <2>3. Cardinality((1..n) \X (1..2)) = 2 * n
    BY <1>1, <2>2
  <2> DEFINE block == (1..n) \X (1..2)
             corner == <<n, 2>>
  <2>4. Cardinality(block \ {corner})
          = IF corner \in block THEN Cardinality(block) - 1 ELSE Cardinality(block)
    <3> HIDE DEF block, corner
    <3>1. IsFiniteSet(block)
      BY <2>2 DEF block
    <3>2. QED
      BY <3>1, FS_RemoveElement
  <2>5. n # 0 => <<n, 2>> \in (1..n) \X (1..2)
    OBVIOUS
  <2>6. Stacked(titles) = Cardinality(LinesOf(titles))
    BY <1>1, <1>2, StackedIsNatural
  <2>7. n = 0 => <<n, 2>> \notin (1..n) \X (1..2)
    OBVIOUS
  <2>8. QED
    <3>1. Stacked(titles) = IF corner \in block THEN Cardinality(block) - 1 ELSE Cardinality(block)
      BY <2>1, <2>4, <2>6
    <3>2. Cardinality(block) = 2 * n /\ (corner \in block <=> n # 0)
      BY <2>3, <2>5, <2>7
    <3> HIDE DEF block, corner, titles
    <3>3. QED
      BY <3>1, <3>2
<1>4. \A i \in 1..n : g[i] <= (IF i \in 1..n THEN titles[i] ELSE 0) + (IF i = at THEN 4 ELSE 0)
  OBVIOUS
<1>5. Stacked(titles) \in Nat /\ Stacked(g) \in Nat
  BY <1>1, <1>2, StackedIsNatural
<1> HIDE DEF titles
<1>6. Stacked(g) <= Stacked(titles) + 4
  BY <1>1, <1>2, <1>4, OneGrows
<1>7. CASE n = 0
  <2>1. LinesOf(g) = {}
    BY <1>7 DEF LinesOf
  <2>2. Stacked(g) = 0
    BY <2>1, <1>1, FS_EmptySet, StackedIsNatural
  <2>3. QED
    BY <2>2, <1>7
<1>8. CASE n # 0
  BY <1>3, <1>5, <1>6, <1>8
<1>9. QED
  BY <1>7, <1>8

(* The order of folding has a first window among any.                       *)
LEMMA OneIsFoldedFirst ==
    ASSUME NEW n \in Nat, NEW at \in 0..n, NEW S, S \subseteq (1..n) \ {at}, S # {}
    PROVE  \E i \in S : \A j \in S \ {i} : FoldsBefore(at, i, j)
<1> DEFINE distance(k) == IF k > at THEN k - at ELSE at - k
           key(k) == IF at = 0 THEN n - k ELSE 2 * distance(k) + (IF k > at THEN 0 ELSE 1)
           keys == {key(k) : k \in S}
<1>1. \A k \in S : key(k) \in Nat
  OBVIOUS
<1> HIDE DEF key
<1>2. PICK m \in keys : \A k \in keys : m <= k
  <2>1. keys \subseteq Nat /\ keys # {}
    BY <1>1
  <2>2. QED
    BY <2>1, LeastOf
<1>3. PICK i \in S : m = key(i)
  OBVIOUS
<1>4. ASSUME NEW j \in S \ {i} PROVE FoldsBefore(at, i, j)
  <2>1. key(i) <= key(j)
    BY <1>2, <1>3
  <2>2. i \in Nat /\ j \in Nat /\ i # j /\ i # at /\ j # at /\ i <= n /\ j <= n
    OBVIOUS
  <2>3. QED
    BY <2>1, <2>2 DEF FoldsBefore, key
<1>5. QED
  BY <1>4

LEMMA CandidatesFit ==
    ASSUME NEW n \in Nat, NEW ws \in WindowsOf(n), NEW at \in 0..n,
           NEW A, A = {i \in 1..n : i # at /\ ~ws[i].folded}
    PROVE  Total(ws, [i \in 1..n |-> ws[i].folded \/ i \in A],
                     [i \in 1..n |-> IF i \in A THEN 0 ELSE FloorRows(ws[i])]) <= 2 * n + 3
<1> DEFINE folded == [i \in 1..n |-> ws[i].folded \/ i \in A]
           body == [i \in 1..n |-> IF i \in A THEN 0 ELSE FloorRows(ws[i])]
<1>1. folded \in [1..n -> BOOLEAN] /\ body \in [1..n -> Nat]
  BY Floored
<1>2. ASSUME NEW i \in 1..n
      PROVE  (i # at => folded[i]) /\ body[i] \in 0..3
  <2>1. FloorRows(ws[i]) \in 1..3
    BY Floored
  <2>2. body[i] = IF i \in A THEN 0 ELSE FloorRows(ws[i])
    OBVIOUS
  <2>3. body[i] \in 0..3
    BY <2>1, <2>2
  <2>4. i # at => folded[i]
    OBVIOUS
  <2>5. QED
    BY <2>3, <2>4
<1> HIDE DEF folded, body
<1> DEFINE lines == CostLines(n, ws, folded, body)
<1>3. lines \in [1..n -> Nat] /\ Total(ws, folded, body) = Stacked(lines)
  BY <1>1, Costs
<1>4. ASSUME NEW i \in 1..n
      PROVE  lines[i] <= (IF i < n THEN 2 ELSE 1) + (IF i = at THEN 4 ELSE 0)
  <2>1. lines[i] = (IF folded[i] THEN 1 ELSE 2 + body[i]) + (IF i < n THEN 1 ELSE 0)
    BY <1>1, Costs
  <2> HIDE DEF lines
  <2>2. QED
    BY <1>2, <2>1
<1> HIDE DEF lines
<1>5. Stacked(lines) <= 2 * n + 3
  BY <1>3, <1>4, AllFoldedFit
<1>6. QED
  BY <1>3, <1>5 DEF folded, body

LEMMA AutoFoldedFits ==
    ASSUME NEW n \in Nat, NEW ws \in WindowsOf(n), NEW at \in 0..n,
           NEW height \in Nat, 2 * n + 3 <= height
    PROVE  LET A == AutoFolded(ws, at, height) IN
           /\ A \subseteq {i \in 1..n : i # at /\ ~ws[i].folded}
           /\ Total(ws, [i \in 1..n |-> ws[i].folded \/ i \in A],
                        [i \in 1..n |-> IF i \in A THEN 0 ELSE FloorRows(ws[i])]) <= height
<1> DEFINE candidates == {i \in 1..n : i # at /\ ~ws[i].folded}
           upTo(i) == {j \in candidates : j = i \/ FoldsBefore(at, j, i)}
           cost(F) == Total(ws, [i \in 1..n |-> ws[i].folded \/ i \in F],
                                [i \in 1..n |-> IF i \in F THEN 0 ELSE FloorRows(ws[i])])
           enough == {i \in candidates : cost(upTo(i)) <= height}
           first == CHOOSE i \in enough : \A j \in enough \ {i} : FoldsBefore(at, i, j)
           A == AutoFolded(ws, at, height)
<1>1. DOMAIN ws = 1..n
  BY DEF WindowsOf
<1>2. A = IF enough = {} THEN candidates ELSE upTo(first)
  BY <1>1 DEF AutoFolded, Windows
<1>3. CASE enough # {}
  <2>1. enough \subseteq (1..n) \ {at}
    OBVIOUS
  <2> HIDE DEF enough
  <2>2. first \in enough
    BY <1>3, <2>1, OneIsFoldedFirst
  <2>3. first \in candidates /\ cost(upTo(first)) <= height
    BY <2>2 DEF enough
  <2> HIDE DEF cost, first
  <2>4. A = upTo(first)
    BY <1>2, <1>3
  <2>5. upTo(first) \subseteq candidates
    OBVIOUS
  <2> HIDE DEF A, upTo
  <2>6. A \subseteq candidates /\ cost(A) <= height
    BY <2>3, <2>4, <2>5
  <2>7. QED
    BY <2>6 DEF cost, A
<1>4. CASE enough = {}
  <2>1. A = candidates
    BY <1>2, <1>4
  <2> HIDE DEF A, enough
  <2>2. cost(A) <= 2 * n + 3
    BY <2>1, CandidatesFit
  <2>3. cost(A) \in Nat
    <3>1. [i \in 1..n |-> ws[i].folded \/ i \in A] \in [1..n -> BOOLEAN]
      OBVIOUS
    <3>2. [i \in 1..n |-> IF i \in A THEN 0 ELSE FloorRows(ws[i])] \in [1..n -> Nat]
      BY Floored
    <3>3. QED
      BY <3>1, <3>2, Costs
  <2>4. cost(A) <= height
    <3> HIDE DEF cost
    <3>1. QED
      BY <2>2, <2>3
  <2>5. QED
    BY <2>1, <2>4 DEF A
<1>5. QED
  BY <1>3, <1>4

(* Whatever the planner decides fits, and shows of a window that is not     *)
(* folded its floor at least; the focused one is folded by its user only.   *)
LEMMA PlanFits ==
    ASSUME NEW n \in Nat, NEW ws \in WindowsOf(n), NEW at \in 0..n,
           NEW height \in Nat, 2 * n + 3 <= height
    PROVE  LET P == Plan(ws, at, height) IN
           /\ P.folded \in [1..n -> BOOLEAN] /\ P.body \in [1..n -> Nat]
           /\ Total(ws, P.folded, P.body) <= height
           /\ \A i \in 1..n : ~P.folded[i] => P.body[i] >= FloorRows(ws[i])
           /\ at # 0 /\ ~ws[at].folded => ~P.folded[at]
<1> DEFINE user == [i \in 1..n |-> ws[i].folded]
           natural == [i \in 1..n |-> ws[i].rows]
           floorOf == [i \in 1..n |-> FloorRows(ws[i])]
           atFloor == Total(ws, user, floorOf)
           growth == Growth(ws, at, height - atFloor)
           auto == AutoFolded(ws, at, height)
           folded == [i \in 1..n |-> ws[i].folded \/ i \in auto]
           floors == [i \in 1..n |-> IF i \in auto THEN 0 ELSE FloorRows(ws[i])]
           surplus == AtLeast(height - Total(ws, folded, floors), 0)
           grown == [i \in 1..n |->
                       IF i = at /\ ~ws[i].folded
                       THEN floors[i] + AtMost(ws[i].rows - floors[i], surplus) ELSE floors[i]]
           P == Plan(ws, at, height)
           Good(body, shut) ==
               /\ shut \in [1..n -> BOOLEAN] /\ body \in [1..n -> Nat]
               /\ Total(ws, shut, body) <= height
               /\ \A i \in 1..n : ~shut[i] => body[i] >= FloorRows(ws[i])
               /\ at # 0 /\ ~ws[at].folded => ~shut[at]
<1>1. /\ user \in [1..n -> BOOLEAN] /\ natural \in [1..n -> Nat] /\ floorOf \in [1..n -> Nat]
      /\ \A i \in 1..n : /\ user[i] = ws[i].folded /\ natural[i] = ws[i].rows
                         /\ floorOf[i] = FloorRows(ws[i])
  BY Floored
<1>2. P = CASE Total(ws, user, natural) <= height -> [body |-> natural, folded |-> user]
            [] Total(ws, user, natural) > height /\ atFloor <= height ->
                  [body |-> growth, folded |-> user]
            [] OTHER -> [body |-> grown, folded |-> folded]
  <2>1. DOMAIN ws = 1..n
    BY DEF WindowsOf
  <2>2. FoldedByUser(ws) = user /\ Natural(ws) = natural /\ Floors(ws) = floorOf
    BY <2>1 DEF FoldedByUser, Natural, Floors, Windows
  <2>3. /\ [i \in Windows(ws) |-> FoldedByUser(ws)[i] \/ i \in auto] = folded
        /\ [i \in Windows(ws) |-> IF i \in auto THEN 0 ELSE FloorRows(ws[i])] = floors
    BY <2>1, <2>2, <1>1 DEF Windows
  <2> HIDE DEF folded, floors, auto
  <2>4. [i \in Windows(ws) |-> IF i = at /\ ~FoldedByUser(ws)[i]
            THEN floors[i] + AtMost(ws[i].rows - floors[i], surplus) ELSE floors[i]] = grown
    BY <2>1, <2>2, <1>1 DEF Windows
  <2> HIDE DEF grown, surplus, user, natural, floorOf, growth
  <2>5. QED
    BY <2>2, <2>3, <2>4 DEF Plan, folded, floors, auto, grown, surplus, growth
<1>3. Total(ws, user, natural) \in Nat /\ atFloor \in Nat
  <2> HIDE DEF user, natural, floorOf
  <2>1. QED
    BY <1>1, Costs
<1>4. CASE Total(ws, user, natural) <= height
  <2>1. P.body = natural /\ P.folded = user
    <3> HIDE DEF user, natural, growth, grown, folded, P, atFloor
    <3>1. P = [body |-> natural, folded |-> user]
      BY <1>2, <1>3, <1>4
    <3>2. QED
      BY <3>1
  <2>2. \A i \in 1..n : natural[i] >= FloorRows(ws[i])
    BY Floored
  <2>3. at # 0 => at \in 1..n
    OBVIOUS
  <2> HIDE DEF P, user, natural
  <2>4. QED
    BY <1>1, <1>4, <2>1, <2>2, <2>3 DEF P
<1>5. CASE Total(ws, user, natural) > height /\ atFloor <= height
  <2>1. P.body = growth /\ P.folded = user
    <3> HIDE DEF user, natural, growth, grown, folded, P
    <3>1. P = [body |-> growth, folded |-> user]
      BY <1>2, <1>3, <1>5
    <3>2. QED
      BY <3>1
  <2> DEFINE extra == Beyond(n, ws, growth)
             before == CostLines(n, ws, user, floorOf)
             after == CostLines(n, ws, user, growth)
  <2>2. height - atFloor \in Nat
    <3> HIDE DEF atFloor
    <3>1. QED
      BY <1>3, <1>5
  <2>3. /\ growth \in [1..n -> Nat] /\ \A i \in 1..n : growth[i] >= FloorRows(ws[i])
        /\ extra \in [1..n -> Nat] /\ Stacked(extra) <= height - atFloor
    <3> HIDE DEF atFloor
    <3>1. QED
      BY <2>2, GrowthFits
  <2> HIDE DEF user, floorOf, growth, P
  <2>4. /\ before \in [1..n -> Nat] /\ atFloor = Stacked(before)
        /\ \A i \in 1..n : before[i] = (IF user[i] THEN 1 ELSE 2 + floorOf[i]) + (IF i < n THEN 1 ELSE 0)
    BY <1>1, Costs
  <2>5. /\ after \in [1..n -> Nat] /\ Total(ws, user, growth) = Stacked(after)
        /\ \A i \in 1..n : after[i] = (IF user[i] THEN 1 ELSE 2 + growth[i]) + (IF i < n THEN 1 ELSE 0)
    BY <1>1, <2>3, Costs
  <2>6. ASSUME NEW i \in 1..n PROVE after[i] <= before[i] + extra[i]
    <3>1. extra[i] = growth[i] - floorOf[i] /\ growth[i] >= floorOf[i]
      BY <1>1, <2>3 DEF Beyond
    <3>2. floorOf[i] \in Nat /\ growth[i] \in Nat
      BY <1>1, <2>3
    <3> HIDE DEF after, before, extra
    <3>3. /\ before[i] = (IF user[i] THEN 1 ELSE 2 + floorOf[i]) + (IF i < n THEN 1 ELSE 0)
          /\ after[i] = (IF user[i] THEN 1 ELSE 2 + growth[i]) + (IF i < n THEN 1 ELSE 0)
      BY <2>4, <2>5
    <3>4. CASE user[i]
      BY <3>1, <3>2, <3>3, <3>4
    <3>5. CASE ~user[i]
      BY <3>1, <3>2, <3>3, <3>5
    <3>6. QED
      BY <3>4, <3>5
  <2>7. Stacked(after) <= height
    <3> HIDE DEF after, before, extra, atFloor
    <3>1. IsFiniteSet(1..n)
      BY FS_Interval
    <3>2. Stacked(after) <= Stacked(before) + Stacked(extra)
      BY <2>3, <2>4, <2>5, <2>6, <3>1, StackedAdds
    <3>3. Stacked(after) \in Nat /\ Stacked(before) \in Nat /\ Stacked(extra) \in Nat
      BY <2>3, <2>4, <2>5, <3>1, StackedIsNatural
    <3>4. QED
      BY <2>3, <2>4, <3>2, <3>3
  <2>8. at # 0 => at \in 1..n
    OBVIOUS
  <2>9. QED
    BY <1>1, <2>1, <2>3, <2>5, <2>7, <2>8 DEF P
<1>6. CASE Total(ws, user, natural) > height /\ atFloor > height
  <2>1. P.body = grown /\ P.folded = folded
    <3> HIDE DEF user, natural, growth, grown, folded, P, atFloor
    <3>1. P = [body |-> grown, folded |-> folded]
      BY <1>2, <1>3, <1>6
    <3>2. QED
      BY <3>1
  <2>2. /\ auto \subseteq {i \in 1..n : i # at /\ ~ws[i].folded}
        /\ Total(ws, folded, floors) <= height
    BY AutoFoldedFits
  <2> HIDE DEF auto, P
  <2>3. /\ folded \in [1..n -> BOOLEAN] /\ floors \in [1..n -> Nat]
        /\ \A i \in 1..n : ~folded[i] => floors[i] = FloorRows(ws[i])
        /\ \A i \in 1..n : floors[i] <= ws[i].rows
        /\ at # 0 /\ ~ws[at].folded => at \in 1..n /\ ~folded[at]
    <3>1. \A i \in 1..n : floors[i] \in Nat /\ floors[i] <= ws[i].rows
      BY Floored
    <3>2. \A i \in 1..n : ~folded[i] => floors[i] = FloorRows(ws[i])
      OBVIOUS
    <3>3. at # 0 /\ ~ws[at].folded => at \in 1..n /\ ~folded[at]
      <4>1. at # 0 => at \in 1..n /\ at \notin auto
        BY <2>2
      <4>2. at \in 1..n => folded[at] = (ws[at].folded \/ at \in auto)
        OBVIOUS
      <4> HIDE DEF folded
      <4>3. QED
        BY <4>1, <4>2
    <3>4. folded \in [1..n -> BOOLEAN] /\ floors \in [1..n -> Nat]
      BY <3>1
    <3>5. QED
      BY <3>1, <3>2, <3>3, <3>4
  <2> HIDE DEF folded, floors
  <2>4. Total(ws, folded, floors) \in Nat
    BY <2>3, Costs
  <2>5. surplus = height - Total(ws, folded, floors) /\ surplus \in Nat
    BY <2>2, <2>4 DEF AtLeast
  <2> HIDE DEF surplus
  <2>6. ASSUME NEW i \in 1..n
        PROVE  /\ grown[i] \in Nat /\ grown[i] >= floors[i]
               /\ grown[i] <= floors[i] + (IF i = at THEN surplus ELSE 0)
    <3>1. ws[i].rows \in Nat /\ floors[i] \in Nat /\ floors[i] <= ws[i].rows
      BY <2>3, Floored
    <3>2. grown[i] = IF i = at /\ ~ws[i].folded
                     THEN floors[i] + AtMost(ws[i].rows - floors[i], surplus) ELSE floors[i]
      OBVIOUS
    <3>3. QED
      BY <2>5, <3>1, <3>2 DEF AtMost
  <2>7. grown \in [1..n -> Nat]
    BY <2>6
  <2> HIDE DEF grown
  <2> DEFINE before == CostLines(n, ws, folded, floors)
             after == CostLines(n, ws, folded, grown)
  <2>8. /\ before \in [1..n -> Nat] /\ Total(ws, folded, floors) = Stacked(before)
        /\ \A i \in 1..n : before[i] = (IF folded[i] THEN 1 ELSE 2 + floors[i]) + (IF i < n THEN 1 ELSE 0)
    BY <2>3, Costs
  <2>9. /\ after \in [1..n -> Nat] /\ Total(ws, folded, grown) = Stacked(after)
        /\ \A i \in 1..n : after[i] = (IF folded[i] THEN 1 ELSE 2 + grown[i]) + (IF i < n THEN 1 ELSE 0)
    BY <2>3, <2>7, Costs
  <2> HIDE DEF before, after
  <2>10. ASSUME NEW i \in 1..n
         PROVE  after[i] <= (IF i \in 1..n THEN before[i] ELSE 0) + (IF i = at THEN surplus ELSE 0)
    <3>1. /\ before[i] = (IF folded[i] THEN 1 ELSE 2 + floors[i]) + (IF i < n THEN 1 ELSE 0)
          /\ after[i] = (IF folded[i] THEN 1 ELSE 2 + grown[i]) + (IF i < n THEN 1 ELSE 0)
      BY <2>8, <2>9
    <3>2. floors[i] \in Nat /\ grown[i] \in Nat
          /\ grown[i] <= floors[i] + (IF i = at THEN surplus ELSE 0)
      BY <2>3, <2>6
    <3>3. CASE folded[i]
      BY <2>5, <3>1, <3>2, <3>3
    <3>4. CASE ~folded[i]
      BY <2>5, <3>1, <3>2, <3>4
    <3>5. QED
      BY <3>3, <3>4
  <2>11. Stacked(after) <= height
    <3>1. IsFiniteSet(1..n)
      BY FS_Interval
    <3>2. Stacked(after) <= Stacked(before) + surplus
      BY <2>5, <2>8, <2>9, <2>10, <3>1, OneGrows
    <3>3. Stacked(after) \in Nat /\ Stacked(before) \in Nat
      BY <2>8, <2>9, <3>1, StackedIsNatural
    <3>4. QED
      BY <2>5, <2>8, <3>2, <3>3
  <2>12. \A i \in 1..n : ~folded[i] => grown[i] >= FloorRows(ws[i])
    BY <2>3, <2>6
  <2>13. QED
    BY <2>1, <2>3, <2>7, <2>9, <2>11, <2>12 DEF P
<1>7. QED
  <2> HIDE DEF user, natural, floorOf, atFloor, P
  <2>1. QED
    BY <1>3, <1>4, <1>5, <1>6

----------------------------------------------------------------------------
(* A list around its selected row.                                          *)

(* A list with three lines or with room for all of its rows shows the       *)
(* selected one and keeps to its lines, hints included.                     *)
LEMMA ListShowsSelected ==
    ASSUME NEW total \in Nat, NEW sel \in Nat, NEW body \in Nat,
           sel < total, body >= 3 \/ body >= total
    PROVE  /\ sel \in RowsOnScreen(total, sel, body)
           /\ BodyLines(total, sel, body) \in Nat
           /\ BodyLines(total, sel, body) <= body
<1> DEFINE half == body \div 2
           raw == AtLeast(sel - half, 0)
           end == IF total <= body THEN total ELSE AtMost(raw + body, total)
           start == IF total <= body THEN 0
                    ELSE IF raw + body > total THEN AtLeast(total - body, 0) ELSE raw
           first == IF start > 0 THEN AtMost(start + 1, sel) ELSE 0
           last == IF end < total THEN AtLeast(end - 1, first) ELSE end
           visible == RowsOnScreen(total, sel, body)
<1>1. visible = first..(last - 1)
  BY DEF RowsOnScreen
<1>2. half \in Nat /\ 2 * half <= body /\ body <= 2 * half + 1
  OBVIOUS
<1> HIDE DEF half
<1>3. raw \in Nat /\ (raw = IF sel >= half THEN sel - half ELSE 0)
  BY <1>2 DEF AtLeast
<1> HIDE DEF raw
<1>4. /\ start \in Nat /\ end \in Nat
      /\ end = IF total <= body \/ raw + body > total THEN total ELSE raw + body
      /\ start = IF total <= body THEN 0 ELSE IF raw + body > total THEN total - body ELSE raw
  BY <1>3 DEF AtLeast, AtMost
<1> HIDE DEF start, end
<1>5. first \in Nat /\ first = IF start = 0 THEN 0 ELSE IF start + 1 <= sel THEN start + 1 ELSE sel
  BY <1>4 DEF AtMost
<1> HIDE DEF first
<1>6. last \in Int /\ last = IF end < total THEN IF end - 1 >= first THEN end - 1 ELSE first ELSE end
  BY <1>4, <1>5 DEF AtLeast
<1> HIDE DEF last
<1>7. /\ first <= sel /\ sel <= last - 1
      /\ (last - first) + (IF first = 0 THEN 0 ELSE 1) + (IF last = total THEN 0 ELSE 1) <= body
  <2>1. CASE total <= body
    BY <1>4, <1>5, <1>6, <2>1
  <2>2. CASE total > body /\ raw + body > total
    BY <1>2, <1>3, <1>4, <1>5, <1>6, <2>2
  <2>3. CASE total > body /\ raw + body <= total
    BY <1>2, <1>3, <1>4, <1>5, <1>6, <2>3
  <2>4. QED
    BY <1>3, <2>1, <2>2, <2>3
<1>8. last <= total
  BY <1>3, <1>4, <1>5, <1>6
<1>9. sel \in visible
  BY <1>1, <1>5, <1>6, <1>7
<1>10. Cardinality(visible) = last - first
  <2>1. first \in Int /\ last - 1 \in Int /\ ~(first > last - 1)
    BY <1>5, <1>6, <1>7
  <2>2. Cardinality(first..(last - 1)) = IF first > last - 1 THEN 0 ELSE (last - 1) - first + 1
    BY <2>1, FS_Interval
  <2>3. QED
    BY <1>1, <2>1, <2>2, <1>5, <1>6
<1>11. /\ visible # {}
       /\ 0 \in visible <=> first = 0
       /\ (total - 1) \in visible <=> last = total
  BY <1>1, <1>5, <1>6, <1>7, <1>8, <1>9
<1>12. BodyLines(total, sel, body) = (last - first) + (IF first = 0 THEN 0 ELSE 1)
                                                    + (IF last = total THEN 0 ELSE 1)
  <2>1. BodyLines(total, sel, body) = Cardinality(visible) + (IF 0 \in visible \/ visible = {} THEN 0 ELSE 1)
                                       + (IF (total - 1) \in visible THEN 0 ELSE 1)
    BY DEF BodyLines
  <2> HIDE DEF visible
  <2>2. QED
    BY <2>1, <1>10, <1>11
<1>13. last - first \in Nat
  BY <1>5, <1>6, <1>7
<1>14. QED
  BY <1>7, <1>9, <1>12, <1>13

----------------------------------------------------------------------------
(* Windows and their rows.                                                  *)

WindowType ==
    [label : DOMAIN Listings \cup {"Processes"}, nodes : Seq(Nodes), failed : BOOLEAN,
     filter : Patterns \cup {0}, sel : Nat, sort : {0, 1}, tree : BOOLEAN, folded : BOOLEAN]

RowCount(w) == Cardinality(Places(w))

(* The selected row is one of the window's, as long as it has any.          *)
SoundWindows == {w \in WindowType : RowCount(w) > 0 => w.sel < RowCount(w)}

LEMMA RowsAreCounted ==
    ASSUME NEW w \in WindowType
    PROVE  /\ RowCount(w) \in Nat
           /\ Len(Rows(w)) = RowCount(w) /\ DOMAIN Rows(w) = 1..RowCount(w)
           /\ Rows(w) # <<>> => RowCount(w) > 0
<1> DEFINE children(k) == IF w.tree /\ Hierarchical(w) THEN DOMAIN w.nodes[k].children ELSE {}
           block(k) == {k} \X ({0} \cup children(k))
           blocks == {block(k) : k \in Kept(w)}
           blockOf == [k \in Kept(w) |-> block(k)]
<1>1. IsFiniteSet(Kept(w)) /\ Kept(w) \subseteq 1..Len(w.nodes) /\ w.nodes \in Seq(Nodes)
  <2>1. w.nodes \in Seq(Nodes) /\ Len(w.nodes) \in Nat /\ DOMAIN w.nodes = 1..Len(w.nodes)
    BY DEF WindowType
  <2>2. Kept(w) \subseteq 1..Len(w.nodes)
    BY <2>1 DEF Kept
  <2>3. 1 \in Int /\ Len(w.nodes) \in Int
    BY <2>1
  <2>4. IsFiniteSet(1..Len(w.nodes))
    BY <2>3, FS_Interval
  <2>5. QED
    BY <2>1, <2>2, <2>4, FS_Subset
<1>2. ASSUME NEW k \in Kept(w) PROVE IsFiniteSet(block(k))
  <2>1. w.nodes[k] \in Nodes
    BY <1>1
  <2>2. /\ w.nodes[k].children \in Seq([name : Nat, kind : STRING])
    BY <2>1 DEF Nodes
  <2>3. /\ Len(w.nodes[k].children) \in Nat
        /\ DOMAIN w.nodes[k].children = 1..Len(w.nodes[k].children)
    BY <2>2
  <2>4. IsFiniteSet(1..Len(w.nodes[k].children))
    <3>1. 1 \in Int /\ Len(w.nodes[k].children) \in Int
      BY <2>3
    <3>2. QED
      BY <3>1, FS_Interval
  <2>5. IsFiniteSet(children(k))
    BY <2>3, <2>4, FS_EmptySet
  <2> HIDE DEF children
  <2>6. IsFiniteSet({0} \cup children(k))
    <3>1. IsFiniteSet(children(k) \cup {0})
      BY <2>5, FS_AddElement
    <3>2. {0} \cup children(k) = children(k) \cup {0}
      OBVIOUS
    <3>3. QED
      BY <3>1, <3>2
  <2>7. IsFiniteSet({k})
    BY FS_Singleton
  <2>8. QED
    BY <2>6, <2>7, FS_Product
<1> HIDE DEF block
<1>3. blockOf \in Surjection(Kept(w), blocks)
  BY DEF Surjection
<1>4. IsFiniteSet(blocks)
  BY <1>1, <1>3, FS_Surjection
<1>5. IsFiniteSet(UNION blocks)
  BY <1>2, <1>4, FS_UNION
<1>6. Places(w) = UNION blocks
  BY DEF Places, block
<1>7. RowCount(w) \in Nat
  BY <1>5, <1>6, FS_CardinalityType DEF RowCount
<1>8. DOMAIN Rows(w) = 1..RowCount(w) /\ Rows(w) = [k \in 1..RowCount(w) |-> Rows(w)[k]]
  BY DEF Rows, RowCount
<1>9. Rows(w) \in Seq({Rows(w)[k] : k \in DOMAIN Rows(w)})
  BY <1>7, <1>8
<1>10. Len(Rows(w)) = RowCount(w)
  BY <1>7, <1>8, <1>9
<1>11. QED
  BY <1>7, <1>8, <1>9, <1>10

(* Neither the selection nor the order changes how many rows there are.     *)
LEMMA SameRows ==
    ASSUME NEW v, NEW w, v.label = w.label, v.nodes = w.nodes, v.filter = w.filter, v.tree = w.tree
    PROVE  RowCount(v) = RowCount(w)
BY DEF RowCount, Places, Kept, Hierarchical

(* The selection a tree comes back with is a row.                           *)
LEMMA NamedRowIsARow ==
    ASSUME NEW w \in WindowType, NEW name
    PROVE  /\ IndexOfRowNamed(Rows(w), name) \in Nat
           /\ RowCount(w) > 0 => IndexOfRowNamed(Rows(w), name) < RowCount(w)
<1> DEFINE named == {k \in DOMAIN Rows(w) : Rows(w)[k].name = name}
<1>1. RowCount(w) \in Nat /\ named \subseteq 1..RowCount(w)
  BY RowsAreCounted
<1>2. CASE named = {}
  BY <1>1, <1>2 DEF IndexOfRowNamed
<1>3. CASE named # {}
  <2> HIDE DEF named
  <2>1. \E m \in named : \A k \in named : m <= k
    <3>1. named \subseteq Nat
      BY <1>1
    <3>2. QED
      BY <1>3, <3>1, LeastOf
  <2>2. Min(named) \in named
    BY <2>1 DEF Min
  <2>3. IndexOfRowNamed(Rows(w), name) = Min(named) - 1
    BY <1>3 DEF IndexOfRowNamed, named
  <2>4. Min(named) \in 1..RowCount(w) /\ RowCount(w) \in Nat
    BY <1>1, <2>2
  <2>5. ASSUME NEW c \in Nat, NEW m \in 1..c PROVE m - 1 \in Nat /\ m - 1 < c
    OBVIOUS
  <2>6. QED
    BY <2>3, <2>4, <2>5
<1>4. QED
  BY <1>2, <1>3

----------------------------------------------------------------------------
(* The screen.                                                              *)

(* The inductive invariant: every window's selection is one of its rows,    *)
(* and there are never more windows than the screen has room for.           *)
ScreenInv ==
    /\ wins \in Seq(SoundWindows)
    /\ \A i \in DOMAIN wins : IsProcs(wins[i]) <=> i = Len(wins) /\ procs > 0
    /\ procs \in 0..MaxProcs
    /\ focus \in 0..Len(wins)
    /\ filtering \in BOOLEAN
    /\ loads \in 0..MaxLoads
    /\ 2 * (Len(wins) + (IF procs > 0 THEN 0 ELSE 1)) + 3 <= Height

LEMMA NewWindowIsSound ==
    ASSUME NEW l \in DOMAIN Listings \cup {"Processes"}
    PROVE  Window(l) \in SoundWindows /\ Window(l).label = l
<1>1. Window(l) \in WindowType /\ Window(l).label = l
  BY DEF Window, WindowType
<1>2. Window(l).sel = 0 /\ RowCount(Window(l)) \in Nat
  BY <1>1, RowsAreCounted DEF Window
<1>3. QED
  BY <1>1, <1>2 DEF SoundWindows

(* A window that another one with the same label takes the place of.        *)
LEMMA OneWindowChanges ==
    ASSUME ScreenInv, focus \in DOMAIN wins, NEW w \in SoundWindows, w.label = wins[focus].label,
           wins' = [wins EXCEPT ![focus] = w], filtering' \in BOOLEAN,
           UNCHANGED <<procs, focus, loads>>
    PROVE  ScreenInv'
<1>1. /\ wins \in Seq(SoundWindows) /\ Len(wins) \in Nat /\ DOMAIN wins = 1..Len(wins)
      /\ focus \in 1..Len(wins)
  BY DEF ScreenInv
<1>2. wins' \in Seq(SoundWindows) /\ Len(wins') = Len(wins) /\ DOMAIN wins' = DOMAIN wins
  BY <1>1
<1>3. \A i \in DOMAIN wins : wins'[i].label = wins[i].label
  BY <1>1
<1>4. QED
  BY <1>1, <1>2, <1>3 DEF ScreenInv, IsProcs

(* What a key does to the focused window.                                   *)
LEMMA KeysKeepScreen ==
    ScreenInv /\ (\/ \E delta \in {-1, 1} : MoveSel(delta)
                  \/ Fold \/ CycleSort \/ ToggleTree \/ EscFilter \/ TypeFilter)
    => ScreenInv'
<1> SUFFICES ASSUME ScreenInv,
                    \/ \E delta \in {-1, 1} : MoveSel(delta)
                    \/ Fold \/ CycleSort \/ ToggleTree \/ EscFilter \/ TypeFilter
             PROVE  ScreenInv'
  OBVIOUS
<1>1. /\ wins \in Seq(SoundWindows) /\ Len(wins) \in Nat /\ DOMAIN wins = 1..Len(wins)
      /\ focus \in 0..Len(wins) /\ filtering \in BOOLEAN
  BY DEF ScreenInv
<1>2. focus \in DOMAIN wins /\ UNCHANGED <<procs, focus, loads>>
  BY <1>1 DEF MoveSel, Fold, CycleSort, ToggleTree, EscFilter, TypeFilter, InPane, InFilter,
              ObjectsFocused
<1>3. filtering' \in BOOLEAN
  BY <1>1 DEF MoveSel, Fold, CycleSort, ToggleTree, EscFilter, TypeFilter
<1> DEFINE w == wins[focus]
<1>4. w \in SoundWindows
  BY <1>1, <1>2
<1>5. w \in WindowType /\ (RowCount(w) > 0 => w.sel < RowCount(w)) /\ RowCount(w) \in Nat
  BY <1>4, RowsAreCounted DEF SoundWindows
<1>6. ASSUME NEW v \in SoundWindows, v.label = w.label, wins' = [wins EXCEPT ![focus] = v]
      PROVE  ScreenInv'
  BY <1>2, <1>3, <1>6, OneWindowChanges
<1>7. ASSUME NEW v \in WindowType, v.sel = 0 PROVE v \in SoundWindows
  BY <1>7, RowsAreCounted DEF SoundWindows
<1>8. ASSUME NEW delta \in {-1, 1}, MoveSel(delta) PROVE ScreenInv'
  <2> DEFINE last == Len(Rows(w)) - 1
             to == w.sel + delta
             sel == IF to < 0 THEN 0 ELSE IF to > last THEN last ELSE to
             v == [w EXCEPT !.sel = sel]
  <2>1. wins' = [wins EXCEPT ![focus] = v] /\ last >= 0
    BY <1>2, <1>8 DEF MoveSel, Focused
  <2>2. sel \in Nat /\ sel < RowCount(w)
    BY <1>5, <2>1, RowsAreCounted DEF WindowType
  <2> HIDE DEF sel, w
  <2>3. /\ v \in WindowType /\ v.label = w.label /\ v.nodes = w.nodes /\ v.filter = w.filter
        /\ v.tree = w.tree /\ v.sel = sel
    BY <1>5, <2>2 DEF WindowType
  <2> HIDE DEF v
  <2>4. v \in SoundWindows
    BY <2>2, <2>3, SameRows DEF SoundWindows
  <2>5. QED
    BY <1>6, <2>1, <2>3, <2>4
<1>9. CASE Fold
  <2>1. PICK b \in BOOLEAN : wins' = [wins EXCEPT ![focus] = [w EXCEPT !.folded = b]]
    BY <1>2, <1>5, <1>9 DEF Fold, WindowType
  <2> DEFINE v == [w EXCEPT !.folded = b]
  <2> HIDE DEF w
  <2>2. /\ v \in WindowType /\ v.label = w.label /\ v.nodes = w.nodes /\ v.filter = w.filter
        /\ v.tree = w.tree /\ v.sel = w.sel
    BY <1>5 DEF WindowType
  <2>3. wins' = [wins EXCEPT ![focus] = v]
    BY <2>1
  <2> HIDE DEF v
  <2>4. v \in SoundWindows
    BY <1>5, <2>2, SameRows DEF SoundWindows
  <2>5. QED
    BY <1>6, <2>2, <2>3, <2>4
<1>10. CASE CycleSort
  <2>1. PICK s \in {0, 1} : wins' = [wins EXCEPT ![focus] = [w EXCEPT !.sort = s, !.sel = 0]]
    <3>1. w.sort \in {0, 1}
      BY <1>5 DEF WindowType
    <3>2. (IF Focused.nodes = <<>> THEN 0 ELSE 1 - w.sort) \in {0, 1}
      BY <3>1
    <3>3. wins' = [wins EXCEPT ![focus] = [w EXCEPT !.sort = IF Focused.nodes = <<>> THEN 0 ELSE 1 - @,
                                                    !.sel = 0]]
      BY <1>10, <1>2 DEF CycleSort
    <3>4. QED
      BY <3>2, <3>3
  <2> DEFINE v == [w EXCEPT !.sort = s, !.sel = 0]
  <2> HIDE DEF w
  <2>2. v \in WindowType /\ v.label = w.label /\ v.sel = 0
    BY <1>5 DEF WindowType
  <2>3. wins' = [wins EXCEPT ![focus] = v]
    BY <2>1
  <2> HIDE DEF v
  <2>4. QED
    BY <1>6, <1>7, <2>2, <2>3
<1>11. CASE ToggleTree
  <2> DEFINE toggled == [w EXCEPT !.tree = ~@]
             name == IF HasSelection THEN Selected.name ELSE 0
             sel == IndexOfRowNamed(Rows(toggled), name)
             v == [toggled EXCEPT !.sel = sel]
  <2>1. wins' = [wins EXCEPT ![focus] = v]
    BY <1>11 DEF ToggleTree, Focused
  <2> HIDE DEF w, name
  <2>2. toggled \in WindowType /\ toggled.label = w.label
    BY <1>5 DEF WindowType
  <2> HIDE DEF toggled
  <2>3. sel \in Nat /\ (RowCount(toggled) > 0 => sel < RowCount(toggled))
    BY <2>2, NamedRowIsARow
  <2> HIDE DEF sel
  <2>4. /\ v \in WindowType /\ v.label = w.label /\ v.nodes = toggled.nodes
        /\ v.filter = toggled.filter /\ v.tree = toggled.tree /\ v.sel = sel
        /\ v.label = toggled.label
    BY <2>2, <2>3 DEF WindowType
  <2> HIDE DEF v
  <2>5. v \in SoundWindows
    BY <2>3, <2>4, SameRows DEF SoundWindows
  <2>6. QED
    BY <1>6, <2>1, <2>4, <2>5
<1>12. CASE EscFilter \/ TypeFilter
  <2>1. PICK p \in Patterns \cup {0} :
            wins' = [wins EXCEPT ![focus] = [w EXCEPT !.filter = p, !.sel = 0]]
    BY <1>12, <1>2 DEF EscFilter, TypeFilter
  <2> DEFINE v == [w EXCEPT !.filter = p, !.sel = 0]
  <2> HIDE DEF w
  <2>2. v \in WindowType /\ v.label = w.label /\ v.sel = 0
    BY <1>5 DEF WindowType
  <2>3. wins' = [wins EXCEPT ![focus] = v]
    BY <2>1
  <2> HIDE DEF v
  <2>4. QED
    BY <1>6, <1>7, <2>2, <2>3
<1>13. QED
  BY <1>8, <1>9, <1>10, <1>11, <1>12

(* A load brings the selection back into the list it puts in place.         *)
LEMMA LoadsKeepScreen == ScreenInv /\ ObjectsDone => ScreenInv'
<1> SUFFICES ASSUME ScreenInv, ObjectsDone PROVE ScreenInv'
  OBVIOUS
<1>1. /\ wins \in Seq(SoundWindows) /\ Len(wins) \in Nat /\ DOMAIN wins = 1..Len(wins)
      /\ \A i \in DOMAIN wins : IsProcs(wins[i]) <=> i = Len(wins) /\ procs > 0
  BY DEF ScreenInv
<1> DEFINE fresh(w, nodes) == [w EXCEPT !.nodes = nodes, !.failed = FALSE]
           rows(w, nodes) == Len(Rows(fresh(w, nodes)))
           back(w, nodes) ==
               [fresh(w, nodes) EXCEPT !.sel = IF @ < rows(w, nodes) THEN @
                                               ELSE IF rows(w, nodes) > 0
                                                    THEN rows(w, nodes) - 1 ELSE 0]
           answers(w) == IF IsProcs(w) THEN {w}
                         ELSE {back(w, l) : l \in Listings[w.label]}
                              \cup {[back(w, <<>>) EXCEPT !.failed = TRUE]}
<1>2. ASSUME NEW w \in WindowType, NEW nodes \in Seq(Nodes)
      PROVE  back(w, nodes) \in SoundWindows /\ back(w, nodes).label = w.label
  <2>1. fresh(w, nodes) \in WindowType /\ fresh(w, nodes).label = w.label
    BY DEF WindowType
  <2>2. rows(w, nodes) = RowCount(fresh(w, nodes)) /\ rows(w, nodes) \in Nat
    BY <2>1, RowsAreCounted
  <2> DEFINE f == fresh(w, nodes)
             n == rows(w, nodes)
             sel == IF f.sel < n THEN f.sel ELSE IF n > 0 THEN n - 1 ELSE 0
             v == [f EXCEPT !.sel = sel]
  <2>3. back(w, nodes) = v
    OBVIOUS
  <2> HIDE DEF f, n
  <2>4. f.sel \in Nat
    BY <2>1 DEF WindowType, f
  <2>5. sel \in Nat /\ (n > 0 => sel < n)
    BY <2>2, <2>4 DEF n
  <2> HIDE DEF sel
  <2>6. /\ v \in WindowType /\ v.label = w.label /\ v.label = f.label /\ v.nodes = f.nodes
        /\ v.filter = f.filter /\ v.tree = f.tree /\ v.sel = sel
    BY <2>1, <2>5 DEF WindowType, f
  <2> HIDE DEF v, fresh, back
  <2>7. RowCount(v) = RowCount(f)
    BY <2>6, SameRows
  <2>8. v \in SoundWindows
    BY <2>2, <2>5, <2>6, <2>7 DEF SoundWindows, f, n
  <2>9. QED
    BY <2>3, <2>6, <2>8
<1> HIDE DEF back
<1>3. ASSUME NEW w \in SoundWindows, NEW a \in answers(w)
      PROVE  a \in SoundWindows /\ a.label = w.label
  <2>1. CASE IsProcs(w)
    BY <2>1
  <2>2. CASE ~IsProcs(w)
    <3>1. w \in WindowType /\ w.label \in DOMAIN Listings
      BY <2>2 DEF SoundWindows, WindowType, IsProcs
    <3>2. CASE a \in {back(w, l) : l \in Listings[w.label]}
      <4>1. PICK l \in Listings[w.label] : a = back(w, l)
        BY <3>2
      <4>2. l \in Seq(Nodes)
        BY <3>1, <4>1, SidebarAssumption
      <4>3. QED
        BY <1>2, <3>1, <4>1, <4>2
    <3>3. CASE a = [back(w, <<>>) EXCEPT !.failed = TRUE]
      <4>1. <<>> \in Seq(Nodes)
        OBVIOUS
      <4> DEFINE b == back(w, <<>>)
      <4>2. b \in SoundWindows /\ b.label = w.label
        BY <1>2, <3>1, <4>1
      <4> HIDE DEF b
      <4>3. b \in WindowType /\ (RowCount(b) > 0 => b.sel < RowCount(b))
        BY <4>2 DEF SoundWindows
      <4>4. a = [b EXCEPT !.failed = TRUE]
        BY <3>3 DEF b
      <4>5. /\ a \in WindowType /\ a.label = b.label /\ a.nodes = b.nodes /\ a.filter = b.filter
            /\ a.tree = b.tree /\ a.sel = b.sel
        BY <4>3, <4>4 DEF WindowType
      <4>6. RowCount(a) = RowCount(b)
        BY <4>5, SameRows
      <4>7. QED
        BY <4>2, <4>3, <4>5, <4>6 DEF SoundWindows
    <3>4. QED
      BY <2>2, <3>2, <3>3
  <2>3. QED
    BY <2>1, <2>2
<1>4. /\ wins' = [i \in DOMAIN wins |-> wins'[i]]
      /\ \A i \in DOMAIN wins : wins'[i] \in answers(wins[i])
      /\ loads > 0 /\ loads' = loads - 1 /\ UNCHANGED <<procs, focus, filtering>>
  BY DEF ObjectsDone, back
<1> HIDE DEF answers
<1>5. \A i \in DOMAIN wins : wins'[i] \in SoundWindows /\ wins'[i].label = wins[i].label
  BY <1>1, <1>3, <1>4
<1>6. wins' \in Seq(SoundWindows) /\ Len(wins') = Len(wins) /\ DOMAIN wins' = DOMAIN wins
  BY <1>1, <1>4, <1>5
<1>7. loads' \in 0..MaxLoads
  BY <1>4, SidebarAssumption DEF ScreenInv
<1>8. QED
  BY <1>1, <1>4, <1>5, <1>6, <1>7 DEF ScreenInv, IsProcs

(* The window of processes comes and goes at the end, and its place on the  *)
(* screen is kept for it.                                                   *)
LEMMA ProcessesKeepScreen == ScreenInv /\ (ProcessStarts \/ ProcessRemoved) => ScreenInv'
<1> SUFFICES ASSUME ScreenInv, ProcessStarts \/ ProcessRemoved PROVE ScreenInv'
  OBVIOUS
<1>1. /\ wins \in Seq(SoundWindows) /\ Len(wins) \in Nat /\ DOMAIN wins = 1..Len(wins)
      /\ \A i \in DOMAIN wins : IsProcs(wins[i]) <=> i = Len(wins) /\ procs > 0
      /\ procs \in 0..MaxProcs /\ focus \in 0..Len(wins) /\ filtering \in BOOLEAN
      /\ loads \in 0..MaxLoads /\ MaxProcs \in Nat \ {0} /\ Height \in Nat
      /\ 2 * (Len(wins) + (IF procs > 0 THEN 0 ELSE 1)) + 3 <= Height
  BY SidebarAssumption, HeightAssumption DEF ScreenInv
<1>2. UNCHANGED <<filtering, loads>>
  BY DEF ProcessStarts, ProcessRemoved
<1>3. CASE ProcessStarts
  <2>1. procs' = procs + 1 /\ procs' \in 0..MaxProcs /\ focus' = focus /\ procs < MaxProcs
    BY <1>1, <1>3 DEF ProcessStarts
  <2>2. CASE procs = 0
    <3>1. wins' = Append(wins, Window("Processes"))
      BY <1>3, <2>2 DEF ProcessStarts
    <3>2. Window("Processes") \in SoundWindows /\ IsProcs(Window("Processes"))
      BY NewWindowIsSound DEF IsProcs
    <3>3. /\ wins' \in Seq(SoundWindows) /\ Len(wins') = Len(wins) + 1
          /\ DOMAIN wins' = 1..(Len(wins) + 1)
          /\ \A i \in 1..Len(wins) : wins'[i] = wins[i]
          /\ wins'[Len(wins) + 1] = Window("Processes")
      BY <1>1, <3>1, <3>2
    <3>4. ASSUME NEW i \in DOMAIN wins'
          PROVE  IsProcs(wins'[i]) <=> i = Len(wins') /\ procs' > 0
      <4>1. CASE i \in 1..Len(wins)
        <5>1. ~IsProcs(wins[i]) /\ i # Len(wins')
          BY <1>1, <2>2, <3>3, <4>1
        <5>2. QED
          BY <3>3, <4>1, <5>1
      <4>2. CASE i = Len(wins) + 1
        BY <1>1, <2>1, <3>2, <3>3, <4>2
      <4>3. QED
        BY <1>1, <3>3, <4>1, <4>2
    <3>5. /\ procs' > 0 /\ focus' \in 0..Len(wins')
          /\ 2 * (Len(wins') + (IF procs' > 0 THEN 0 ELSE 1)) + 3 <= Height
      BY <1>1, <2>1, <2>2, <3>3
    <3>6. QED
      BY <1>1, <1>2, <2>1, <3>3, <3>4, <3>5 DEF ScreenInv
  <2>3. CASE procs # 0
    <3>1. wins' = wins /\ procs' > 0 /\ procs > 0
      BY <1>1, <1>3, <2>1, <2>3 DEF ProcessStarts
    <3>2. QED
      BY <1>1, <1>2, <2>1, <3>1 DEF ScreenInv
  <2>4. QED
    BY <2>2, <2>3
<1>4. CASE ProcessRemoved
  <2>1. /\ focus \in DOMAIN wins /\ IsProcs(wins[focus]) /\ procs > 0 /\ focus = Len(wins)
        /\ procs' = procs - 1
    <3>1. focus # 0 /\ IsProcs(wins[focus]) /\ procs' = procs - 1
      BY <1>4 DEF ProcessRemoved, Focused
    <3>2. focus \in DOMAIN wins
      BY <1>1, <3>1
    <3>3. QED
      BY <1>1, <3>1, <3>2
  <2>2. procs' \in 0..MaxProcs
    BY <1>1, <2>1
  <2>3. CASE procs = 1
    <3>1. wins' = Front(wins) /\ focus' = 0 /\ procs' = 0
      BY <1>4, <2>1, <2>3 DEF ProcessRemoved
    <3>2. /\ wins' \in Seq(SoundWindows) /\ Len(wins') = Len(wins) - 1
          /\ DOMAIN wins' = 1..(Len(wins) - 1) /\ Len(wins) - 1 \in Nat
          /\ \A i \in 1..(Len(wins) - 1) : wins'[i] = wins[i]
      <4>1. wins' = [i \in 1..(Len(wins) - 1) |-> wins[i]]
        BY <3>1 DEF Front
      <4>2. Len(wins) - 1 \in Nat
        BY <1>1, <2>1
      <4>3. wins' \in [1..(Len(wins) - 1) -> SoundWindows]
        BY <1>1, <4>1, <4>2
      <4>4. wins' \in Seq(SoundWindows)
        BY <4>2, <4>3
      <4>5. QED
        BY <4>1, <4>2, <4>4
    <3>3. \A i \in DOMAIN wins' : ~IsProcs(wins'[i])
      BY <1>1, <3>2
    <3>4. /\ focus' \in 0..Len(wins') /\ ~(procs' > 0)
          /\ 2 * (Len(wins') + (IF procs' > 0 THEN 0 ELSE 1)) + 3 <= Height
      BY <1>1, <2>1, <3>1, <3>2
    <3>5. QED
      BY <1>1, <1>2, <2>2, <3>2, <3>3, <3>4 DEF ScreenInv
  <2>4. CASE procs # 1
    <3>1. wins' = wins /\ focus' = focus /\ procs' > 0
      BY <1>1, <1>4, <2>1, <2>4 DEF ProcessRemoved
    <3>2. QED
      BY <1>1, <1>2, <2>1, <2>2, <3>1 DEF ScreenInv
  <2>5. QED
    BY <2>3, <2>4
<1>5. QED
  BY <1>3, <1>4

LEMMA ScreenInit == Init => ScreenInv
<1> SUFFICES ASSUME Init PROVE ScreenInv
  OBVIOUS
<1>1. PICK s \in Screens : wins = [i \in DOMAIN s |-> Window(s[i])]
  BY DEF Init
<1>2. s \in Seq(DOMAIN Listings) /\ Len(s) \in Nat /\ DOMAIN s = 1..Len(s)
  BY SidebarAssumption
<1>3. \A i \in DOMAIN s : Window(s[i]) \in SoundWindows /\ ~IsProcs(Window(s[i]))
  <2>1. \A i \in DOMAIN s : s[i] \in DOMAIN Listings
    BY <1>2
  <2>2. QED
    BY <2>1, NewWindowIsSound, SidebarAssumption DEF IsProcs
<1>4. wins \in Seq(SoundWindows) /\ Len(wins) = Len(s) /\ DOMAIN wins = 1..Len(s)
  BY <1>1, <1>2, <1>3
<1>5. 2 * (Len(s) + 1) + 3 <= Height
  BY HeightAssumption
<1>6. /\ procs = 0 /\ focus = 0 /\ filtering = FALSE /\ loads = 1
      /\ MaxProcs \in Nat \ {0} /\ MaxLoads \in Nat \ {0}
  BY SidebarAssumption DEF Init
<1>7. \A i \in DOMAIN wins : ~IsProcs(wins[i])
  BY <1>1, <1>2, <1>3, <1>4
<1>8. \A i \in DOMAIN wins : IsProcs(wins[i]) <=> i = Len(wins) /\ procs > 0
  BY <1>6, <1>7
<1>9. /\ procs \in 0..MaxProcs /\ focus \in 0..Len(wins) /\ filtering \in BOOLEAN
      /\ loads \in 0..MaxLoads
  <2>1. 0 \in 0..MaxProcs /\ 0 \in 0..Len(s) /\ 1 \in 0..MaxLoads
    BY <1>2, SidebarAssumption
  <2>2. QED
    BY <1>4, <1>6, <2>1
<1>10. 2 * (Len(wins) + (IF procs > 0 THEN 0 ELSE 1)) + 3 <= Height
  BY <1>4, <1>5, <1>6
<1>11. QED
  BY <1>4, <1>8, <1>9, <1>10 DEF ScreenInv

LEMMA ScreenStep == ScreenInv /\ [Next]_vars => ScreenInv'
<1> SUFFICES ASSUME ScreenInv, [Next]_vars PROVE ScreenInv'
  OBVIOUS
<1>1. ASSUME UNCHANGED <<wins, procs>>, focus' \in 0..Len(wins), filtering' \in BOOLEAN,
             loads' \in 0..MaxLoads
      PROVE  ScreenInv'
  BY <1>1 DEF ScreenInv
<1>2. /\ focus \in 0..Len(wins) /\ Len(wins) \in Nat /\ filtering \in BOOLEAN
      /\ loads \in 0..MaxLoads /\ MaxLoads \in Nat \ {0}
  BY SidebarAssumption DEF ScreenInv
<1>3. ASSUME NEW forward \in BOOLEAN, CycleFocus(forward) PROVE ScreenInv'
  <2>1. ASSUME NEW m \in Nat PROVE m % (Len(wins) + 1) \in 0..Len(wins)
    BY <1>2
  <2>2. focus' \in 0..Len(wins)
    <3>1. CASE forward
      <4>1. focus' = (focus + 1) % (Len(wins) + 1) /\ focus + 1 \in Nat
        BY <1>2, <1>3, <3>1 DEF CycleFocus
      <4>2. QED
        BY <2>1, <4>1
    <3>2. CASE ~forward
      <4>1. focus' = (focus + (Len(wins) + 1 - 1)) % (Len(wins) + 1)
            /\ focus + (Len(wins) + 1 - 1) \in Nat
        BY <1>2, <1>3, <3>2 DEF CycleFocus
      <4>2. QED
        BY <2>1, <4>1
    <3>3. QED
      BY <3>1, <3>2
  <2>3. UNCHANGED <<wins, procs, filtering, loads>>
    BY <1>3 DEF CycleFocus
  <2>4. QED
    BY <1>1, <1>2, <2>2, <2>3
<1>4. CASE BackToChat
  BY <1>1, <1>2, <1>4 DEF BackToChat
<1>5. CASE \/ \E delta \in {-1, 1} : MoveSel(delta)
           \/ Fold \/ CycleSort \/ ToggleTree \/ EscFilter \/ TypeFilter
  BY <1>5, KeysKeepScreen
<1>6. CASE StartFilter \/ EndFilter
  BY <1>1, <1>2, <1>6 DEF StartFilter, EndFilter
<1>7. CASE OpenPrompt \/ TypeIntoPrompt \/ EscPrompt \/ ConfirmPrompt \/ ActAtOnce
  BY <1>1, <1>2, <1>7 DEF OpenPrompt, TypeIntoPrompt, EscPrompt, ConfirmPrompt, ActAtOnce, screen
<1>8. CASE ActionDone \/ StartLoad
  <2>1. loads' \in 0..MaxLoads /\ UNCHANGED <<wins, procs, focus, filtering>>
    BY <1>2, <1>8 DEF ActionDone, StartLoad, Load, screen
  <2>2. QED
    BY <1>1, <1>2, <2>1
<1>9. CASE ObjectsDone
  BY <1>9, LoadsKeepScreen
<1>10. CASE ProcessStarts \/ ProcessRemoved
  BY <1>10, ProcessesKeepScreen
<1>11. CASE UNCHANGED vars
  BY <1>1, <1>2, <1>11 DEF vars
<1>12. QED
  BY <1>3, <1>4, <1>5, <1>6, <1>7, <1>8, <1>9, <1>10, <1>11 DEF Next

(* What is drawn, by the plan.                                              *)
LEMMA DrawnFits ==
    ASSUME ScreenInv
    PROVE  \E ws \in WindowsOf(Len(wins)) :
             /\ \A i \in DOMAIN wins : /\ ws[i].rows = NaturalRows(wins[i])
                                       /\ ws[i].folded = wins[i].folded
             /\ Drawn = Plan(ws, focus, Height)
             /\ 2 * Len(wins) + 3 <= Height /\ Height \in Nat
             /\ Drawn.folded \in [1..Len(wins) -> BOOLEAN] /\ Drawn.body \in [1..Len(wins) -> Nat]
             /\ Total(ws, Drawn.folded, Drawn.body) <= Height
             /\ \A i \in 1..Len(wins) : ~Drawn.folded[i] => Drawn.body[i] >= FloorRows(ws[i])
             /\ focus # 0 /\ ~ws[focus].folded => ~Drawn.folded[focus]
<1>1. /\ Len(wins) \in Nat /\ DOMAIN wins = 1..Len(wins) /\ wins \in Seq(SoundWindows)
      /\ focus \in 0..Len(wins) /\ procs \in Nat /\ Height \in Nat
      /\ 2 * (Len(wins) + (IF procs > 0 THEN 0 ELSE 1)) + 3 <= Height
  BY SidebarAssumption, HeightAssumption DEF ScreenInv
<1> DEFINE ws == [i \in DOMAIN wins |-> [rows |-> NaturalRows(wins[i]), folded |-> wins[i].folded]]
<1>2. ASSUME NEW i \in DOMAIN wins
      PROVE  NaturalRows(wins[i]) \in Nat \ {0} /\ wins[i].folded \in BOOLEAN
  <2>1. wins[i] \in WindowType
    BY <1>1 DEF SoundWindows
  <2>2. Len(Rows(wins[i])) \in Nat
    BY <2>1, RowsAreCounted
  <2>3. QED
    BY <1>1, <2>1, <2>2 DEF NaturalRows, WindowType
<1>3. ws \in WindowsOf(Len(wins))
  BY <1>1, <1>2 DEF WindowsOf
<1>4. Drawn = Plan(ws, focus, Height)
  BY DEF Drawn
<1>5. \A i \in DOMAIN wins : ws[i].rows = NaturalRows(wins[i]) /\ ws[i].folded = wins[i].folded
  OBVIOUS
<1> HIDE DEF ws
<1>6. 2 * Len(wins) + 3 <= Height
  BY <1>1
<1> DEFINE D == Plan(ws, focus, Height)
<1>7. /\ D.folded \in [1..Len(wins) -> BOOLEAN] /\ D.body \in [1..Len(wins) -> Nat]
      /\ Total(ws, D.folded, D.body) <= Height
      /\ \A i \in 1..Len(wins) : ~D.folded[i] => D.body[i] >= FloorRows(ws[i])
      /\ focus # 0 /\ ~ws[focus].folded => ~D.folded[focus]
  BY <1>1, <1>3, <1>6, PlanFits
<1> HIDE DEF D
<1>8. Drawn = D
  BY <1>4 DEF D
<1>9. QED
  BY <1>1, <1>3, <1>4, <1>5, <1>6, <1>7, <1>8

(* The body of a window that is not folded keeps to the lines planned for   *)
(* it, but for the filter being typed.                                      *)
LEMMA BodyKeepsToPlan ==
    ASSUME ScreenInv, NEW i \in DOMAIN wins, ~Drawn.folded[i]
    PROVE  /\ BodyOf(i) \in Nat /\ Drawn.body[i] \in Nat
           /\ BodyOf(i) <= Drawn.body[i] + (IF i = focus /\ filtering THEN 1 ELSE 0)
           /\ ~IsProcs(wins[i]) /\ Rows(wins[i]) # <<>> =>
                wins[i].sel \in RowsOnScreen(Len(Rows(wins[i])), wins[i].sel, Drawn.body[i])
<1>1. /\ Len(wins) \in Nat /\ DOMAIN wins = 1..Len(wins) /\ wins \in Seq(SoundWindows)
      /\ filtering \in BOOLEAN
  BY DEF ScreenInv
<1>2. PICK ws \in WindowsOf(Len(wins)) :
             /\ \A j \in DOMAIN wins : ws[j].rows = NaturalRows(wins[j])
             /\ Drawn.body \in [1..Len(wins) -> Nat]
             /\ \A j \in 1..Len(wins) : ~Drawn.folded[j] => Drawn.body[j] >= FloorRows(ws[j])
  BY DrawnFits
<1> DEFINE w == wins[i]
           n == Len(Rows(w))
           b == Drawn.body[i]
<1>3. w \in WindowType /\ (RowCount(w) > 0 => w.sel < RowCount(w)) /\ n = RowCount(w) /\ n \in Nat
      /\ (Rows(w) # <<>> => n > 0) /\ w.sel \in Nat /\ w.failed \in BOOLEAN
  <2>1. w \in SoundWindows
    BY <1>1
  <2> HIDE DEF w
  <2>2. w \in WindowType /\ (RowCount(w) > 0 => w.sel < RowCount(w))
    BY <2>1 DEF SoundWindows
  <2>3. QED
    BY <2>2, RowsAreCounted DEF WindowType
<1>4. /\ b \in Nat /\ b >= FloorRows(ws[i])
      /\ FloorRows(ws[i]) \in 1..3 /\ (FloorRows(ws[i]) = 3 \/ FloorRows(ws[i]) = ws[i].rows)
      /\ ws[i].rows = NaturalRows(w)
  BY <1>1, <1>2, Floored
<1>5. ~IsProcs(w) /\ n > 0 => /\ w.sel \in RowsOnScreen(n, w.sel, b)
                              /\ BodyLines(n, w.sel, b) \in Nat /\ BodyLines(n, w.sel, b) <= b
  <2> SUFFICES ASSUME ~IsProcs(w), n > 0
               PROVE  /\ w.sel \in RowsOnScreen(n, w.sel, b)
                      /\ BodyLines(n, w.sel, b) \in Nat /\ BodyLines(n, w.sel, b) <= b
    OBVIOUS
  <2>1. NaturalRows(w) = n
    BY <1>3 DEF NaturalRows
  <2> HIDE DEF w, n, b
  <2>2. b >= 3 \/ b >= n
    BY <1>3, <1>4, <2>1
  <2>3. w.sel < n /\ w.sel \in Nat /\ n \in Nat /\ b \in Nat
    BY <1>3, <1>4
  <2>4. QED
    BY <2>2, <2>3, ListShowsSelected
<1>6. BodyOf(i) = CASE IsProcs(w) -> b
                    [] ~IsProcs(w) /\ (n = 0 \/ w.failed) -> 1
                    [] OTHER -> BodyLines(n, w.sel, b) + (IF focus = i /\ filtering THEN 1 ELSE 0)
  BY DEF BodyOf
<1>7. (n = 0 => ~(Rows(w) # <<>>)) /\ b >= 1
  <2> HIDE DEF w, n, b
  <2>1. QED
    BY <1>3, <1>4
<1> HIDE DEF w, n, b
<1>8. BodyOf(i) \in Nat /\ BodyOf(i) <= b + (IF i = focus /\ filtering THEN 1 ELSE 0)
  <2>1. CASE IsProcs(w)
    BY <1>4, <1>6, <2>1
  <2>2. CASE ~IsProcs(w) /\ (n = 0 \/ w.failed)
    BY <1>4, <1>6, <1>7, <2>2
  <2>3. CASE ~IsProcs(w) /\ ~(n = 0 \/ w.failed)
    <3>1. BodyOf(i) = BodyLines(n, w.sel, b) + (IF focus = i /\ filtering THEN 1 ELSE 0)
      BY <1>6, <2>3
    <3>2. n > 0
      BY <1>3, <2>3
    <3>3. QED
      BY <1>4, <1>5, <2>3, <3>1, <3>2
  <2>4. QED
    BY <2>1, <2>2, <2>3
<1>9. QED
  BY <1>3, <1>4, <1>5, <1>8 DEF w, n, b

(* The selection of a focused list (moveSel, indexOfRowNamed, objectsMsg):  *)
(* whatever is loaded, filtered, sorted, folded or unfolded, the row the    *)
(* keys act on exists and is drawn, for any lists and any screen that has   *)
(* room for the titles and three rows.                                      *)
THEOREM SelectionStaysOnScreen == Spec => []SelectionOnScreen
<1>1. ScreenInv => TypeOK
  <2> SUFFICES ASSUME ScreenInv PROVE TypeOK
    OBVIOUS
  <2>1. wins \in Seq(SoundWindows) /\ DOMAIN wins = 1..Len(wins)
    BY DEF ScreenInv
  <2>2. ASSUME NEW i \in DOMAIN wins PROVE WindowOK(wins[i])
    BY <2>1 DEF SoundWindows, WindowType, WindowOK
  <2>3. QED
    BY <2>2 DEF ScreenInv, TypeOK
<1>2. ScreenInv => SelectionOnScreen
  <2> SUFFICES ASSUME ScreenInv, ObjectsFocused, ~Focused.folded, Rows(Focused) # <<>>
               PROVE  /\ ~Drawn.folded[focus]
                      /\ Focused.sel \in RowsOnScreen(Len(Rows(Focused)), Focused.sel, Drawn.body[focus])
    BY <1>1 DEF SelectionOnScreen
  <2>1. focus # 0 /\ focus \in DOMAIN wins /\ ~IsProcs(wins[focus])
    BY DEF ScreenInv, ObjectsFocused, Focused
  <2>2. ~Drawn.folded[focus]
    BY <2>1, DrawnFits DEF Focused
  <2>3. QED
    BY <2>1, <2>2, BodyKeepsToPlan DEF Focused
<1>3. QED
  BY <1>2, ScreenInit, ScreenStep, PTL DEF Spec

(* The planner (renderSidebar): the sidebar keeps to the screen for any     *)
(* number of windows and rows, wherever the focus is and whatever the user  *)
(* has folded; the line of the filter being typed is what it leaves out.    *)
THEOREM SidebarFits == Spec => []FitsTheScreen
<1>1. ScreenInv => FitsTheScreen
  <2> SUFFICES ASSUME ScreenInv PROVE FitsTheScreen
    OBVIOUS
  <2>1. /\ Len(wins) \in Nat /\ DOMAIN wins = 1..Len(wins) /\ filtering \in BOOLEAN
        /\ focus \in 0..Len(wins) /\ Height \in Nat
    BY HeightAssumption DEF ScreenInv
  <2> DEFINE n == Len(wins)
             k == IF filtering THEN 1 ELSE 0
             drawn == [i \in DOMAIN wins |-> SectionLines(i)]
  <2>2. PICK ws \in WindowsOf(n) :
               /\ Drawn.folded \in [1..n -> BOOLEAN] /\ Drawn.body \in [1..n -> Nat]
               /\ Total(ws, Drawn.folded, Drawn.body) <= Height
    BY DrawnFits
  <2> DEFINE planned == CostLines(n, ws, Drawn.folded, Drawn.body)
  <2>3. /\ planned \in [1..n -> Nat] /\ Total(ws, Drawn.folded, Drawn.body) = Stacked(planned)
        /\ \A i \in 1..n : planned[i] = (IF Drawn.folded[i] THEN 1 ELSE 2 + Drawn.body[i])
                                         + (IF i < n THEN 1 ELSE 0)
    BY <2>1, <2>2, Costs
  <2> HIDE DEF planned
  <2>4. ASSUME NEW i \in 1..n
        PROVE  /\ drawn[i] \in Nat
               /\ drawn[i] <= (IF i \in 1..n THEN planned[i] ELSE 0) + (IF i = focus THEN k ELSE 0)
    <3>1. drawn[i] = (IF Drawn.folded[i] THEN 1 ELSE 2 + BodyOf(i)) + (IF i < n THEN 1 ELSE 0)
      BY <2>1 DEF SectionLines
    <3>2. Drawn.body[i] \in Nat
      BY <2>2
    <3>3. CASE Drawn.folded[i]
      BY <2>1, <2>3, <3>1, <3>3
    <3>4. CASE ~Drawn.folded[i]
      <4>1. BodyOf(i) \in Nat /\ BodyOf(i) <= Drawn.body[i] + (IF i = focus THEN k ELSE 0)
        BY <2>1, <3>4, BodyKeepsToPlan
      <4>2. QED
        BY <2>1, <2>3, <3>1, <3>2, <3>4, <4>1
    <3>5. QED
      BY <3>3, <3>4
  <2>5. drawn \in [1..n -> Nat]
    BY <2>1, <2>4
  <2>6. SidebarLines = Stacked(drawn)
    BY DEF SidebarLines
  <2> HIDE DEF drawn
  <2>7. k \in Nat /\ IsFiniteSet(1..n)
    BY <2>1, FS_Interval
  <2>8. Stacked(drawn) <= Stacked(planned) + k
    <3> HIDE DEF k
    <3>1. QED
      BY <2>3, <2>4, <2>5, <2>7, OneGrows
  <2>9. Stacked(drawn) \in Nat /\ Stacked(planned) \in Nat
    BY <2>3, <2>5, <2>7, StackedIsNatural
  <2>10. QED
    BY <2>1, <2>2, <2>3, <2>6, <2>7, <2>8, <2>9 DEF FitsTheScreen
<1>2. QED
  BY <1>1, ScreenInit, ScreenStep, PTL DEF Spec

----------------------------------------------------------------------------
(* The timers.                                                              *)

(* The inductive invariant: a timer that fires while retries are disabled   *)
(* is used up for nothing, so the screen must not be reconnecting then.     *)
TimersInv == U!ReconnectsOn /\ (reconnecting => ~disabled)

(* While it is reconnecting, every step that uses up a timer or a probe     *)
(* leaves the other one behind.                                             *)
LEMMA UpkeepStep == TimersInv /\ [U!Next]_(U!vars) => TimersInv'
<1> SUFFICES ASSUME TimersInv, [U!Next]_(U!vars) PROVE TimersInv'
  OBVIOUS
<1> DEFINE Conn == <<reconnecting, disabled, checked, unreachable, backoff, connTicks, probe>>
           Refresh == <<enabled, refreshing, gen, ticks, watchdogs, fetches>>
           ConnOn == /\ reconnecting \in BOOLEAN /\ disabled \in BOOLEAN
                     /\ checked \in BOOLEAN /\ unreachable \in BOOLEAN
                     /\ backoff \in 0..MaxBackoff
                     /\ connTicks \in 0..MaxTimers
                     /\ probe \subseteq {"first", "retry"}
                     /\ reconnecting => connTicks > 0 \/ "retry" \in probe
                     /\ reconnecting => ~disabled
           RefreshOK == /\ enabled \in BOOLEAN /\ refreshing \in BOOLEAN
                        /\ gen \in {0, 1}
                        /\ ticks \in 0..MaxTimers
                        /\ watchdogs \subseteq {"current", "old"}
                        /\ fetches \subseteq {"refresh", "plain"}
<1>a. ConnOn /\ RefreshOK
  BY DEF TimersInv, U!ReconnectsOn, U!TypeOK
<1>b. ConnOn' /\ RefreshOK' => TimersInv'
  BY DEF TimersInv, U!ReconnectsOn, U!TypeOK
<1>c. UNCHANGED Conn => ConnOn'
  BY <1>a
<1>d. UNCHANGED Refresh => RefreshOK'
  BY <1>a
<1>e. ASSUME NEW n \in 0..MaxTimers PROVE U!More(n) \in 0..MaxTimers /\ U!More(n) > 0
  BY MCSidebarAssumption DEF U!More
<1>g. ASSUME NEW pending, U!BeginRefresh(pending)
      PROVE  /\ refreshing' \in BOOLEAN /\ gen' \in {0, 1}
             /\ watchdogs' \subseteq {"current", "old"}
             /\ fetches' \subseteq {"refresh", "plain"}
  BY <1>a, <1>g DEF U!BeginRefresh
<1>1. ASSUME U!Tick PROVE ConnOn' /\ RefreshOK'
  <2>1. UNCHANGED Conn /\ enabled' = enabled
    BY <1>1 DEF U!Tick, U!conn
  <2>2. ticks' \in 0..MaxTimers
    BY <1>1, <1>a, MCSidebarAssumption DEF U!Tick
  <2>3. /\ refreshing' \in BOOLEAN /\ gen' \in {0, 1}
        /\ watchdogs' \subseteq {"current", "old"} /\ fetches' \subseteq {"refresh", "plain"}
    <3>1. CASE ~refreshing /\ enabled
      BY <1>1, <3>1, <1>g DEF U!Tick
    <3>2. CASE ~(~refreshing /\ enabled)
      BY <1>1, <3>2, <1>a DEF U!Tick
    <3>3. QED
      BY <3>1, <3>2
  <2>4. QED
    BY <2>1, <2>2, <2>3, <1>a, <1>c
<1>2. ASSUME NEW kind \in {"refresh", "plain"}, U!ObjectsDone(kind)
      PROVE  ConnOn' /\ RefreshOK'
  <2>1. UNCHANGED Conn /\ enabled' = enabled /\ gen' = gen /\ watchdogs' = watchdogs
    BY <1>2 DEF U!ObjectsDone, U!conn
  <2>2. ticks' \in 0..MaxTimers
    BY <1>2, <1>a, <1>e DEF U!ObjectsDone
  <2>3. refreshing' = FALSE /\ fetches' = fetches \ {kind}
    BY <1>2 DEF U!ObjectsDone
  <2>4. QED
    BY <2>1, <2>2, <2>3, <1>a, <1>c
<1>3. ASSUME NEW age \in {"current", "old"}, U!Watchdog(age)
      PROVE  ConnOn' /\ RefreshOK'
  <2>1. UNCHANGED Conn /\ enabled' = enabled /\ ticks' = ticks
    BY <1>3 DEF U!Watchdog, U!conn
  <2>2. /\ refreshing' \in BOOLEAN /\ gen' \in {0, 1}
        /\ watchdogs' \subseteq {"current", "old"} /\ fetches' \subseteq {"refresh", "plain"}
    <3>1. CASE refreshing /\ age = "current"
      BY <1>3, <3>1, <1>g DEF U!Watchdog
    <3>2. CASE ~(refreshing /\ age = "current")
      BY <1>3, <3>2, <1>a DEF U!Watchdog
    <3>3. QED
      BY <3>1, <3>2
  <2>3. QED
    BY <2>1, <2>2, <1>a, <1>c
<1>4. ASSUME U!PlainLoad \/ U!ProcDone \/ U!RefreshOff \/ U!RefreshOn
      PROVE  ConnOn' /\ RefreshOK'
  <2>1. UNCHANGED Conn /\ ticks' = ticks
    BY <1>4 DEF U!PlainLoad, U!ProcDone, U!RefreshOff, U!RefreshOn, U!conn
  <2>2. enabled' \in BOOLEAN
    BY <1>4, <1>a DEF U!PlainLoad, U!ProcDone, U!RefreshOff, U!RefreshOn
  <2>3. /\ refreshing' \in BOOLEAN /\ gen' \in {0, 1}
        /\ watchdogs' \subseteq {"current", "old"} /\ fetches' \subseteq {"refresh", "plain"}
    <3>1. CASE U!PlainLoad \/ U!RefreshOff
      BY <3>1, <1>a DEF U!PlainLoad, U!RefreshOff
    <3>2. CASE U!RefreshOn /\ ~enabled /\ ~refreshing
      BY <3>2, <1>g DEF U!RefreshOn
    <3>3. CASE U!RefreshOn /\ ~(~enabled /\ ~refreshing)
      BY <3>3, <1>a DEF U!RefreshOn
    <3>4. CASE U!ProcDone
      BY <3>4, <1>g DEF U!ProcDone
    <3>5. QED
      BY <1>4, <3>1, <3>2, <3>3, <3>4
  <2>4. QED
    BY <2>1, <2>2, <2>3, <1>a, <1>c
<1>5. ASSUME NEW ok \in BOOLEAN, U!ConnDone(ok) PROVE ConnOn' /\ RefreshOK'
  <2>1. UNCHANGED Refresh
    BY <1>5 DEF U!ConnDone, U!refresh
  <2>2. /\ probe' = probe \ {"first"} /\ checked' = TRUE /\ disabled' = disabled
        /\ unreachable' \in BOOLEAN
    BY <1>5 DEF U!ConnDone
  <2>3. \/ reconnecting' = reconnecting /\ backoff' = backoff /\ connTicks' = connTicks
        \/ ~disabled /\ reconnecting' = TRUE /\ backoff' = 0 /\ connTicks' = U!More(connTicks)
    BY <1>5 DEF U!ConnDone
  <2>4. CASE reconnecting' = reconnecting /\ backoff' = backoff /\ connTicks' = connTicks
    BY <2>1, <2>2, <2>4, <1>a, <1>d
  <2>5. CASE ~disabled /\ reconnecting' = TRUE /\ backoff' = 0 /\ connTicks' = U!More(connTicks)
    BY <2>1, <2>2, <2>5, <1>a, <1>d, <1>e, MCSidebarAssumption
  <2>6. QED
    BY <2>3, <2>4, <2>5
<1>6. ASSUME NEW ok \in BOOLEAN, U!ReconnectProbe(ok) PROVE ConnOn' /\ RefreshOK'
  <2>1. UNCHANGED Refresh /\ disabled' = disabled /\ probe' = probe \ {"retry"}
    BY <1>6 DEF U!ReconnectProbe, U!refresh
  <2>2. CASE ok
    BY <1>6, <2>1, <2>2, <1>a, <1>d DEF U!ReconnectProbe
  <2>3. CASE ~ok
    <3>1. /\ reconnecting' = reconnecting /\ unreachable' = unreachable /\ checked' = checked
          /\ connTicks' = U!More(connTicks)
      BY <1>6, <2>3 DEF U!ReconnectProbe
    <3>2. backoff' \in 0..MaxBackoff
      BY <1>6, <2>3, <1>a, MCSidebarAssumption DEF U!ReconnectProbe
    <3>3. QED
      BY <2>1, <3>1, <3>2, <1>a, <1>d, <1>e
  <2>4. QED
    BY <2>2, <2>3
<1>7. ASSUME NEW due \in BOOLEAN, U!ReconnectTick(due) PROVE ConnOn' /\ RefreshOK'
  <2>1. /\ UNCHANGED Refresh
        /\ reconnecting' = reconnecting /\ disabled' = disabled /\ checked' = checked
        /\ unreachable' = unreachable /\ backoff' = backoff
    BY <1>7 DEF U!ReconnectTick, U!refresh
  <2>2. CASE reconnecting /\ ~disabled /\ ~due
    <3>1. connTicks' = connTicks /\ probe' = probe
      BY <1>7, <2>2 DEF U!ReconnectTick
    <3>2. QED
      BY <2>1, <3>1, <1>a, <1>c, <1>d
  <2>3. CASE reconnecting /\ ~disabled /\ due
    <3>1. connTicks' = connTicks - 1 /\ probe' = probe \cup {"retry"} /\ connTicks > 0
      BY <1>7, <2>3 DEF U!ReconnectTick
    <3>2. connTicks' \in 0..MaxTimers
      BY <3>1, <1>a, MCSidebarAssumption
    <3>3. QED
      BY <2>1, <3>1, <3>2, <1>a, <1>d
  <2>4. CASE ~reconnecting
    <3>1. connTicks' = connTicks - 1 /\ probe' = probe /\ connTicks > 0
      BY <1>7, <2>4 DEF U!ReconnectTick
    <3>2. connTicks' \in 0..MaxTimers
      BY <3>1, <1>a, MCSidebarAssumption
    <3>3. QED
      BY <2>1, <2>4, <3>1, <3>2, <1>a, <1>d
  <2>5. QED
    BY <2>2, <2>3, <2>4, <1>a
<1>8. ASSUME U!Disconnect \/ U!Connect PROVE ConnOn' /\ RefreshOK'
  BY <1>8, <1>a, <1>d DEF U!Disconnect, U!Connect, U!refresh
<1>9. ASSUME UNCHANGED U!vars PROVE ConnOn' /\ RefreshOK'
  BY <1>9, <1>c, <1>d DEF U!vars, U!refresh, U!conn
<1>10. QED
  BY <1>1, <1>2, <1>3, <1>4, <1>5, <1>6, <1>7, <1>8, <1>9, <1>b DEF U!Next

(* The connection's back-off (cmd/aiconn.go): as long as the screen says it *)
(* is reconnecting a timer or a probe is pending, whatever /connect and     *)
(* /disconnect come between and however late the probes answer.             *)
THEOREM KeepsReconnecting == U!Spec => []ReconnectsOn
<1>1. ASSUME U!Init PROVE TimersInv
  <2>1. ticks \in 0..MaxTimers /\ 0 \in 0..MaxTimers /\ 0 \in 0..MaxBackoff
    BY <1>1, MCSidebarAssumption DEF U!Init
  <2>2. U!TypeOK
    BY <1>1, <2>1 DEF U!Init, U!TypeOK
  <2>3. QED
    BY <1>1, <2>2 DEF U!Init, U!ReconnectsOn, TimersInv
<1>2. TimersInv => ReconnectsOn
  BY DEF TimersInv, ReconnectsOn
<1>3. QED
  BY <1>1, <1>2, UpkeepStep, PTL DEF U!Spec

=============================================================================
