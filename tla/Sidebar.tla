------------------------------ MODULE Sidebar ------------------------------
(***************************************************************************)
(* The sidebar of the AI screen (cmd/aikeys.go, cmd/aisidebaractions.go,   *)
(* cmd/aituisidebar.go): windows that list the broker's objects, with a    *)
(* selection each, filtered, sorted and as a tree; the keys that act on    *)
(* the selected row, at once or after a prompt; and the loads that replace *)
(* the lists at any moment.                                                *)
(*                                                                         *)
(* Names are numbers, in alphabetical order; 0 is the empty name.  A       *)
(* filter is 0 or the one name it matches.                                 *)
(***************************************************************************)
EXTENDS Layout, Sequences, SequencesExt

CONSTANTS
    Screens,     \* the sidebars a broker declares (ManageSpec.Objects), sequences of labels
    Listings,    \* what the lists of each label return
    Patterns,    \* what the user filters by
    NewName,     \* what the user types into a prompt
    Abilities,   \* the operations the broker's ManageSpec has
    MaxProcs,    \* bound: background processes
    MaxLoads,    \* bound: loads in flight told apart
    Height       \* the sidebar's lines

Nodes == [name : Nat, kind : STRING, metric : Int, children : Seq([name : Nat, kind : STRING])]

ASSUME SidebarAssumption ==
    /\ NewName \in Nat \ {0}
    /\ MaxProcs \in Nat \ {0}
    /\ MaxLoads \in Nat \ {0}
    /\ 0 \notin Patterns
    /\ Screens \subseteq Seq(DOMAIN Listings)
    /\ "Processes" \notin DOMAIN Listings
    /\ \A l \in DOMAIN Listings : Listings[l] \subseteq Seq(Nodes)

(* The terminal is high enough for the titles of all windows, with those of *)
(* the processes, and three rows of the focused one: what the planner comes *)
(* down to (aituisidebar.go) and renderSidebar does not enforce.            *)
ASSUME HeightAssumption ==
    /\ Height \in Nat
    /\ \A s \in Screens : 2 * (Len(s) + 1) + 3 <= Height

VARIABLES
    wins,       \* objTypes
    procs,      \* how many background processes there are
    focus,      \* 0 for the chat, or the focused window
    filtering,  \* keys go to the filter
    loads,      \* loads of the lists in flight
    prompt,     \* the open prompt
    doing,      \* the action under way: what it does and on what
    shown       \* what the screen said it would do

vars == <<wins, procs, focus, filtering, loads, prompt, doing, shown>>

Nothing == [verb |-> "none", window |-> "none", name |-> 0, parent |-> 0, via |-> "none"]
NoPrompt == [kind |-> "none", win |-> 0, name |-> 0, target |-> 0, nodeKind |-> "none"]

Window(l) ==
    [label |-> l, nodes |-> <<>>, failed |-> FALSE, filter |-> 0, sel |-> 0,
     sort |-> 0, tree |-> FALSE, folded |-> FALSE]

Init ==
    /\ \E s \in Screens : wins = [i \in DOMAIN s |-> Window(s[i])]
    /\ procs = 0
    /\ focus = 0
    /\ filtering = FALSE
    /\ loads = 1
    /\ prompt = NoPrompt
    /\ doing = Nothing
    /\ shown = Nothing

----------------------------------------------------------------------------
(* Windows and their rows. *)

IsProcs(w) == w.label = "Processes"
Hierarchical(w) == w.label \in {"Topics", "Addresses", "Exchanges"}

(* The nodes that pass the filter, by their numbers in the list, and how    *)
(* they are sorted: by name or by metric.  sort.Slice promises nothing of   *)
(* equals; a list of less than twelve it leaves in the order listed.        *)
Kept(w) == {k \in DOMAIN w.nodes : w.filter = 0 \/ w.nodes[k].name = w.filter}

Above(w, i, j) ==
    LET less(k, l) == IF w.sort = 0 THEN w.nodes[k].name < w.nodes[l].name
                      ELSE w.nodes[k].metric > w.nodes[l].metric
    IN less(i, j) \/ (~less(j, i) /\ i < j)

(* What has a row: <<k, 0>> is node k, <<k, c>> its child c in a tree.       *)
Places(w) ==
    LET children(k) == IF w.tree /\ Hierarchical(w) THEN DOMAIN w.nodes[k].children ELSE {}
    IN UNION {{k} \X ({0} \cup children(k)) : k \in Kept(w)}

Precedes(w, p, q) == IF p[1] = q[1] THEN p[2] < q[2] ELSE Above(w, p[1], q[1])

(* The row at a place, with the name of its parent; 0 is the parent of the  *)
(* top.                                                                     *)
RowAt(w, p) ==
    LET node == w.nodes[p[1]]
        child == node.children[p[2]]
    IN IF p[2] = 0 THEN [name |-> node.name, kind |-> node.kind, parent |-> 0]
       ELSE [name |-> child.name, kind |-> child.kind, parent |-> node.name]

Rows(w) ==
    LET places == Places(w)
        rank(p) == Cardinality({q \in places : Precedes(w, q, p)})
    IN [k \in 1..Cardinality(places) |-> RowAt(w, CHOOSE p \in places : rank(p) = k - 1)]

(* The row of the first node of that name, 0 if there is none.              *)
IndexOfRowNamed(rows, name) ==
    LET named == {k \in DOMAIN rows : rows[k].name = name}
    IN IF named = {} THEN 0 ELSE Min(named) - 1

Focused == wins[focus]
ObjectsFocused == focus # 0 /\ ~IsProcs(Focused)
HasSelection == ObjectsFocused /\ Focused.sel < Len(Rows(Focused))
Selected == Rows(Focused)[Focused.sel + 1]
TopSelected == HasSelection /\ Selected.parent = 0
ChildSelected == HasSelection /\ Selected.parent # 0

Idle == prompt = NoPrompt /\ doing = Nothing
InPane == Idle /\ ObjectsFocused /\ ~filtering
InFilter == Idle /\ focus # 0 /\ filtering

Load == loads' = IF loads < MaxLoads THEN loads + 1 ELSE loads
screen == <<wins, procs, focus, filtering>>

----------------------------------------------------------------------------
(* Moving about. *)

(* The focus goes to the next or the previous window or the chat.  Shift+Tab *)
(* does so even from within a filter, Tab from a list or the AI's input.     *)
CycleFocus(forward) ==
    LET n == Len(wins) + 1
    IN /\ Idle
       /\ forward => focus = 0 \/ ~filtering
       /\ n > 1
       /\ focus' = (focus + (IF forward THEN 1 ELSE n - 1)) % n
       /\ UNCHANGED <<wins, procs, filtering, loads, prompt, doing, shown>>

(* Esc, and Enter, which takes the selected name to the input.              *)
BackToChat ==
    /\ Idle /\ focus # 0 /\ ~filtering
    /\ focus' = 0
    /\ UNCHANGED <<wins, procs, filtering, loads, prompt, doing, shown>>

MoveSel(delta) ==
    LET last == Len(Rows(Focused)) - 1
        to == Focused.sel + delta
    IN /\ InPane
       /\ last >= 0
       /\ wins' = [wins EXCEPT ![focus].sel = IF to < 0 THEN 0 ELSE IF to > last THEN last ELSE to]
       /\ UNCHANGED <<procs, focus, filtering, loads, prompt, doing, shown>>

Fold ==
    /\ Idle /\ focus # 0 /\ ~filtering
    /\ wins' = [wins EXCEPT ![focus].folded = ~@]
    /\ UNCHANGED <<procs, focus, filtering, loads, prompt, doing, shown>>

CycleSort ==
    /\ InPane
    /\ wins' = [wins EXCEPT ![focus].sort = IF Focused.nodes = <<>> THEN 0 ELSE 1 - @,
                            ![focus].sel = 0]
    /\ UNCHANGED <<procs, focus, filtering, loads, prompt, doing, shown>>

ToggleTreeKeepingIndex ==  \* mutant: the index is kept, not the node
    /\ InPane
    /\ Hierarchical(Focused)
    /\ wins' = [wins EXCEPT ![focus].tree = ~@]
    /\ UNCHANGED <<procs, focus, filtering, loads, prompt, doing, shown>>

(* Children come and go, and the selection stays with its node.             *)
ToggleTree ==
    LET toggled == [Focused EXCEPT !.tree = ~@]
        name == IF HasSelection THEN Selected.name ELSE 0
    IN /\ InPane
       /\ Hierarchical(Focused)
       /\ wins' = [wins EXCEPT ![focus] = [toggled EXCEPT !.sel = IndexOfRowNamed(Rows(toggled), name)]]
       /\ UNCHANGED <<procs, focus, filtering, loads, prompt, doing, shown>>

StartFilter ==
    /\ InPane
    /\ filtering' = TRUE
    /\ UNCHANGED <<wins, procs, focus, loads, prompt, doing, shown>>

EndFilter ==
    /\ InFilter
    /\ filtering' = FALSE
    /\ UNCHANGED <<wins, procs, focus, loads, prompt, doing, shown>>

EscFilter ==
    /\ InFilter
    /\ filtering' = FALSE
    /\ wins' = [wins EXCEPT ![focus].filter = 0, ![focus].sel = 0]
    /\ UNCHANGED <<procs, focus, loads, prompt, doing, shown>>

(* A key of the filter; Backspace may empty it.                             *)
TypeFilter ==
    /\ InFilter
    /\ \E p \in Patterns \cup {0} :
        /\ p # Focused.filter
        /\ wins' = [wins EXCEPT ![focus].filter = p, ![focus].sel = 0]
    /\ UNCHANGED <<procs, focus, filtering, loads, prompt, doing, shown>>

----------------------------------------------------------------------------
(* Acting on the selected row.  Each key applies to some windows and rows,  *)
(* and opens a prompt or acts at once.                                      *)

SupportsSRP == Focused.label \in {"Queues", "Streams", "Addresses", "Exchanges"}
PurgeReceiveAllowed == SupportsSRP /\ Focused.label \notin {"Addresses", "Exchanges"}
SubscriptionSelected == ChildSelected /\ Focused.label = "Topics" /\ Selected.kind = "subscription"
SendViaTopic(l, kind) == (l = "Addresses" /\ kind = "multicast") \/ l = "Exchanges"
Creatable == Focused.label \in {"Queues", "Topics", "Addresses", "Exchanges", "Streams"}
Deletable == Creatable \/ Focused.label = "Consumer Groups"

(* The prompts that can be opened: create, delete, publish, purge, send.    *)
Prompts ==
    LET p(kind, name, target, nodeKind) ==
            [kind |-> kind, win |-> focus, name |-> name, target |-> target, nodeKind |-> nodeKind]
    IN  (IF Creatable /\ "create" \in Abilities THEN {p("create", 0, 0, "none")} ELSE {})
        \cup
        (IF Deletable /\ "delete" \in Abilities /\ TopSelected
         THEN {p("delete", Selected.name, 0, "none")} ELSE {})
        \cup
        (IF Focused.label = "Topics" /\ TopSelected
         THEN {p("publish", 0, Selected.name, "none")} ELSE {})
        \cup
        (IF SubscriptionSelected /\ "purge-subscription" \in Abilities
         THEN {p("purge-subscription", Selected.name, Selected.parent, "none")} ELSE {})
        \cup
        (IF PurgeReceiveAllowed /\ TopSelected /\ "purge" \in Abilities
         THEN {p("purge", Selected.name, 0, "none")} ELSE {})
        \cup
        (IF SupportsSRP /\ TopSelected
         THEN {p("send", 0, Selected.name, Selected.kind)} ELSE {})

(* How an action reaches the broker: by the manage closures, or by the      *)
(* topic or the queue adapter.                                              *)
Via(verb, l, kind) ==
    IF verb \in {"create", "delete", "purge", "purge-subscription"} THEN "manage"
    ELSE IF verb = "publish" \/ l = "Topics" \/ (verb = "send" /\ SendViaTopic(l, kind)) THEN "topic"
    ELSE "queue"

Action(verb, l, name, parent, kind) ==
    [verb |-> verb, window |-> l, name |-> name, parent |-> parent, via |-> Via(verb, l, kind)]

(* What the prompt line says.                                               *)
PromptLine(p) ==
    Action(p.kind, wins[p.win].label, IF p.kind \in {"send", "publish"} THEN p.target ELSE p.name,
           IF p.kind = "purge-subscription" THEN p.target ELSE 0,
           IF p.kind = "create" THEN "none" ELSE Selected.kind)

OpenPrompt ==
    /\ InPane
    /\ \E p \in Prompts :
        /\ prompt' = p
        /\ shown' = PromptLine(p)
    /\ UNCHANGED <<screen, loads, doing>>

(* Receive and peek act at once, on a subscription or a queue.              *)
ActAtOnce ==
    /\ InPane
    /\ SubscriptionSelected \/ (PurgeReceiveAllowed /\ TopSelected)
    /\ \E verb \in {"receive", "peek"} :
        /\ doing' = Action(verb, Focused.label, Selected.name, Selected.parent, Selected.kind)
        /\ shown' = doing'
    /\ UNCHANGED <<screen, loads, prompt>>

(* The name of a new object, or a payload, is typed.                        *)
TypeIntoPrompt ==
    /\ prompt.kind \in {"create", "send", "publish"}
    /\ prompt' = [prompt EXCEPT !.name = IF @ = 0 THEN NewName ELSE 0]
    /\ shown' = IF prompt.kind = "create" THEN [shown EXCEPT !.name = prompt'.name] ELSE shown
    /\ UNCHANGED <<screen, loads, doing>>

EscPrompt ==
    /\ prompt # NoPrompt
    /\ prompt' = NoPrompt
    /\ shown' = Nothing
    /\ UNCHANGED <<screen, loads, doing>>

ConfirmSelected ==  \* mutant: Enter acts on the row selected now
    /\ prompt # NoPrompt
    /\ prompt.name # 0 /\ HasSelection
    /\ doing' = Action(prompt.kind, wins[prompt.win].label,
                       IF prompt.kind = "create" THEN prompt.name ELSE Selected.name,
                       IF prompt.kind = "purge-subscription" THEN Selected.parent ELSE 0, Selected.kind)
    /\ prompt' = NoPrompt
    /\ UNCHANGED <<screen, loads, shown>>

(* Enter: an empty name or payload is not accepted.                         *)
ConfirmPrompt ==
    /\ prompt # NoPrompt
    /\ prompt.name # 0
    /\ doing' = Action(prompt.kind, wins[prompt.win].label,
                       IF prompt.kind \in {"send", "publish"} THEN prompt.target ELSE prompt.name,
                       IF prompt.kind = "purge-subscription" THEN prompt.target ELSE 0,
                       prompt.nodeKind)
    /\ prompt' = NoPrompt
    /\ UNCHANGED <<screen, loads, shown>>

(* The action ends; the lists are loaded again.                             *)
ActionDone ==
    /\ doing # Nothing
    /\ doing' = Nothing
    /\ shown' = Nothing
    /\ Load
    /\ UNCHANGED <<screen, prompt>>

----------------------------------------------------------------------------
(* The lists are loaded, by a key, a command or the periodic refresh.       *)

StartLoad ==
    /\ loads < MaxLoads
    /\ loads' = loads + 1
    /\ UNCHANGED <<screen, prompt, doing, shown>>

(* A load answers, an older one perhaps after a newer: every list is        *)
(* replaced, by nothing if it could not be had, and each selection brought  *)
(* back into its list.  The window of processes is left alone.              *)
ObjectsDone ==
    LET loaded(w, nodes) ==
            LET fresh == [w EXCEPT !.nodes = nodes, !.failed = FALSE]
                rows == Len(Rows(fresh))
            IN [fresh EXCEPT !.sel = IF @ < rows THEN @ ELSE IF rows > 0 THEN rows - 1 ELSE 0]
        answers(w) == IF IsProcs(w) THEN {w}
                      ELSE {loaded(w, l) : l \in Listings[w.label]}
                           \cup {[loaded(w, <<>>) EXCEPT !.failed = TRUE]}
    IN /\ loads > 0
       /\ loads' = loads - 1
       /\ wins' \in {[i \in DOMAIN wins |-> f[i]] :
                        f \in {g \in [DOMAIN wins -> UNION {answers(wins[i]) : i \in DOMAIN wins}] :
                                 \A i \in DOMAIN wins : g[i] \in answers(wins[i])}}
       /\ UNCHANGED <<procs, focus, filtering, prompt, doing, shown>>

----------------------------------------------------------------------------
(* Background processes have a window of their own, the last, while there   *)
(* are any.                                                                 *)

ProcessStarts ==
    /\ Idle /\ focus = 0
    /\ procs < MaxProcs
    /\ procs' = procs + 1
    /\ wins' = IF procs = 0 THEN Append(wins, Window("Processes")) ELSE wins
    /\ UNCHANGED <<focus, filtering, loads, prompt, doing, shown>>

(* A key of that window removes a process; with the last the window goes.   *)
ProcessRemoved ==
    /\ Idle /\ focus # 0 /\ IsProcs(Focused) /\ ~filtering
    /\ procs' = procs - 1
    /\ wins' = IF procs = 1 THEN Front(wins) ELSE wins
    /\ focus' = IF procs = 1 THEN 0 ELSE focus
    /\ UNCHANGED <<filtering, loads, prompt, doing, shown>>

----------------------------------------------------------------------------
Next ==
    \/ \E forward \in BOOLEAN : CycleFocus(forward)
    \/ BackToChat
    \/ \E delta \in {-1, 1} : MoveSel(delta)
    \/ Fold
    \/ CycleSort
    \/ ToggleTree
    \/ StartFilter \/ EndFilter \/ EscFilter \/ TypeFilter
    \/ OpenPrompt \/ TypeIntoPrompt \/ EscPrompt \/ ConfirmPrompt
    \/ ActAtOnce \/ ActionDone
    \/ StartLoad \/ ObjectsDone
    \/ ProcessStarts \/ ProcessRemoved

Spec == Init /\ [][Next]_vars

----------------------------------------------------------------------------
(* What is drawn. *)

(* A window's natural number of body rows; an empty one says "(none)".      *)
NaturalRows(w) ==
    LET n == IF IsProcs(w) THEN procs ELSE Len(Rows(w))
    IN IF n = 0 THEN 1 ELSE n

Drawn == Plan([i \in DOMAIN wins |-> [rows |-> NaturalRows(wins[i]), folded |-> wins[i].folded]],
              focus, Height)

(* The body lines of window i: its rows around the selected one, and the    *)
(* filter being typed.                                                      *)
BodyOf(i) ==
    LET w == wins[i]
        n == Len(Rows(w))
    IN CASE IsProcs(w) -> Drawn.body[i]
         [] ~IsProcs(w) /\ (n = 0 \/ w.failed) -> 1
         [] OTHER -> BodyLines(n, w.sel, Drawn.body[i]) + (IF focus = i /\ filtering THEN 1 ELSE 0)

SectionLines(i) ==
    (IF Drawn.folded[i] THEN 1 ELSE 2 + BodyOf(i)) + (IF i < Len(wins) THEN 1 ELSE 0)

SidebarLines == Stacked([i \in DOMAIN wins |-> SectionLines(i)])

----------------------------------------------------------------------------
(* Properties. *)

WindowOK(w) ==
    /\ w.sel \in Nat
    /\ w.filter \in Patterns \cup {0}
    /\ w.sort \in {0, 1}
    /\ w.tree \in BOOLEAN /\ w.folded \in BOOLEAN /\ w.failed \in BOOLEAN

TypeOK ==
    /\ \A i \in DOMAIN wins : WindowOK(wins[i])
    /\ \A i \in DOMAIN wins : IsProcs(wins[i]) <=> i = Len(wins) /\ procs > 0
    /\ procs \in 0..MaxProcs
    /\ focus \in 0..Len(wins)
    /\ filtering \in BOOLEAN
    /\ loads \in 0..MaxLoads

(* The user always sees the row the keys act on: in a focused list that is  *)
(* not folded by the user the selected row is on the screen, whatever has   *)
(* been loaded, filtered, sorted, folded or resized since it was selected.  *)
SelectionOnScreen ==
    /\ TypeOK
    /\ ObjectsFocused /\ ~Focused.folded /\ Rows(Focused) # <<>> =>
        /\ ~Drawn.folded[focus]
        /\ Focused.sel \in RowsOnScreen(Len(Rows(Focused)), Focused.sel, Drawn.body[focus])

(* What the screen announced is what is done: the object named by the       *)
(* prompt, though the lists have been replaced under it since.              *)
ActsOnWhatWasShown == doing = Nothing \/ doing = shown

(* The sidebar never grows out of the screen, except by the line of the     *)
(* filter being typed, which the planner does not count.                    *)
FitsTheScreen == SidebarLines <= Height + (IF filtering THEN 1 ELSE 0)
=============================================================================
