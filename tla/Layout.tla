------------------------------- MODULE Layout -------------------------------
(***************************************************************************)
(* The layout of the AI screen's sidebar (renderSidebar and                *)
(* writeObjectSection, cmd/aituisidebar.go): how many body rows each       *)
(* window gets, which windows are folded to make room, and which rows of a *)
(* list that does not fit are on the screen.                               *)
(*                                                                         *)
(* A window is described by its natural number of body rows and by whether *)
(* the user has folded it: [rows |-> n, folded |-> b].  focus is the       *)
(* number of the focused window, 0 when the chat has the focus.            *)
(***************************************************************************)
EXTENDS Integers, FiniteSets

AtMost(a, b) == IF a <= b THEN a ELSE b
AtLeast(a, b) == IF a >= b THEN a ELSE b
Windows(ws) == DOMAIN ws
Margin(ws, i) == IF i < Cardinality(Windows(ws)) THEN 1 ELSE 0

FloorRows(w) == AtMost(w.rows, 3)

CostNoMargin(ws, i, folded, body) ==  \* mutant: the blank line below is not counted
    IF folded THEN 1 ELSE 2 + body

(* The screen lines of window i: title and underline, body and margin, or   *)
(* the title alone.                                                         *)
Cost(ws, i, folded, body) == (IF folded THEN 1 ELSE 2 + body) + Margin(ws, i)

(* The lines on a screen where i takes lines[i] of them.                    *)
Stacked(lines) == Cardinality(UNION {{i} \X (1..lines[i]) : i \in DOMAIN lines})

Total(ws, folded, body) == Stacked([i \in Windows(ws) |-> Cost(ws, i, folded[i], body[i])])

FoldedByUser(ws) == [i \in Windows(ws) |-> ws[i].folded]
Natural(ws) == [i \in Windows(ws) |-> ws[i].rows]
Floors(ws) == [i \in Windows(ws) |-> FloorRows(ws[i])]

(* Who gets what the floors leave over: the focused window first, then the  *)
(* others in their order, each up to its natural size.                      *)
Growth(ws, focus, surplus) ==
    LET growing == {i \in Windows(ws) : ~ws[i].folded}
        want(i) == ws[i].rows - FloorRows(ws[i])
        earlier(i) == {j \in growing : IF i = focus THEN FALSE ELSE j = focus \/ j < i}
        left(i) == surplus - Stacked([j \in earlier(i) |-> want(j)])
    IN [i \in Windows(ws) |->
            FloorRows(ws[i]) + IF i \in growing THEN AtMost(want(i), AtLeast(left(i), 0)) ELSE 0]

(* The order in which windows are folded: outwards from the focused one,    *)
(* the lower first, or upwards from the last.                               *)
FoldsBefore(focus, i, j) ==
    LET distance(k) == IF k > focus THEN k - focus ELSE focus - k
    IN IF focus = 0 THEN i > j
       ELSE distance(i) < distance(j) \/ (distance(i) = distance(j) /\ i > j)

(* The windows the planner folds: the shortest beginning of that order that *)
(* makes room, all of it if none does.                                      *)
AutoFolded(ws, focus, height) ==
    LET candidates == {i \in Windows(ws) : i # focus /\ ~ws[i].folded}
        upTo(i) == {j \in candidates : j = i \/ FoldsBefore(focus, j, i)}
        cost(F) == Total(ws, [i \in Windows(ws) |-> ws[i].folded \/ i \in F],
                             [i \in Windows(ws) |-> IF i \in F THEN 0 ELSE FloorRows(ws[i])])
        enough == {i \in candidates : cost(upTo(i)) <= height}
    IN IF enough = {} THEN candidates
       ELSE upTo(CHOOSE i \in enough : \A j \in enough \ {i} : FoldsBefore(focus, i, j))

(* The plan: the body rows of each window and whether it is folded.         *)
Plan(ws, focus, height) ==
    LET user == FoldedByUser(ws)
        atFloor == Total(ws, user, Floors(ws))
        auto == AutoFolded(ws, focus, height)
        folded == [i \in Windows(ws) |-> user[i] \/ i \in auto]
        floors == [i \in Windows(ws) |-> IF i \in auto THEN 0 ELSE FloorRows(ws[i])]
        surplus == AtLeast(height - Total(ws, folded, floors), 0)
        grown == [i \in Windows(ws) |->
                    IF i = focus /\ ~user[i]
                    THEN floors[i] + AtMost(ws[i].rows - floors[i], surplus) ELSE floors[i]]
    IN CASE Total(ws, user, Natural(ws)) <= height -> [body |-> Natural(ws), folded |-> user]
         [] Total(ws, user, Natural(ws)) > height /\ atFloor <= height ->
                [body |-> Growth(ws, focus, height - atFloor), folded |-> user]
         [] OTHER -> [body |-> grown, folded |-> folded]

(* The rows, counted from 0, that a list of the given length shows in body  *)
(* lines around its selected row; a line goes to each "n more" hint.        *)
RowsOnScreen(total, sel, body) ==
    LET raw == AtLeast(sel - (body \div 2), 0)
        end == IF total <= body THEN total ELSE AtMost(raw + body, total)
        start == IF total <= body THEN 0
                 ELSE IF raw + body > total THEN AtLeast(total - body, 0) ELSE raw
        first == IF start > 0 THEN AtMost(start + 1, sel) ELSE 0
        last == IF end < total THEN AtLeast(end - 1, first) ELSE end
    IN first..(last - 1)

(* The body lines such a list takes, its hints included.                    *)
BodyLines(total, sel, body) ==
    LET shown == RowsOnScreen(total, sel, body)
    IN Cardinality(shown) + (IF 0 \in shown \/ shown = {} THEN 0 ELSE 1)
                          + (IF total - 1 \in shown THEN 0 ELSE 1)
=============================================================================
