---------------------------- MODULE TerminalHistory ----------------------------
(***************************************************************************)
(* The history of a terminal and what the user does with it: scrolling     *)
(* back while output goes on, and selecting text with the mouse            *)
(* (src/internal/terminal/selection.go and session.go, and the gesture in  *)
(* src/internal/app/selection.go).  Lines are numbered in the order in     *)
(* which they were first on the screen; the code only knows rows, counted  *)
(* from the oldest line that is still kept.                                *)
(***************************************************************************)
EXTENDS Integers

CONSTANTS
  Capacity,    \* lines of history the emulator keeps
  Height,      \* rows of the pane
  Width,       \* columns of the pane
  WheelLines,  \* rows by which one notch of the wheel scrolls
  MaxPushed    \* bound: lines that ever leave the screen

ASSUME CapacityAssumption == Capacity \in Nat
ASSUME PaneAssumption == Height \in Nat \ {0} /\ Width \in Nat \ {0}
ASSUME WheelAssumption == WheelLines \in Nat \ {0}
ASSUME PushedAssumption == MaxPushed \in Nat

VARIABLES
  pushed,     \* lines that left the screen at its top
  oldest,     \* the oldest of them that is kept
  alt,        \* the alternate screen is shown, which has no history
  modes,      \* of the child: subset of {"mouse", "alternateScroll"}
  offset,     \* Session.scrollOffset
  selection,  \* Session.selection
  dragging,   \* Model.selectionGesture.dragging
  pressed,    \* history: the line and column the button was pressed on,
  pointed,    \* and last pointed at,
  since       \* and the oldest line then

selectVars == <<selection, dragging, pressed, pointed, since>>
vars == <<pushed, oldest, alt, modes, offset, selectVars>>

Lesser(a, b) == IF a < b THEN a ELSE b
Greater(a, b) == IF a > b THEN a ELSE b

ScrollbackLen == pushed - oldest

Columns == 0..Width - 1
NoPoint == [row |-> 0, col |-> 0]
NoSelection == [anchor |-> NoPoint, cursor |-> NoPoint, started |-> FALSE, visible |-> FALSE]

Init ==
  /\ pushed = 0 /\ oldest = 0
  /\ alt = FALSE /\ modes = {}
  /\ offset = 0
  /\ selection = NoSelection /\ dragging = FALSE
  /\ pressed = NoPoint /\ pointed = NoPoint /\ since = 0

ClearSelection == selection' = NoSelection /\ UNCHANGED <<pressed, pointed, since>>

(* clearTerminalSelection: the selection and the gesture                   *)
clearTerminalSelection == ClearSelection /\ dragging' = FALSE

(* The emulator pushes n lines and forgets the oldest ones.                *)
Push(n) ==
  /\ pushed' = pushed + n
  /\ oldest' = Greater(oldest, pushed + n - Capacity)

(* A plausible slip: a history that became shorter is not considered.      *)
followUnclamped ==
  LET added == ScrollbackLen' - ScrollbackLen IN
  offset' = IF offset > 0 /\ added > 0 THEN offset + added ELSE offset

(* readOutput and Resize: who looks at the history goes on seeing the same *)
(* lines.                                                                  *)
follow ==
  LET added == ScrollbackLen' - ScrollbackLen IN
  offset' = Lesser(IF offset > 0 /\ added > 0 THEN offset + added ELSE offset, ScrollbackLen')

-----------------------------------------------------------------------------
(* Output of the child                                                     *)
Output ==
  /\ ~alt
  /\ \E n \in 0..MaxPushed - pushed : Push(n)
  /\ follow
  /\ UNCHANGED <<alt, modes, selectVars>>

(* The callback AltScreen, in either direction                             *)
AltScreen ==
  /\ alt' = ~alt
  /\ offset' = 0
  /\ ClearSelection
  /\ UNCHANGED <<pushed, oldest, modes, dragging>>

setTerminalMode(mode) ==
  /\ modes' = IF mode \in modes THEN modes \ {mode} ELSE modes \cup {mode}
  /\ UNCHANGED <<pushed, oldest, alt, offset, selectVars>>

-----------------------------------------------------------------------------
(* What the user does                                                      *)

(* SendKey, Paste, and the command that SendCommandWhenReady types         *)
Type ==
  /\ offset' = 0
  /\ clearTerminalSelection
  /\ UNCHANGED <<pushed, oldest, alt, modes>>

TypeResume ==
  /\ offset' = 0
  /\ ClearSelection
  /\ UNCHANGED <<pushed, oldest, alt, modes, dragging>>

(* A smaller pane pushes lines, a larger one may take some back.           *)
Resize ==
  /\ ClearSelection
  /\ \/ \E n \in 0..MaxPushed - pushed : Push(n)
     \/ \E n \in 1..ScrollbackLen : pushed' = pushed - n /\ UNCHANGED oldest
  /\ follow
  /\ UNCHANGED <<alt, modes, dragging>>

(* A plausible slip: nothing stops at the live screen.                     *)
scrollBelow(lines) == offset' = Lesser(offset + lines, ScrollbackLen)

scroll(lines) == offset' = Greater(0, Lesser(offset + lines, ScrollbackLen))

(* HandleWheel: a child that wants the wheel gets it.                      *)
HandleWheel ==
  /\ clearTerminalSelection
  /\ IF "mouse" \in modes THEN offset' = 0
     ELSE IF alt THEN UNCHANGED offset
     ELSE \E lines \in {WheelLines, -WheelLines} : scroll(lines)
  /\ UNCHANGED <<pushed, oldest, alt, modes>>

-----------------------------------------------------------------------------
(* Selection                                                               *)

(* A plausible slip: rows of the screen instead of rows of the history.    *)
screenPoint(x, y) == [row |-> ScrollbackLen + y, col |-> x]

viewportPoint(x, y) == [row |-> ScrollbackLen - Greater(0, Lesser(offset, ScrollbackLen)) + y, col |-> x]

(* What the user sees there: terminalViewportLines draws the same rows, or *)
(* the emulator its screen when nothing is scrolled.                       *)
Seen(x, y) == [row |-> oldest + ScrollbackLen - offset + y, col |-> x]

BeginSelection(x, y) ==
  /\ LET point == viewportPoint(x, y) IN
     selection' = [anchor |-> point, cursor |-> point, started |-> TRUE, visible |-> FALSE]
  /\ dragging' = TRUE
  /\ pressed' = Seen(x, y) /\ pointed' = Seen(x, y) /\ since' = oldest
  /\ UNCHANGED <<pushed, oldest, alt, modes, offset>>

moveTo(point) ==
  selection' = [selection EXCEPT !.cursor = point, !.visible = (point # selection.anchor)]

UpdateSelection(x, y) ==
  /\ dragging /\ selection.started
  /\ moveTo(viewportPoint(x, y))
  /\ pointed' = Seen(x, y)
  /\ UNCHANGED <<pushed, oldest, alt, modes, offset, dragging, pressed, since>>

EndSelection(x, y) ==
  /\ dragging
  /\ dragging' = FALSE
  /\ IF selection.started /\ viewportPoint(x, y) # selection.anchor
       THEN moveTo(viewportPoint(x, y)) /\ pointed' = Seen(x, y) /\ UNCHANGED <<pressed, since>>
       ELSE ClearSelection
  /\ UNCHANGED <<pushed, oldest, alt, modes, offset>>

(* copyPaneSelection                                                       *)
Copy ==
  /\ selection.visible
  /\ clearTerminalSelection
  /\ UNCHANGED <<pushed, oldest, alt, modes, offset>>

(* A click elsewhere, a menu, a resize of the window, a user who leaves    *)
Dismiss ==
  /\ clearTerminalSelection
  /\ UNCHANGED <<pushed, oldest, alt, modes, offset>>

-----------------------------------------------------------------------------
Next ==
  \/ Output \/ AltScreen \/ (\E mode \in {"mouse", "alternateScroll"} : setTerminalMode(mode))
  \/ Type \/ TypeResume \/ Resize \/ HandleWheel \/ Copy \/ Dismiss
  \/ \E x \in Columns, y \in 0..Height - 1 :
       BeginSelection(x, y) \/ UpdateSelection(x, y) \/ EndSelection(x, y)

Spec == Init /\ [][Next]_vars

-----------------------------------------------------------------------------
NotAfter(p, q) == p.row < q.row \/ (p.row = q.row /\ p.col <= q.col)
Earlier(p, q) == IF NotAfter(p, q) THEN p ELSE q
Later(p, q) == IF NotAfter(p, q) THEN q ELSE p

(* The cells from p to q in reading order, both included                   *)
Between(p, q) ==
  {c \in [row : Earlier(p, q).row..Later(p, q).row, col : Columns] :
     NotAfter(Earlier(p, q), c) /\ NotAfter(c, Later(p, q))}

(* terminalSelection.ordered                                               *)
Start == Earlier(selection.anchor, selection.cursor)
End == Later(selection.anchor, selection.cursor)

(* terminalSelection.contains                                              *)
contains(row, col) ==
  /\ selection.visible
  /\ Start.row <= row /\ row <= End.row
  /\ IF Start.row = End.row THEN Start.col <= col /\ col <= End.col
     ELSE IF row = Start.row THEN Start.col <= col
     ELSE IF row = End.row THEN col <= End.col
     ELSE TRUE

FirstRow == Greater(0, Start.row)
LastRow == Lesser(ScrollbackLen + Height - 1, End.row)
FirstColumn(row) == IF row = FirstRow THEN Start.col ELSE 0
LastColumn(row) == IF row = LastRow THEN End.col ELSE Width - 1

(* A plausible slip: every line is copied as far as the last one.          *)
SelectedBlock ==
  {c \in [row : FirstRow..LastRow, col : Columns] :
     FirstColumn(c.row) <= c.col /\ c.col <= End.col}

(* SelectedText: line by line, from the first column to the last           *)
SelectedText ==
  {c \in [row : FirstRow..LastRow, col : Columns] :
     FirstColumn(c.row) <= c.col /\ c.col <= LastColumn(c.row)}

-----------------------------------------------------------------------------
Point == [row : Nat, col : Columns]

(* Types of history, view and selection.                                   *)
TypeOK ==
  /\ pushed \in 0..MaxPushed /\ oldest \in 0..pushed
  /\ alt \in BOOLEAN /\ modes \subseteq {"mouse", "alternateScroll"}
  /\ offset \in Nat
  /\ selection \in [anchor : Point, cursor : Point, started : BOOLEAN, visible : BOOLEAN]
  /\ dragging \in BOOLEAN
  /\ pressed \in Point /\ pointed \in Point /\ since \in Nat

(* The view never reaches above the oldest line, and the alternate screen  *)
(* is always shown from its bottom: render and viewportPoint may take the  *)
(* offset as it is.                                                        *)
OffsetWithin == offset <= ScrollbackLen /\ (alt => offset = 0)

(* Two pieces of code decide what is selected: what is drawn highlighted   *)
(* and what is copied are the same cells.                                  *)
CopiesHighlighted ==
  selection.visible =>
    SelectedText = {c \in [row : 0..ScrollbackLen + Height - 1, col : Columns] : contains(c.row, c.col)}

(* What is selected are the lines the user drew over, wherever output and  *)
(* scrolling have moved them, as long as the history forgets none.         *)
Drawn == {[row |-> c.row - oldest, col |-> c.col] : c \in Between(pressed, pointed)}

SelectionFollows == selection.visible /\ oldest = since => SelectedText = Drawn

(* Output does not move the view of a user who looks at the history, as    *)
(* long as it forgets no line.                                             *)
ViewStays ==
  [][offset > 0 /\ ~alt /\ pushed' > pushed /\ oldest' = oldest
       => pushed' - offset' = pushed - offset]_vars

=============================================================================
