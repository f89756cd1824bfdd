----------------------------- MODULE ScreenProofs -----------------------------
(***************************************************************************)
(* What holds of the screen: of the history of a pane and of the selection *)
(* in it, for every size of the pane and of the history, and of the layout *)
(* of a project, for every number of panes, every tree and every size of   *)
(* the window, and of the filter before it, for every output and every     *)
(* size of its buffer.                                                     *)
(***************************************************************************)
EXTENDS TerminalHistory, LayoutTree, OutputFilter, SequenceTheorems, FiniteSetTheorems, TLAPS

-----------------------------------------------------------------------------
(* History and selection                                                   *)

HistoryOK ==
  /\ pushed \in 0..MaxPushed /\ oldest \in 0..pushed
  /\ ScrollbackLen <= Capacity
  /\ offset \in Nat /\ OffsetWithin

ScreenOK == alt \in BOOLEAN /\ modes \subseteq {"mouse", "alternateScroll"} /\ dragging \in BOOLEAN

Selections == [anchor : Point, cursor : Point, started : BOOLEAN, visible : BOOLEAN]
SelectionOK == selection \in Selections /\ pressed \in Point /\ pointed \in Point /\ since \in Nat

(* Where the selection is: on rows that exist, and as long as no line was  *)
(* forgotten on the lines that were pressed and pointed at.                *)
Same(point, line) == point.row + oldest = line.row /\ point.col = line.col

Placed ==
  /\ selection.visible => selection.started
  /\ selection.started =>
       /\ selection.anchor.row <= ScrollbackLen + Height - 1
       /\ selection.cursor.row <= ScrollbackLen + Height - 1
       /\ since <= oldest
       /\ oldest = since => Same(selection.anchor, pressed) /\ Same(selection.cursor, pointed)

HistoryInv == HistoryOK /\ ScreenOK /\ SelectionOK /\ Placed

Shown == \E x \in Columns, y \in 0..Height - 1 :
           BeginSelection(x, y) \/ UpdateSelection(x, y) \/ EndSelection(x, y)

-----------------------------------------------------------------------------
(* A push only adds to what is kept, up to the capacity.                   *)
LEMMA PushGrows ==
  ASSUME HistoryOK, NEW n \in 0..MaxPushed - pushed, Push(n)
  PROVE  /\ pushed' \in 0..MaxPushed /\ oldest' \in 0..pushed'
         /\ oldest <= oldest' /\ ScrollbackLen <= ScrollbackLen' /\ ScrollbackLen' <= Capacity
  BY CapacityAssumption, PushedAssumption DEF HistoryOK, Push, Greater, ScrollbackLen

LEMMA FollowWithin ==
  ASSUME offset \in Nat, ScrollbackLen \in Nat, ScrollbackLen' \in Nat, follow
  PROVE  /\ offset' \in Nat /\ offset' <= ScrollbackLen'
         /\ offset = 0 => offset' = 0
<1>1. ASSUME NEW o \in Nat, NEW a \in Nat, NEW b \in Nat
      PROVE  LET m == Lesser(IF o > 0 /\ b - a > 0 THEN o + (b - a) ELSE o, b)
             IN  m \in Nat /\ m <= b /\ (o = 0 => m = 0)
  BY DEF Lesser
<1>2. offset' = Lesser(IF offset > 0 /\ ScrollbackLen' - ScrollbackLen > 0
                     THEN offset + (ScrollbackLen' - ScrollbackLen) ELSE offset, ScrollbackLen')
  BY DEF follow
<1> HIDE DEF follow
<1>3. QED
  BY <1>1, <1>2

LEMMA HistoryStep ==
  ASSUME HistoryOK, ScreenOK, [Next]_vars
  PROVE  HistoryOK'
<1>1. ScrollbackLen \in Nat
  BY PushedAssumption DEF HistoryOK, ScrollbackLen
<1>2. CASE Output
  <2>1. PICK n \in 0..MaxPushed - pushed : Push(n)
    BY <1>2 DEF Output
  <2>2. ScrollbackLen' \in Nat
    BY <2>1, PushGrows, PushedAssumption DEF ScrollbackLen
  <2>3. ~alt' /\ follow
    BY <1>2 DEF Output
  <2>4. QED
    BY <1>1, <2>1, <2>2, <2>3, PushGrows, FollowWithin DEF HistoryOK, OffsetWithin
<1>3. CASE Resize
  <2>1. alt' = alt /\ follow
    BY <1>3 DEF Resize
  <2>2. CASE \E n \in 0..MaxPushed - pushed : Push(n)
    <3>1. PICK n \in 0..MaxPushed - pushed : Push(n)
      BY <2>2
    <3>2. ScrollbackLen' \in Nat
      BY <3>1, PushGrows, PushedAssumption DEF ScrollbackLen
    <3>3. QED
      BY <1>1, <2>1, <3>1, <3>2, PushGrows, FollowWithin DEF HistoryOK, OffsetWithin
  <2>3. CASE \E n \in 1..ScrollbackLen : pushed' = pushed - n /\ UNCHANGED oldest
    <3>1. pushed' \in 0..MaxPushed /\ oldest' \in 0..pushed' /\ ScrollbackLen' \in Nat /\ ScrollbackLen' <= Capacity
      BY <2>3, CapacityAssumption, PushedAssumption DEF HistoryOK, ScrollbackLen
    <3>2. QED
      BY <1>1, <2>1, <3>1, FollowWithin DEF HistoryOK, OffsetWithin
  <2>4. QED
    BY <1>3, <2>2, <2>3 DEF Resize
<1>4. CASE HandleWheel
  <2>1. UNCHANGED <<pushed, oldest, alt>> /\ ScrollbackLen' = ScrollbackLen
    BY <1>4 DEF HandleWheel, ScrollbackLen
  <2>2. CASE offset' = 0 \/ UNCHANGED offset
    BY <1>1, <2>1, <2>2 DEF HistoryOK, OffsetWithin
  <2>3. CASE ~alt /\ \E lines \in {WheelLines, -WheelLines} : scroll(lines)
    BY <1>1, <2>1, <2>3, WheelAssumption DEF HistoryOK, OffsetWithin, scroll, Lesser, Greater
  <2>4. QED
    BY <1>4, <2>2, <2>3 DEF HandleWheel
<1>5. CASE AltScreen \/ Type \/ TypeResume
  BY <1>1, <1>5 DEF HistoryOK, OffsetWithin, ScrollbackLen, AltScreen, Type, TypeResume
<1>6. CASE Copy \/ Dismiss \/ Shown \/ (\E mode \in {"mouse", "alternateScroll"} : setTerminalMode(mode)) \/ UNCHANGED vars
  <2>1. UNCHANGED <<pushed, oldest, alt, offset>>
    BY <1>6 DEF Copy, Dismiss, Shown, setTerminalMode, vars, BeginSelection, UpdateSelection, EndSelection
  <2>2. QED
    BY <2>1 DEF HistoryOK, OffsetWithin, ScrollbackLen
<1>7. QED
  BY <1>2, <1>3, <1>4, <1>5, <1>6 DEF Next, Shown

-----------------------------------------------------------------------------
LEMMA ScreenStep ==
  ASSUME ScreenOK, [Next]_vars
  PROVE  ScreenOK'
<1>1. CASE AltScreen
  <2>1. alt' \in BOOLEAN
    BY <1>1, Zenon DEF AltScreen
  <2>2. QED
    BY <1>1, <2>1 DEF AltScreen, ScreenOK
<1>2. CASE \E mode \in {"mouse", "alternateScroll"} : setTerminalMode(mode)
  <2>1. UNCHANGED <<alt, dragging>> /\ modes' \subseteq {"mouse", "alternateScroll"}
    BY <1>2 DEF setTerminalMode, selectVars, ScreenOK
  <2>2. QED
    BY <2>1 DEF ScreenOK
<1>3. CASE Shown \/ Copy \/ Dismiss \/ Type \/ HandleWheel
  <2>1. dragging' \in BOOLEAN
    BY <1>3, Zenon DEF Shown, BeginSelection, UpdateSelection, EndSelection, Copy, Dismiss, Type, HandleWheel,
       clearTerminalSelection, ScreenOK
  <2>2. UNCHANGED <<alt, modes>>
    BY <1>3, Zenon DEF Shown, BeginSelection, UpdateSelection, EndSelection, Copy, Dismiss, Type, HandleWheel
  <2>3. QED
    BY <2>1, <2>2 DEF ScreenOK
<1>4. CASE Output \/ TypeResume \/ Resize \/ UNCHANGED vars
  <2>1. UNCHANGED <<alt, modes, dragging>>
    BY <1>4, Zenon DEF Output, TypeResume, Resize, vars, selectVars
  <2>2. QED
    BY <2>1 DEF ScreenOK
<1>5. QED
  BY <1>1, <1>2, <1>3, <1>4 DEF Next, Shown

-----------------------------------------------------------------------------
(* The point under the mouse is a row that exists, and the row of the line *)
(* that is drawn there.                                                    *)
LEMMA ViewportPoint ==
  ASSUME HistoryOK, NEW x \in Columns, NEW y \in 0..Height - 1
  PROVE  /\ viewportPoint(x, y) \in Point
         /\ viewportPoint(x, y).row <= ScrollbackLen + Height - 1
         /\ Seen(x, y) \in Point
         /\ Same(viewportPoint(x, y), Seen(x, y))
<1>1. ScrollbackLen \in Nat /\ oldest \in Nat /\ offset \in 0..ScrollbackLen /\ y \in Nat /\ Height \in Nat
  BY PushedAssumption, PaneAssumption DEF HistoryOK, OffsetWithin, ScrollbackLen
<1>2. Greater(0, Lesser(offset, ScrollbackLen)) = offset
  BY <1>1 DEF Greater, Lesser
<1>3. viewportPoint(x, y) = [row |-> ScrollbackLen - offset + y, col |-> x]
  BY <1>2 DEF viewportPoint
<1>4. QED
  BY <1>1, <1>3 DEF Point, Seen, Same

LEMMA NoSelectionOK == NoSelection \in Selections /\ ~NoSelection.started /\ ~NoSelection.visible
<1>1. NoPoint \in Point
  BY PaneAssumption DEF NoPoint, Point, Columns
<1>2. QED
  BY <1>1, Zenon DEF NoSelection, Selections

(* The selection is left alone by what moves the history forward, made by  *)
(* the mouse, and cleared by everything else.                              *)
LEMMA ClearedPlaced ==
  ASSUME SelectionOK, ClearSelection
  PROVE  SelectionOK' /\ Placed'
<1>1. selection' = NoSelection
  BY DEF ClearSelection
<1>2. SelectionOK'
  BY <1>1, NoSelectionOK DEF ClearSelection, SelectionOK
<1>3. Placed'
  BY <1>1, NoSelectionOK DEF Placed
<1>4. QED
  BY <1>2, <1>3

LEMMA BeginPlaced ==
  ASSUME HistoryInv, NEW x \in Columns, NEW y \in 0..Height - 1, BeginSelection(x, y)
  PROVE  SelectionOK' /\ Placed'
<1> DEFINE point == viewportPoint(x, y)
<1>1. point \in Point /\ point.row <= ScrollbackLen + Height - 1 /\ Seen(x, y) \in Point /\ Same(point, Seen(x, y))
  BY ViewportPoint DEF HistoryInv
<1>2. selection' = [anchor |-> point, cursor |-> point, started |-> TRUE, visible |-> FALSE]
  BY DEF BeginSelection
<1>3. pressed' = Seen(x, y) /\ pointed' = Seen(x, y) /\ since' = oldest /\ oldest' = oldest /\ pushed' = pushed
  BY DEF BeginSelection
<1>4. oldest \in Nat
  BY PushedAssumption DEF HistoryInv, HistoryOK
<1> HIDE DEF point
<1>5. selection'.anchor = point /\ selection'.cursor = point /\ ~selection'.visible
  BY <1>2
<1>6. selection' \in Selections
  BY <1>1, <1>2, Zenon DEF Selections
<1>7. SelectionOK'
  BY <1>1, <1>3, <1>4, <1>6 DEF SelectionOK
<1>8. Placed'
  BY <1>1, <1>3, <1>4, <1>5 DEF Placed, Same, ScrollbackLen
<1>9. QED
  BY <1>7, <1>8

(* UpdateSelection and the last move of EndSelection                       *)
LEMMA MovePlaced ==
  ASSUME HistoryInv, NEW x \in Columns, NEW y \in 0..Height - 1,
         selection.started, moveTo(viewportPoint(x, y)), pointed' = Seen(x, y),
         UNCHANGED <<pushed, oldest, pressed, since>>
  PROVE  SelectionOK' /\ Placed'
<1> DEFINE point == viewportPoint(x, y)
<1>1. point \in Point /\ point.row <= ScrollbackLen + Height - 1 /\ Seen(x, y) \in Point /\ Same(point, Seen(x, y))
  BY ViewportPoint DEF HistoryInv
<1>2. selection' = [selection EXCEPT !.cursor = point, !.visible = (point # selection.anchor)]
  BY DEF moveTo
<1> HIDE DEF point
<1>3. (point # selection.anchor) \in BOOLEAN
  BY Zenon
<1>4. selection' \in Selections
  BY <1>1, <1>2, <1>3 DEF HistoryInv, SelectionOK, Selections
<1>5. selection'.cursor = point /\ selection'.anchor = selection.anchor /\ selection'.started = selection.started
  BY <1>2 DEF HistoryInv, SelectionOK, Selections
<1>6. SelectionOK'
  BY <1>1, <1>4 DEF HistoryInv, SelectionOK
<1>7. Placed'
  BY <1>1, <1>5 DEF HistoryInv, Placed, Same, ScrollbackLen
<1>8. QED
  BY <1>6, <1>7

LEMMA KeptPlaced ==
  ASSUME HistoryInv, UNCHANGED selectVars, pushed' \in Nat, oldest' \in Nat, oldest <= oldest', ScrollbackLen <= ScrollbackLen'
  PROVE  SelectionOK' /\ Placed'
<1>1. SelectionOK'
  BY DEF HistoryInv, SelectionOK, selectVars
<1>2. selection' = selection /\ pressed' = pressed /\ pointed' = pointed /\ since' = since
  BY DEF selectVars
<1>3. selection.anchor.row \in Nat /\ selection.cursor.row \in Nat /\ since \in Nat /\ Height \in Nat
      /\ oldest \in Nat /\ ScrollbackLen \in Nat /\ ScrollbackLen' \in Int
  BY PaneAssumption, PushedAssumption DEF HistoryInv, SelectionOK, Selections, Point, HistoryOK, ScrollbackLen
<1>4. Placed'
  BY <1>2, <1>3 DEF HistoryInv, Placed, Same
<1>5. QED
  BY <1>1, <1>4

LEMMA SelectionStep ==
  ASSUME HistoryInv, [Next]_vars
  PROVE  SelectionOK' /\ Placed'
<1>1. CASE Output
  <2>1. PICK n \in 0..MaxPushed - pushed : Push(n)
    BY <1>1 DEF Output
  <2>2. pushed' \in Nat /\ oldest' \in Nat /\ oldest <= oldest' /\ ScrollbackLen <= ScrollbackLen'
    BY <2>1, PushGrows, PushedAssumption DEF HistoryInv
  <2>3. QED
    BY <1>1, <2>2, KeptPlaced DEF Output
<1>2. CASE (\E mode \in {"mouse", "alternateScroll"} : setTerminalMode(mode)) \/ UNCHANGED vars
  <2>1. UNCHANGED selectVars /\ UNCHANGED <<pushed, oldest>> /\ ScrollbackLen' = ScrollbackLen
    BY <1>2 DEF setTerminalMode, vars, ScrollbackLen, selectVars
  <2>2. pushed \in Nat /\ oldest \in Nat /\ ScrollbackLen \in Nat
    BY PushedAssumption DEF HistoryInv, HistoryOK, ScrollbackLen
  <2>3. QED
    BY <2>1, <2>2, KeptPlaced
<1>3. CASE AltScreen \/ Type \/ TypeResume \/ Resize \/ HandleWheel \/ Copy \/ Dismiss
  <2>1. ClearSelection
    BY <1>3 DEF AltScreen, Type, TypeResume, Resize, HandleWheel, Copy, Dismiss, clearTerminalSelection
  <2>2. QED
    BY <2>1, ClearedPlaced DEF HistoryInv
<1>4. CASE Shown
  <2>1. PICK x \in Columns, y \in 0..Height - 1 :
          BeginSelection(x, y) \/ UpdateSelection(x, y) \/ EndSelection(x, y)
    BY <1>4 DEF Shown
  <2>2. CASE BeginSelection(x, y)
    BY <2>2, BeginPlaced
  <2>3. CASE UpdateSelection(x, y)
    BY <2>3, MovePlaced DEF UpdateSelection
  <2>4. CASE EndSelection(x, y) /\ ~ClearSelection
    BY <2>4, MovePlaced DEF EndSelection
  <2>5. CASE ClearSelection
    BY <2>5, ClearedPlaced DEF HistoryInv
  <2>6. QED
    BY <2>1, <2>2, <2>3, <2>4, <2>5
<1>5. QED
  BY <1>1, <1>2, <1>3, <1>4 DEF Next, Shown

-----------------------------------------------------------------------------
LEMMA HistoryHolds == Spec => []HistoryInv
<1>1. Init => HistoryInv
  <2>1. SUFFICES ASSUME Init
                 PROVE  HistoryInv
    OBVIOUS
  <2>2. HistoryOK
    BY <2>1, CapacityAssumption, PushedAssumption DEF Init, HistoryOK, OffsetWithin, ScrollbackLen
  <2>3. ScreenOK
    BY <2>1, Zenon DEF Init, ScreenOK
  <2>4. SelectionOK
    BY <2>1, NoSelectionOK, PaneAssumption DEF Init, SelectionOK, NoPoint, Point, Columns
  <2>5. Placed
    BY <2>1, NoSelectionOK DEF Init, Placed
  <2>6. QED
    BY <2>2, <2>3, <2>4, <2>5 DEF HistoryInv
<1>2. HistoryInv /\ [Next]_vars => HistoryInv'
  BY HistoryStep, ScreenStep, SelectionStep DEF HistoryInv
<1>3. QED
  BY <1>1, <1>2, PTL DEF Spec

(* Type correctness                                                        *)
THEOREM HistoryTyping == Spec => []TypeOK
<1>1. HistoryInv => TypeOK
  BY DEF HistoryInv, HistoryOK, ScreenOK, SelectionOK, Selections, TypeOK
<1>2. QED
  BY <1>1, HistoryHolds, PTL

(* The view never reaches above the oldest line that is kept, and the      *)
(* alternate screen is shown from its bottom.                              *)
THEOREM OffsetSafety == Spec => []OffsetWithin
<1>1. HistoryInv => OffsetWithin
  BY DEF HistoryInv, HistoryOK
<1>2. QED
  BY <1>1, HistoryHolds, PTL

(* Who looks at the history keeps seeing the same lines while output comes *)
(* in, until the history is full.                                          *)
THEOREM ViewSafety == Spec => ViewStays
<1>1. ASSUME HistoryInv, [Next]_vars, offset > 0, ~alt, pushed' > pushed, oldest' = oldest
      PROVE  pushed' - offset' = pushed - offset
  <2>1. pushed \in Nat /\ oldest \in Nat /\ offset \in Nat /\ ScrollbackLen = pushed - oldest /\ offset <= pushed - oldest
    BY <1>1, PushedAssumption DEF HistoryInv, HistoryOK, OffsetWithin, ScrollbackLen
  <2>2. CASE Output \/ Resize
    <3>1. pushed' \in Nat
      BY <1>1, PushedAssumption, HistoryStep DEF HistoryInv, HistoryOK
    <3>2. follow
      BY <2>2 DEF Output, Resize
    <3>3. ScrollbackLen' = pushed' - oldest
      BY <1>1 DEF ScrollbackLen
    <3>4. offset' = Lesser(IF offset > 0 /\ (pushed' - oldest) - (pushed - oldest) > 0
                         THEN offset + ((pushed' - oldest) - (pushed - oldest)) ELSE offset, pushed' - oldest)
      BY <2>1, <3>2, <3>3 DEF follow
    <3>5. ASSUME NEW f \in Nat, NEW n \in Nat, NEW o \in Nat, NEW p \in Nat, f > 0, p > n, f <= n - o
          PROVE  p - Lesser(IF f > 0 /\ (p - o) - (n - o) > 0 THEN f + ((p - o) - (n - o)) ELSE f, p - o) = n - f
      <4>1. (p - o) - (n - o) = p - n /\ p - n > 0
        BY <3>5
      <4>2. f + (p - n) \in Int /\ p - o \in Int /\ f + (p - n) <= p - o
        BY <3>5
      <4>3. Lesser(f + (p - n), p - o) = f + (p - n)
        BY <4>2 DEF Lesser
      <4>4. p - (f + (p - n)) = n - f
        OBVIOUS
      <4>5. QED
        BY <3>5, <4>1, <4>3, <4>4
    <3>6. QED
      BY <1>1, <2>1, <3>1, <3>4, <3>5
  <2>3. CASE ~Output /\ ~Resize
    <3>1. pushed' = pushed
      BY <1>1, <2>3, Zenon DEF Next, AltScreen, setTerminalMode, Type, TypeResume, HandleWheel, Copy, Dismiss,
         BeginSelection, UpdateSelection, EndSelection, vars
    <3>2. QED
      BY <1>1, <2>1, <3>1
  <2>4. QED
    BY <2>2, <2>3
<1>2. HistoryInv /\ [Next]_vars
        => [offset > 0 /\ ~alt /\ pushed' > pushed /\ oldest' = oldest
              => pushed' - offset' = pushed - offset]_vars
  BY <1>1
<1>3. QED
  BY <1>2, HistoryHolds, PTL DEF Spec, ViewStays

-----------------------------------------------------------------------------
(* The two ends of a selection are rows that exist.                        *)
LEMMA Ends ==
  ASSUME HistoryInv, selection.visible
  PROVE  /\ Start \in Point /\ End \in Point
         /\ Start.row \in Nat /\ End.row \in Nat /\ Start.col \in Columns /\ End.col \in Columns
         /\ NotAfter(Start, End) /\ End.row <= ScrollbackLen + Height - 1
         /\ FirstRow = Start.row /\ LastRow = End.row
         /\ ScrollbackLen \in Nat
<1>1. ScrollbackLen \in Nat /\ Height \in Nat
  BY PushedAssumption, PaneAssumption DEF HistoryInv, HistoryOK, ScrollbackLen
<1>2. selection.anchor \in Point /\ selection.cursor \in Point
  BY DEF HistoryInv, SelectionOK, Selections
<1>3. selection.anchor.row <= ScrollbackLen + Height - 1 /\ selection.cursor.row <= ScrollbackLen + Height - 1
  BY DEF HistoryInv, Placed
<1>4. Start \in {selection.anchor, selection.cursor} /\ End \in {selection.anchor, selection.cursor}
  BY DEF Start, End, Earlier, Later
<1>5. NotAfter(Start, End)
  BY <1>2, PaneAssumption DEF Start, End, Earlier, Later, NotAfter, Point, Columns
<1>6. Start.row \in Nat /\ End.row \in Nat /\ Start.col \in Columns /\ End.col \in Columns
  BY <1>2, <1>4 DEF Point
<1>7. End.row <= ScrollbackLen + Height - 1
  BY <1>3, <1>4
<1>8. FirstRow = Start.row /\ LastRow = End.row
  BY <1>1, <1>6, <1>7 DEF FirstRow, LastRow, Greater, Lesser
<1>9. QED
  BY <1>1, <1>2, <1>4, <1>5, <1>6, <1>7, <1>8

(* What SelectedText copies are the cells between the two ends.            *)
LEMMA CopiesBetween ==
  ASSUME HistoryInv, selection.visible
  PROVE  SelectedText = {c \in [row : Start.row..End.row, col : Columns] : NotAfter(Start, c) /\ NotAfter(c, End)}
<1>1. SelectedText = {c \in [row : Start.row..End.row, col : Columns] :
                        FirstColumn(c.row) <= c.col /\ c.col <= LastColumn(c.row)}
  BY Ends DEF SelectedText
<1>2. ASSUME NEW c \in [row : Start.row..End.row, col : Columns]
      PROVE  (FirstColumn(c.row) <= c.col /\ c.col <= LastColumn(c.row)) <=> (NotAfter(Start, c) /\ NotAfter(c, End))
  <2>1. c.row \in Start.row..End.row /\ c.col \in 0..Width - 1 /\ Width \in Nat
    BY PaneAssumption DEF Columns
  <2>2. Start.row \in Nat /\ End.row \in Nat /\ Start.col \in 0..Width - 1 /\ End.col \in 0..Width - 1
    BY Ends DEF Columns
  <2>3. QED
    BY <2>1, <2>2, Ends DEF FirstColumn, LastColumn, NotAfter
<1>3. QED
  BY <1>1, <1>2

(* What is drawn highlighted and what is copied are the same cells, for    *)
(* every size of the pane and of the history.                              *)
THEOREM CopySafety == Spec => []CopiesHighlighted
<1>1. ASSUME HistoryInv, selection.visible
      PROVE  SelectedText = {c \in [row : 0..ScrollbackLen + Height - 1, col : Columns] : contains(c.row, c.col)}
  <2>1. Start.row \in Nat /\ End.row \in Nat /\ Start.col \in 0..Width - 1 /\ End.col \in 0..Width - 1
        /\ NotAfter(Start, End) /\ End.row <= ScrollbackLen + Height - 1 /\ ScrollbackLen \in Nat
        /\ Width \in Nat /\ Height \in Nat
    BY <1>1, Ends, PaneAssumption DEF Columns
  <2>2. ASSUME NEW c \in [row : Start.row..End.row, col : Columns]
        PROVE  /\ c \in [row : 0..ScrollbackLen + Height - 1, col : Columns]
               /\ contains(c.row, c.col) <=> NotAfter(Start, c) /\ NotAfter(c, End)
    <3>1. c.row \in Start.row..End.row /\ c.col \in 0..Width - 1
      BY DEF Columns
    <3>2. QED
      BY <1>1, <2>1, <3>1 DEF contains, NotAfter
  <2>3. ASSUME NEW c \in [row : 0..ScrollbackLen + Height - 1, col : Columns], contains(c.row, c.col)
        PROVE  c \in [row : Start.row..End.row, col : Columns]
    <3>1. c.row \in Start.row..End.row
      BY <2>1, <2>3 DEF contains
    <3>2. QED
      BY <3>1
  <2>4. QED
    BY <1>1, <2>2, <2>3, CopiesBetween
<1>2. HistoryInv => CopiesHighlighted
  BY <1>1 DEF CopiesHighlighted
<1>3. QED
  BY <1>2, HistoryHolds, PTL

(* As long as the history forgets nothing, what is copied are the cells    *)
(* of the lines the user drew over, however far they have moved since.     *)
THEOREM SelectionSafety == Spec => []SelectionFollows
<1>1. ASSUME HistoryInv, selection.visible, oldest = since
      PROVE  SelectedText = Drawn
  <2> DEFINE p == Earlier(pressed, pointed)
             q == Later(pressed, pointed)
  <2>1. Same(selection.anchor, pressed) /\ Same(selection.cursor, pointed)
    BY <1>1 DEF HistoryInv, Placed
  <2>2. selection.anchor \in Point /\ selection.cursor \in Point /\ pressed \in Point /\ pointed \in Point /\ oldest \in Nat
    BY <1>1, PushedAssumption DEF HistoryInv, SelectionOK, Selections, HistoryOK
  <2>3. Same(Start, p) /\ Same(End, q)
    BY <2>1, <2>2, PaneAssumption DEF Start, End, Earlier, Later, NotAfter, Same, Point, Columns
  <2>4. p \in Point /\ q \in Point
    BY <2>2 DEF Earlier, Later
  <2>5. Drawn = {[row |-> c.row - oldest, col |-> c.col] :
                   c \in {c \in [row : p.row..q.row, col : Columns] : NotAfter(p, c) /\ NotAfter(c, q)}}
    BY DEF Drawn, Between
  <2>6. Start.row \in Nat /\ End.row \in Nat /\ p.row = Start.row + oldest /\ q.row = End.row + oldest
        /\ p.col = Start.col /\ q.col = End.col
    BY <1>1, <2>3, Ends DEF Same
  <2> HIDE DEF p, q
  <2>7. ASSUME NEW c \in [row : Start.row..End.row, col : Columns], NotAfter(Start, c), NotAfter(c, End)
        PROVE  \E d \in [row : p.row..q.row, col : Columns] :
                 NotAfter(p, d) /\ NotAfter(d, q) /\ c = [row |-> d.row - oldest, col |-> d.col]
    <3> DEFINE d == [row |-> c.row + oldest, col |-> c.col]
    <3>1. c.row \in Start.row..End.row /\ c = [row |-> c.row, col |-> c.col]
      OBVIOUS
    <3>2. d \in [row : p.row..q.row, col : Columns] /\ d.row = c.row + oldest /\ d.col = c.col /\ d.row - oldest = c.row
      BY <2>2, <2>6, <3>1
    <3>3. NotAfter(p, d) /\ NotAfter(d, q)
      BY <2>2, <2>6, <2>7, <3>1, <3>2 DEF NotAfter
    <3> HIDE DEF d
    <3>4. QED
      BY <3>1, <3>2, <3>3
  <2>8. ASSUME NEW d \in [row : p.row..q.row, col : Columns], NotAfter(p, d), NotAfter(d, q)
        PROVE  LET c == [row |-> d.row - oldest, col |-> d.col]
               IN  c \in [row : Start.row..End.row, col : Columns] /\ NotAfter(Start, c) /\ NotAfter(c, End)
    BY <2>2, <2>6, <2>8 DEF NotAfter
  <2>9. QED
    BY <1>1, <2>5, <2>7, <2>8, CopiesBetween
<1>2. HistoryInv => SelectionFollows
  BY <1>1 DEF SelectionFollows
<1>3. QED
  BY <1>2, HistoryHolds, PTL

-----------------------------------------------------------------------------
(* The layout                                                              *)

Paths == Seq(Sides)

-----------------------------------------------------------------------------
(* Lemmas about paths *)

(* The first k steps of a path. *)
Step(q, k) == SubSeq(q, 1, k)

LEMMA StepOf ==
  ASSUME NEW q \in Paths, NEW k \in 0 .. Len(q)
  PROVE  /\ Step(q, k) \in Paths /\ Len(Step(q, k)) = k
         /\ \A i \in 1 .. k : Step(q, k)[i] = q[i]
<1>1. Len(q) \in Nat /\ \A i \in 1 .. k : q[i] \in Sides
  BY LenProperties DEF Paths
<1>2. k \in Int /\ 1 \in Int /\ k \in Nat
  BY <1>1
<1>3. /\ Step(q, k) \in Seq(Sides) /\ Len(Step(q, k)) = IF 1 <= k THEN k - 1 + 1 ELSE 0
      /\ \A i \in 1 .. k - 1 + 1 : Step(q, k)[i] = q[1 + i - 1]
  BY <1>1, <1>2, SubSeqProperties DEF Step
<1>4. k - 1 + 1 = k /\ \A i \in 1 .. k : 1 + i - 1 = i
  BY <1>2
<1>5. QED
  BY <1>2, <1>3, <1>4 DEF Paths

(* The way up from a path and down again. *)
LEMMA UpPath ==
  ASSUME NEW q \in Paths, q # <<>>
  PROVE  /\ Front(q) \in Paths /\ Len(q) \in Nat \ {0} /\ Len(Front(q)) = Len(q) - 1
         /\ Last(q) \in Sides /\ q[Len(q)] = Last(q) /\ q = Append(Front(q), Last(q))
<1>1. Len(q) \in Nat \ {0}
  BY EmptySeq DEF Paths
<1>2. Front(q) = Step(q, Len(q) - 1) /\ Len(q) - 1 \in 0 .. Len(q)
  BY <1>1 DEF Front, Step
<1>3. Front(q) \in Paths /\ Len(Front(q)) = Len(q) - 1
  BY <1>2, StepOf
<1>4. Last(q) \in Sides
  BY <1>1, LenProperties DEF Paths, Last
<1>5. \A i \in 1 .. Len(q) - 1 : Front(q)[i] = q[i]
  BY <1>2, StepOf
<1>6. /\ Append(Front(q), Last(q)) \in Paths /\ Len(Append(Front(q), Last(q))) = Len(q)
      /\ \A i \in 1 .. Len(q) : Append(Front(q), Last(q))[i] = q[i]
  BY <1>1, <1>3, <1>4, <1>5, AppendProperties DEF Paths, Last
<1>7. q = Append(Front(q), Last(q))
  BY <1>6, SeqEqual DEF Paths
<1>8. QED
  BY <1>1, <1>3, <1>4, <1>7 DEF Last

LEMMA DownPath ==
  ASSUME NEW q \in Paths, NEW side \in Sides
  PROVE  /\ Append(q, side) \in Paths /\ Append(q, side) # <<>>
         /\ Front(Append(q, side)) = q /\ Last(Append(q, side)) = side
         /\ Len(q) \in Nat /\ Len(Append(q, side)) = Len(q) + 1
<1>1. /\ Append(q, side) \in Paths /\ Append(q, side) # <<>> /\ Len(q) \in Nat
      /\ Len(Append(q, side)) = Len(q) + 1
  BY AppendProperties, LenProperties DEF Paths
<1>2. Append(q, side) = Append(Front(Append(q, side)), Last(Append(q, side)))
  BY <1>1, UpPath
<1>3. Front(Append(q, side)) \in Paths /\ Last(Append(q, side)) \in Sides
  BY <1>1, UpPath
<1>4. Front(Append(q, side)) = q /\ Last(Append(q, side)) = side
  BY <1>2, <1>3, AppendInjective DEF Paths
<1>5. QED
  BY <1>1, <1>4

LEMMA StepEqual ==
  ASSUME NEW q \in Paths, NEW r \in Paths, NEW k \in 0 .. Len(q), k <= Len(r),
         \A i \in 1 .. k : q[i] = r[i]
  PROVE  Step(q, k) = Step(r, k)
<1>1. k \in 0 .. Len(r)
  BY LenProperties DEF Paths
<1>2. /\ Step(q, k) \in Paths /\ Step(r, k) \in Paths /\ Len(Step(q, k)) = Len(Step(r, k))
      /\ \A i \in 1 .. Len(Step(q, k)) : Step(q, k)[i] = Step(r, k)[i]
  BY <1>1, StepOf
<1>3. QED
  BY <1>2, SeqEqual DEF Paths

LEMMA StepFull ==
  ASSUME NEW q \in Paths
  PROVE  Step(q, Len(q)) = q /\ Step(q, 0) = <<>>
<1>1. Len(q) \in Nat /\ Step(q, Len(q)) = q
  BY SubSeqFull, LenProperties DEF Paths, Step
<1>2. Step(q, 0) \in Paths /\ Len(Step(q, 0)) = 0
  BY <1>1, StepOf, 0 \in 0 .. Len(q)
<1>3. QED
  BY <1>1, <1>2, EmptySeq DEF Paths

(* One step more. *)
LEMMA NextStep ==
  ASSUME NEW q \in Paths, NEW k \in 1 .. Len(q)
  PROVE  /\ Step(q, k) # <<>> /\ Front(Step(q, k)) = Step(q, k - 1) /\ Last(Step(q, k)) = q[k]
         /\ Step(q, k) = Append(Step(q, k - 1), q[k]) /\ q[k] \in Sides
<1>1. Len(q) \in Nat /\ k \in 0 .. Len(q) /\ k - 1 \in 0 .. Len(q) /\ k # 0 /\ k \in 1 .. k
  BY LenProperties DEF Paths
<1>2. Step(q, k) \in Paths /\ Len(Step(q, k)) = k /\ Step(q, k)[k] = q[k]
  BY <1>1, StepOf
<1>3. Step(q, k) # <<>>
  BY <1>1, <1>2, EmptySeq
<1>4. Last(Step(q, k)) = q[k] /\ q[k] \in Sides
  BY <1>2, <1>3, UpPath DEF Last
<1>5. /\ Front(Step(q, k)) \in Paths /\ Len(Front(Step(q, k))) = k - 1
  BY <1>2, <1>3, UpPath
<1>6. \A i \in 1 .. k - 1 : i \in 1 .. k /\ i \in 1 .. Len(q)
  BY <1>1
<1>7. \A i \in 1 .. k - 1 : Front(Step(q, k))[i] = q[i]
  <2>1. Step(q, k) = Append(Front(Step(q, k)), Last(Step(q, k))) /\ Last(Step(q, k)) \in Sides
    BY <1>2, <1>3, UpPath
  <2>2. \A i \in 1 .. Len(Front(Step(q, k))) : Step(q, k)[i] = Front(Step(q, k))[i]
    BY <1>5, <2>1, AppendProperties DEF Paths
  <2>3. \A i \in 1 .. k : Step(q, k)[i] = q[i]
    BY <1>1, StepOf
  <2>4. QED
    BY <1>5, <1>6, <2>2, <2>3
<1>8. /\ Step(q, k - 1) \in Paths /\ Len(Step(q, k - 1)) = k - 1
      /\ \A i \in 1 .. k - 1 : Step(q, k - 1)[i] = q[i]
  BY <1>1, StepOf
<1>9. Front(Step(q, k)) = Step(q, k - 1)
  BY <1>5, <1>7, <1>8, SeqEqual DEF Paths
<1>10. QED
  BY <1>2, <1>3, <1>4, <1>9, UpPath

LEMMA StepOfFront ==
  ASSUME NEW q \in Paths, q # <<>>, NEW k \in 0 .. Len(q) - 1
  PROVE  k \in 0 .. Len(Front(q)) /\ Step(Front(q), k) = Step(q, k)
<1>1. /\ Front(q) \in Paths /\ Len(q) \in Nat \ {0} /\ Len(Front(q)) = Len(q) - 1
      /\ q = Append(Front(q), Last(q)) /\ Last(q) \in Sides
  BY UpPath
<1>2. \A i \in 1 .. Len(Front(q)) : q[i] = Front(q)[i]
  BY <1>1, AppendProperties DEF Paths
<1>3. k \in 0 .. Len(Front(q)) /\ k <= Len(q) /\ \A i \in 1 .. k : i \in 1 .. Len(Front(q))
  BY <1>1
<1>4. QED
  BY <1>1, <1>2, <1>3, StepEqual

(* Prefixes. *)
LEMMA PrefixIsStep ==
  ASSUME NEW q \in Paths, NEW r \in Paths
  PROVE  IsPrefix(q, r) <=> Len(q) \in 0 .. Len(r) /\ q = Step(r, Len(q))
<1>1. Len(q) \in Nat /\ Len(r) \in Nat
  BY LenProperties DEF Paths
<1>2. SubSeq(q, 1, Len(q)) = q
  BY SubSeqFull DEF Paths
<1>3. QED
  BY <1>1, <1>2 DEF IsPrefix, Step

LEMMA PrefixIsConcat ==
  ASSUME NEW q \in Paths, NEW r \in Paths
  PROVE  IsPrefix(q, r) <=> \E s \in Paths : r = q \o s
<1>1. Len(q) \in Nat /\ Len(r) \in Nat
  BY LenProperties DEF Paths
<1>2. ASSUME IsPrefix(q, r) PROVE \E s \in Paths : r = q \o s
  <2>1. Len(q) \in 0 .. Len(r) /\ q = SubSeq(r, 1, Len(q))
    BY <1>2, PrefixIsStep DEF Step
  <2>2. SubSeq(r, 1, Len(q)) \o SubSeq(r, Len(q) + 1, Len(r)) = SubSeq(r, 1, Len(r))
    <3>1. 1 \in 1 .. Len(r) + 1 /\ Len(q) \in 1 - 1 .. Len(r) /\ Len(r) \in Len(q) .. Len(r)
      BY <1>1, <2>1
    <3>2. QED
      BY <3>1, ConcatAdjacentSubSeq DEF Paths
  <2>3. SubSeq(r, 1, Len(r)) = r
    BY SubSeqFull DEF Paths
  <2>4. SubSeq(r, Len(q) + 1, Len(r)) \in Paths
    <3>1. \A i \in Len(q) + 1 .. Len(r) : r[i] \in Sides
      BY <1>1, LenProperties DEF Paths
    <3>2. QED
      BY <1>1, <3>1, SubSeqProperties, Len(q) + 1 \in Int, Len(r) \in Int DEF Paths
  <2>5. QED
    BY <2>1, <2>2, <2>3, <2>4
<1>3. ASSUME NEW s \in Paths, r = q \o s PROVE IsPrefix(q, r)
  <2>1. /\ Len(s) \in Nat /\ Len(r) = Len(q) + Len(s)
        /\ \A i \in 1 .. Len(q) + Len(s) : r[i] = IF i <= Len(q) THEN q[i] ELSE s[i - Len(q)]
    BY <1>3, ConcatProperties, LenProperties DEF Paths
  <2>2. Len(q) \in 0 .. Len(q) /\ Len(q) \in 0 .. Len(r) /\ Len(q) <= Len(r)
    BY <1>1, <2>1
  <2>3. \A i \in 1 .. Len(q) : q[i] = r[i]
    <3>1. ASSUME NEW i \in 1 .. Len(q) PROVE q[i] = r[i]
      <4>1. i \in 1 .. Len(q) + Len(s) /\ i <= Len(q)
        BY <1>1, <2>1
      <4>2. QED
        BY <2>1, <4>1
    <3>2. QED
      BY <3>1
  <2>4. Step(q, Len(q)) = Step(r, Len(q))
    BY <2>2, <2>3, StepEqual
  <2>5. QED
    BY <2>2, <2>4, StepFull, PrefixIsStep
<1>4. QED
  BY <1>2, <1>3

-----------------------------------------------------------------------------
(* Lemmas about sets of paths and about trees *)

LEMMA LeastNumber ==
  ASSUME NEW T \in SUBSET Nat, T # {}
  PROVE  \E n \in T : \A m \in T : n <= m
<1>1. PICK n \in T : \A m \in T : ~(<<m, n>> \in OpToRel(<, Nat))
  BY NatLessThanWellFounded, WFMin, Zenon
<1>2. ASSUME NEW m \in T PROVE n <= m
  <2>1. m \in Nat /\ n \in Nat
    OBVIOUS
  <2>2. m < n => <<m, n>> \in OpToRel(<, Nat)
    BY <2>1 DEF OpToRel
  <2>3. ~(m < n)
    BY <1>1, <2>2, Zenon
  <2>4. QED
    BY <2>1, <2>3
<1>3. QED
  BY <1>2

LEMMA Shortest ==
  ASSUME NEW S \in SUBSET Paths, S # {}
  PROVE  \E q \in S : \A r \in S : Len(q) <= Len(r)
<1> DEFINE T == {Len(q) : q \in S}
<1>1. \A q \in S : Len(q) \in Nat
  BY LenProperties DEF Paths
<1>2. T \in SUBSET Nat /\ T # {}
  BY <1>1
<1>3. PICK n \in T : \A m \in T : n <= m
  <2> HIDE DEF T
  <2>1. QED
    BY <1>2, LeastNumber
<1>4. PICK q \in S : n = Len(q)
  OBVIOUS
<1>5. QED
  BY <1>3, <1>4

(* No path is longer than n. *)
UpTo(S, n) == \A q \in S : Len(q) <= n
Shallow(t) == \E n \in Nat : UpTo(DOMAIN t, n)

LEMMA Longest ==
  ASSUME NEW S \in SUBSET Paths, S # {}, NEW n \in Nat, UpTo(S, n)
  PROVE  \E q \in S : \A r \in S : Len(r) <= Len(q)
<1> DEFINE T == {n - Len(q) : q \in S}
<1>1. \A q \in S : Len(q) \in Nat
  BY LenProperties DEF Paths
<1>2. \A q \in S : n - Len(q) \in Nat
  BY <1>1 DEF UpTo
<1>3. T \in SUBSET Nat /\ T # {}
  BY <1>2
<1>4. PICK k \in T : \A m \in T : k <= m
  <2> HIDE DEF T
  <2>1. QED
    BY <1>3, LeastNumber
<1>5. PICK q \in S : k = n - Len(q)
  OBVIOUS
<1>6. ASSUME NEW r \in S PROVE Len(r) <= Len(q)
  <2>1. n - Len(r) \in T
    OBVIOUS
  <2>2. n - Len(q) <= n - Len(r)
    BY <1>4, <1>5, <2>1
  <2>3. QED
    BY <1>1, <2>2
<1>7. QED
  BY <1>6

(* A parent is a divider, and what is a divider has children. *)
LEMMA TreePaths ==
  ASSUME NEW t, IsTree(t)
  PROVE  /\ DOMAIN t \in SUBSET Paths /\ <<>> \in DOMAIN t
         /\ \A q \in DOMAIN t \ {<<>>} : Front(q) \in DOMAIN t /\ Front(q) \notin LeafPaths(t)
         /\ \A q \in DOMAIN t \ LeafPaths(t), side \in Sides : Append(q, side) \in DOMAIN t
BY DEF IsTree, Paths, LeafPaths

(* All that is above a path is in the tree, and no leaf. *)
LEMMA StepsThere ==
  ASSUME NEW t, IsTree(t), NEW q \in DOMAIN t, NEW k \in 0 .. Len(q)
  PROVE  Step(q, k) \in DOMAIN t /\ (k < Len(q) => Step(q, k) \notin LeafPaths(t))
<1> DEFINE Good(p) == \A j \in 0 .. Len(p) :
                        Step(p, j) \in DOMAIN t /\ (j < Len(p) => Step(p, j) \notin LeafPaths(t))
           Bad == {p \in DOMAIN t : ~Good(p)}
<1>1. Bad \in SUBSET Paths
  BY TreePaths
<1>2. SUFFICES ASSUME Bad # {} PROVE FALSE
  OBVIOUS
<1>3. PICK p \in Bad : \A r \in Bad : Len(p) <= Len(r)
  <2> HIDE DEF Bad
  <2>1. QED
    BY <1>1, <1>2, Shortest
<1>4. p \in DOMAIN t /\ p \in Paths /\ Len(p) \in Nat /\ ~Good(p)
  BY <1>1, LenProperties DEF Paths
<1>5. CASE p = <<>>
  <2>1. Len(p) = 0 /\ \A j \in 0 .. Len(p) : j = Len(p)
    BY <1>4, <1>5, EmptySeq
  <2>2. QED
    BY <1>4, <2>1, StepFull
<1>6. CASE p # <<>>
  <2>1. /\ Front(p) \in DOMAIN t /\ Front(p) \notin LeafPaths(t) /\ Front(p) \in Paths
        /\ Len(Front(p)) = Len(p) - 1
    BY <1>4, <1>6, TreePaths, UpPath
  <2>2. Good(Front(p))
    <3>1. ~(Len(p) <= Len(Front(p)))
      BY <1>4, <2>1
    <3>2. QED
      BY <1>3, <2>1, <3>1
  <2>3. ASSUME NEW j \in 0 .. Len(p)
        PROVE  Step(p, j) \in DOMAIN t /\ (j < Len(p) => Step(p, j) \notin LeafPaths(t))
    <3>1. CASE j = Len(p)
      BY <1>4, <3>1, StepFull
    <3>2. CASE j # Len(p)
      <4>1. j \in 0 .. Len(p) - 1
        BY <1>4, <3>2
      <4>2. j \in 0 .. Len(Front(p)) /\ Step(Front(p), j) = Step(p, j)
        BY <1>4, <1>6, <4>1, StepOfFront
      <4>3. CASE j = Len(Front(p))
        BY <2>1, <4>2, <4>3, StepFull
      <4>4. CASE j # Len(Front(p))
        <5>1. j < Len(Front(p))
          BY <1>4, <2>1, <4>2, <4>4
        <5>2. QED
          BY <2>2, <4>2, <5>1
      <4>5. QED
        BY <4>3, <4>4
    <3>3. QED
      BY <3>1, <3>2
  <2>4. QED
    BY <1>4, <2>3
<1>7. QED
  BY <1>5, <1>6

(* What is above another path is a divider. *)
LEMMA PrefixThere ==
  ASSUME NEW t, IsTree(t), NEW q \in DOMAIN t, NEW p \in Paths, IsPrefix(p, q)
  PROVE  p \in DOMAIN t /\ (p # q => p \notin LeafPaths(t))
<1>1. q \in Paths /\ Len(q) \in Nat
  BY TreePaths, LenProperties DEF Paths
<1>2. Len(p) \in 0 .. Len(q) /\ p = Step(q, Len(p))
  BY <1>1, PrefixIsStep
<1>3. p # q => Len(p) < Len(q)
  <2>1. Len(p) = Len(q) => p = q
    BY <1>1, <1>2, StepFull
  <2>2. QED
    BY <1>1, <1>2, <2>1
<1>4. QED
  BY <1>2, <1>3, StepsThere

(* Leaves that differ part at a divider. *)
LEMMA LeavesPart ==
  ASSUME NEW t, IsTree(t), NEW q \in LeafPaths(t), NEW r \in LeafPaths(t), q # r
  PROVE  \E k \in Nat : /\ k < Len(q) /\ k < Len(r) /\ Step(q, k) = Step(r, k)
                        /\ q[k + 1] # r[k + 1]
<1>1. /\ q \in DOMAIN t /\ r \in DOMAIN t /\ q \in Paths /\ r \in Paths
      /\ Len(q) \in Nat /\ Len(r) \in Nat
  <2>1. q \in DOMAIN t /\ r \in DOMAIN t
    BY DEF LeafPaths
  <2>2. QED
    BY <2>1, TreePaths, LenProperties DEF Paths
<1> DEFINE T == {i \in Nat : i < Len(q) /\ i < Len(r) /\ q[i + 1] # r[i + 1]}
<1>2. CASE T = {}
  <2>1. \A i \in Nat : i < Len(q) /\ i < Len(r) => q[i + 1] = r[i + 1]
    BY <1>2
  <2>2. ASSUME NEW a \in LeafPaths(t), NEW b \in LeafPaths(t), a # b, a \in Paths, b \in Paths,
               b \in DOMAIN t, Len(a) \in Nat, Len(b) \in Nat, Len(a) <= Len(b),
               \A i \in Nat : i < Len(a) /\ i < Len(b) => a[i + 1] = b[i + 1]
        PROVE  FALSE
    <3>1. \A i \in 1 .. Len(a) : a[i] = b[i]
      <4>1. ASSUME NEW i \in 1 .. Len(a) PROVE a[i] = b[i]
        <5>1. i - 1 \in Nat /\ i - 1 < Len(a) /\ i - 1 < Len(b) /\ (i - 1) + 1 = i
          BY <2>2
        <5>2. a[(i - 1) + 1] = b[(i - 1) + 1]
          BY <2>2, <5>1
        <5>3. QED
          BY <5>1, <5>2
      <4>2. QED
        BY <4>1
    <3>2. Len(a) \in 0 .. Len(a) /\ Len(a) \in 0 .. Len(b)
      BY <2>2
    <3>3. Step(a, Len(a)) = Step(b, Len(a)) /\ Step(a, Len(a)) = a
      BY <2>2, <3>1, <3>2, StepEqual, StepFull
    <3>4. IsPrefix(a, b)
      BY <2>2, <3>2, <3>3, PrefixIsStep
    <3>5. QED
      BY <2>2, <3>4, PrefixThere
  <2>3. Len(q) <= Len(r) \/ Len(r) <= Len(q)
    BY <1>1
  <2>4. \A i \in Nat : i < Len(r) /\ i < Len(q) => r[i + 1] = q[i + 1]
    BY <2>1
  <2>5. QED
    BY <1>1, <2>1, <2>2, <2>3, <2>4
<1>3. CASE T # {}
  <2>1. PICK k \in T : \A m \in T : k <= m
    <3>1. T \in SUBSET Nat
      OBVIOUS
    <3> HIDE DEF T
    <3>2. QED
      BY <1>3, <3>1, LeastNumber
  <2>2. k \in Nat /\ k < Len(q) /\ k < Len(r) /\ q[k + 1] # r[k + 1]
    BY <2>1
  <2>3. \A i \in 1 .. k : q[i] = r[i]
    <3>1. ASSUME NEW i \in 1 .. k PROVE q[i] = r[i]
      <4>1. i - 1 \in Nat /\ ~(k <= i - 1) /\ i - 1 < Len(q) /\ i - 1 < Len(r) /\ (i - 1) + 1 = i
        BY <1>1, <2>2
      <4>2. i - 1 \notin T
        <5> HIDE DEF T
        <5>1. QED
          BY <2>1, <4>1
      <4>3. QED
        BY <4>1, <4>2
    <3>2. QED
      BY <3>1
  <2>4. k \in 0 .. Len(q) /\ k <= Len(r)
    BY <1>1, <2>2
  <2>5. Step(q, k) = Step(r, k)
    BY <1>1, <2>3, <2>4, StepEqual
  <2>6. QED
    BY <2>2, <2>5
<1>4. QED
  BY <1>2, <1>3

-----------------------------------------------------------------------------
(* Lemmas about rectangles *)

RectTypes == [at : [Axes -> Int], extent : [Axes -> Nat]]
IsDivider(node) == node.axis \in Axes /\ node.ratio[1] \in Int /\ node.ratio[2] \in Nat \ {0}

LEMMA LeastPane ==
  ASSUME NEW axis
  PROVE  MinPane(axis) \in Nat \ {0}
BY LeastAssumption DEF MinPane

(* SplitSizes leaves nothing over, whatever the ratio. *)
LEMMA SizesFill ==
  ASSUME NEW axis, NEW total \in Nat, NEW ratio, ratio[1] \in Int, ratio[2] \in Nat \ {0}
  PROVE  /\ FirstSize(axis, total, ratio) \in Nat /\ SecondSize(axis, total, ratio) \in Nat
         /\ FirstSize(axis, total, ratio) <= total /\ SecondSize(axis, total, ratio) <= total
         /\ IF total > 0 THEN FirstSize(axis, total, ratio) + Gap + SecondSize(axis, total, ratio) = total
            ELSE FirstSize(axis, total, ratio) = 0 /\ SecondSize(axis, total, ratio) = 0
<1> DEFINE available == LargerOf(0, total - Gap)
           share == (available * ratio[1]) \div ratio[2]
           least == MinPane(axis)
           first == FirstSize(axis, total, ratio)
<1>1. available \in Nat /\ (IF total > 0 THEN available + 1 = total ELSE available = 0)
  BY DEF LargerOf, Gap
<1>2. least \in Nat \ {0}
  BY LeastPane
<1>3. share \in Int
  <2>1. available * ratio[1] \in Int
    BY <1>1
  <2>2. QED
    BY <2>1
<1>4. first = IF available >= 2 * least THEN LargerOf(least, SmallerOf(share, available - least))
              ELSE available \div 2
  BY DEF FirstSize
<1>5. SecondSize(axis, total, ratio) = available - first
  BY DEF SecondSize
<1> HIDE DEF available, share, least, first
<1>6. first \in Nat /\ first <= available
  <2>1. CASE available >= 2 * least
    BY <1>1, <1>2, <1>3, <1>4, <2>1 DEF LargerOf, SmallerOf
  <2>2. CASE ~(available >= 2 * least)
    BY <1>1, <1>4, <2>2
  <2>3. QED
    BY <2>1, <2>2
<1>7. available - first \in Nat /\ available - first <= available
  BY <1>1, <1>6
<1>8. first <= total /\ available - first <= total
  BY <1>1, <1>6, <1>7
<1>9. IF total > 0 THEN first + Gap + (available - first) = total
      ELSE first = 0 /\ available - first = 0
  BY <1>1, <1>6 DEF Gap
<1>10. QED
  BY <1>5, <1>6, <1>7, <1>8, <1>9 DEF first

(* What a divider hands to its sides. *)
LEMMA ChildIs ==
  ASSUME NEW rect \in RectTypes, NEW node, IsDivider(node), NEW side \in Sides
  PROVE  LET child == Child(rect, node, side)
             total == rect.extent[node.axis]
             first == FirstSize(node.axis, total, node.ratio)
         IN /\ child \in RectTypes
            /\ child.at[node.axis] = IF side = 1 THEN rect.at[node.axis]
                                     ELSE rect.at[node.axis] + first + Gap
            /\ child.extent[node.axis] = IF side = 1 THEN first
                                         ELSE SecondSize(node.axis, total, node.ratio)
            /\ \A axis \in Axes \ {node.axis} : /\ child.at[axis] = rect.at[axis]
                                                /\ child.extent[axis] = rect.extent[axis]
<1> DEFINE total == rect.extent[node.axis]
           first == FirstSize(node.axis, total, node.ratio)
           second == SecondSize(node.axis, total, node.ratio)
           axis == node.axis
<1>1. rect.at \in [Axes -> Int] /\ rect.extent \in [Axes -> Nat] /\ axis \in Axes
  BY DEF RectTypes, IsDivider
<1>2. total \in Nat
  BY <1>1
<1>3. first \in Nat /\ second \in Nat
  BY <1>2, SizesFill DEF IsDivider
<1>4. Child(rect, node, side) =
        IF side = 1 THEN [rect EXCEPT !.extent = [rect.extent EXCEPT ![axis] = first]]
        ELSE [rect EXCEPT !.at = [rect.at EXCEPT ![axis] = rect.at[axis] + first + Gap],
                          !.extent = [rect.extent EXCEPT ![axis] = second]]
  BY DEF Child, RectTypes
<1> HIDE DEF total, first, second, axis
<1>5. /\ [rect.extent EXCEPT ![axis] = first] \in [Axes -> Nat]
      /\ [rect.extent EXCEPT ![axis] = second] \in [Axes -> Nat]
      /\ [rect.at EXCEPT ![axis] = rect.at[axis] + first + Gap] \in [Axes -> Int]
  BY <1>1, <1>3 DEF Gap
<1>6. CASE side = 1
  <2>1. /\ Child(rect, node, side) \in RectTypes /\ Child(rect, node, side).at = rect.at
        /\ Child(rect, node, side).extent = [rect.extent EXCEPT ![axis] = first]
    BY <1>1, <1>4, <1>5, <1>6 DEF RectTypes
  <2>2. QED
    BY <1>1, <1>6, <2>1 DEF axis, first, second, total
<1>7. CASE side # 1
  <2>1. /\ Child(rect, node, side) \in RectTypes
        /\ Child(rect, node, side).at = [rect.at EXCEPT ![axis] = rect.at[axis] + first + Gap]
        /\ Child(rect, node, side).extent = [rect.extent EXCEPT ![axis] = second]
    BY <1>1, <1>4, <1>5, <1>7 DEF RectTypes
  <2>2. QED
    BY <1>1, <1>7, <2>1 DEF axis, first, second, total
<1>8. QED
  BY <1>6, <1>7

(* One rectangle lies within another along an axis, if it has an extent there. *)
Inside(inner, outer) ==
  \A axis \in Axes :
    /\ inner.extent[axis] <= outer.extent[axis]
    /\ inner.extent[axis] > 0 =>
         /\ inner.at[axis] >= outer.at[axis]
         /\ inner.at[axis] + inner.extent[axis] <= outer.at[axis] + outer.extent[axis]

LEMMA InsideItself ==
  ASSUME NEW rect \in RectTypes
  PROVE  Inside(rect, rect)
BY DEF Inside, RectTypes

LEMMA InsideAgain ==
  ASSUME NEW a \in RectTypes, NEW b \in RectTypes, NEW c \in RectTypes, Inside(a, b), Inside(b, c)
  PROVE  Inside(a, c)
<1>1. ASSUME NEW axis \in Axes
      PROVE  /\ a.extent[axis] <= c.extent[axis]
             /\ a.extent[axis] > 0 =>
                  /\ a.at[axis] >= c.at[axis]
                  /\ a.at[axis] + a.extent[axis] <= c.at[axis] + c.extent[axis]
  <2>1. /\ a.at[axis] \in Int /\ b.at[axis] \in Int /\ c.at[axis] \in Int
        /\ a.extent[axis] \in Nat /\ b.extent[axis] \in Nat /\ c.extent[axis] \in Nat
    BY DEF RectTypes
  <2>2. QED
    BY <2>1 DEF Inside
<1>2. QED
  BY <1>1 DEF Inside

LEMMA ChildInside ==
  ASSUME NEW rect \in RectTypes, NEW node, IsDivider(node), NEW side \in Sides
  PROVE  Child(rect, node, side) \in RectTypes /\ Inside(Child(rect, node, side), rect)
<1> DEFINE child == Child(rect, node, side)
           total == rect.extent[node.axis]
           first == FirstSize(node.axis, total, node.ratio)
           second == SecondSize(node.axis, total, node.ratio)
<1>1. /\ child \in RectTypes
      /\ child.at[node.axis] = IF side = 1 THEN rect.at[node.axis] ELSE rect.at[node.axis] + first + Gap
      /\ child.extent[node.axis] = IF side = 1 THEN first ELSE second
      /\ \A axis \in Axes \ {node.axis} : /\ child.at[axis] = rect.at[axis]
                                          /\ child.extent[axis] = rect.extent[axis]
  BY ChildIs
<1>2. total \in Nat /\ \A axis \in Axes : rect.at[axis] \in Int /\ rect.extent[axis] \in Nat
  BY DEF RectTypes, IsDivider
<1>3. /\ first \in Nat /\ second \in Nat /\ first <= total /\ second <= total
      /\ IF total > 0 THEN first + Gap + second = total ELSE first = 0 /\ second = 0
  BY <1>2, SizesFill DEF IsDivider
<1> HIDE DEF child, first, second
<1>4. ASSUME NEW axis \in Axes
      PROVE  /\ child.extent[axis] <= rect.extent[axis]
             /\ child.extent[axis] > 0 =>
                  /\ child.at[axis] >= rect.at[axis]
                  /\ child.at[axis] + child.extent[axis] <= rect.at[axis] + rect.extent[axis]
  <2>1. CASE axis # node.axis
    BY <1>1, <1>2, <2>1
  <2>2. CASE axis = node.axis
    BY <1>1, <1>2, <1>3, <2>2 DEF Gap
  <2>3. QED
    BY <2>1, <2>2
<1>5. QED
  BY <1>1, <1>4 DEF Inside, child

-----------------------------------------------------------------------------
(* What Rects computes *)

AreRects(rects, t, whole, S) ==
  rects = [q \in S |-> IF q = <<>> THEN whole
                       ELSE Child(rects[Front(q)], t[Front(q)], Last(q))]

Upper(t, n) == {q \in DOMAIN t : Len(q) < n}

(* The recursion is well-founded: rectangles are found down to any depth.   *)
LEMMA RectsToDepth ==
  ASSUME NEW t, IsTree(t), NEW whole, NEW n \in Nat
  PROVE  \E rects : AreRects(rects, t, whole, Upper(t, n))
<1> DEFINE Bad == {m \in Nat : ~ \E rects : AreRects(rects, t, whole, Upper(t, m))}
<1>1. SUFFICES ASSUME Bad # {} PROVE FALSE
  OBVIOUS
<1>2. PICK m \in Bad : \A k \in Bad : m <= k
  <2>1. Bad \in SUBSET Nat
    OBVIOUS
  <2> HIDE DEF Bad
  <2>2. QED
    BY <1>1, <2>1, LeastNumber
<1>3. m \in Nat /\ ~ \E rects : AreRects(rects, t, whole, Upper(t, m))
  OBVIOUS
<1>4. m # 0
  <2>1. Upper(t, 0) = {}
    BY TreePaths, LenProperties DEF Upper, Paths
  <2>2. AreRects([q \in {} |-> whole], t, whole, {})
    BY DEF AreRects
  <2>3. QED
    BY <1>3, <2>1, <2>2
<1>5. m - 1 \in Nat /\ m - 1 \notin Bad
  <2>1. m - 1 \in Nat /\ ~(m <= m - 1)
    BY <1>3, <1>4
  <2>2. QED
    BY <1>2, <2>1
<1>6. PICK f : AreRects(f, t, whole, Upper(t, m - 1))
  BY <1>5
<1> DEFINE g == [q \in Upper(t, m) |-> IF q = <<>> THEN whole
                                       ELSE Child(f[Front(q)], t[Front(q)], Last(q))]
<1>7. ASSUME NEW q \in Upper(t, m), q # <<>> PROVE g[Front(q)] = f[Front(q)]
  <2>1. q \in DOMAIN t /\ q \in Paths /\ Len(q) < m
    BY TreePaths DEF Upper
  <2>2. Front(q) \in DOMAIN t /\ Len(q) \in Nat /\ Len(Front(q)) = Len(q) - 1
    BY <1>7, <2>1, TreePaths, UpPath
  <2>3. Front(q) \in Upper(t, m - 1) /\ Front(q) \in Upper(t, m)
    BY <1>3, <2>1, <2>2 DEF Upper
  <2>4. QED
    BY <1>6, <2>3 DEF AreRects
<1>8. AreRects(g, t, whole, Upper(t, m))
  <2>1. \A q \in Upper(t, m) : g[q] = IF q = <<>> THEN whole
                                      ELSE Child(g[Front(q)], t[Front(q)], Last(q))
    BY <1>7
  <2>2. g = [q \in Upper(t, m) |-> g[q]]
    OBVIOUS
  <2> HIDE DEF g
  <2>3. QED
    BY <2>1, <2>2 DEF AreRects
<1>9. QED
  BY <1>3, <1>8

LEMMA RectsAre ==
  ASSUME NEW t, IsTree(t), Shallow(t), NEW whole
  PROVE  AreRects(Rects(t, whole), t, whole, DOMAIN t)
<1>1. PICK n \in Nat : UpTo(DOMAIN t, n)
  BY DEF Shallow
<1>2. Upper(t, n + 1) = DOMAIN t
  <2>1. \A q \in DOMAIN t : Len(q) <= n /\ Len(q) \in Nat
    BY <1>1, TreePaths, LenProperties DEF UpTo, Paths
  <2>2. \A q \in DOMAIN t : Len(q) < n + 1
    BY <2>1
  <2>3. QED
    BY <2>2 DEF Upper
<1>3. \E f : AreRects(f, t, whole, DOMAIN t)
  BY <1>2, RectsToDepth, n + 1 \in Nat
<1> DEFINE rect == CHOOSE f : f = [q \in DOMAIN t |->
                                     IF q = <<>> THEN whole
                                     ELSE Child(f[Front(q)], t[Front(q)], Last(q))]
<1>4. Rects(t, whole) = [q \in DOMAIN t |-> rect[q]]
  BY DEF Rects
<1>5. AreRects(rect, t, whole, DOMAIN t)
  BY <1>3 DEF AreRects
<1> HIDE DEF rect
<1>6. rect = [q \in DOMAIN t |-> rect[q]]
  BY <1>5 DEF AreRects
<1>7. QED
  BY <1>4, <1>5, <1>6

LEMMA Dividers ==
  ASSUME NEW t, IsTree(t), NEW q \in DOMAIN t \ LeafPaths(t)
  PROVE  IsDivider(t[q])
<1>1. /\ t[q].axis \in Axes /\ 0 < t[q].ratio[1] /\ t[q].ratio[1] < t[q].ratio[2]
      /\ t[q].ratio \in Nat \X Nat
  BY DEF IsTree, Nodes
<1>2. QED
  BY <1>1 DEF IsDivider

LEMMA TreeRects ==
  ASSUME NEW t, IsTree(t), Shallow(t), NEW whole \in RectTypes
  PROVE  LET rects == Rects(t, whole)
         IN /\ rects[<<>>] = whole
            /\ \A q \in DOMAIN t : rects[q] \in RectTypes
            /\ \A q \in DOMAIN t \ {<<>>} : rects[q] = Child(rects[Front(q)], t[Front(q)], Last(q))
            /\ \A q \in DOMAIN t \ LeafPaths(t), side \in Sides :
                 rects[Append(q, side)] = Child(rects[q], t[q], side)
<1> DEFINE rects == Rects(t, whole)
<1>1. /\ rects[<<>>] = whole
      /\ \A q \in DOMAIN t \ {<<>>} : rects[q] = Child(rects[Front(q)], t[Front(q)], Last(q))
  <2>1. AreRects(rects, t, whole, DOMAIN t) /\ <<>> \in DOMAIN t
    BY RectsAre, TreePaths
  <2> HIDE DEF rects
  <2>2. QED
    BY <2>1 DEF AreRects
<1> HIDE DEF rects
<1>2. \A q \in DOMAIN t : rects[q] \in RectTypes
  <2> DEFINE Bad == {q \in DOMAIN t : rects[q] \notin RectTypes}
  <2>1. SUFFICES ASSUME Bad # {} PROVE FALSE
    OBVIOUS
  <2>2. PICK q \in Bad : \A r \in Bad : Len(q) <= Len(r)
    <3>1. Bad \in SUBSET Paths
      BY TreePaths
    <3> HIDE DEF Bad
    <3>2. QED
      BY <2>1, <3>1, Shortest
  <2>3. q \in DOMAIN t \ {<<>>} /\ q \in Paths
    BY <1>1, TreePaths
  <2>4. /\ Front(q) \in DOMAIN t \ LeafPaths(t) /\ Last(q) \in Sides
        /\ Len(q) \in Nat \ {0} /\ Len(Front(q)) = Len(q) - 1
    BY <2>3, TreePaths, UpPath
  <2>5. rects[Front(q)] \in RectTypes
    <3>1. ~(Len(q) <= Len(Front(q)))
      BY <2>4
    <3>2. Front(q) \notin Bad
      <4> HIDE DEF Bad
      <4>1. QED
        BY <2>2, <3>1
    <3>3. QED
      BY <2>4, <3>2
  <2>6. Child(rects[Front(q)], t[Front(q)], Last(q)) \in RectTypes
    BY <2>4, <2>5, Dividers, ChildInside
  <2>7. QED
    BY <1>1, <2>3, <2>6
<1>3. ASSUME NEW q \in DOMAIN t \ LeafPaths(t), NEW side \in Sides
      PROVE  rects[Append(q, side)] = Child(rects[q], t[q], side)
  <2>1. q \in Paths /\ Append(q, side) \in DOMAIN t
    BY TreePaths
  <2>2. /\ Append(q, side) # <<>> /\ Front(Append(q, side)) = q /\ Last(Append(q, side)) = side
    BY <2>1, DownPath
  <2>3. QED
    BY <1>1, <2>1, <2>2
<1>4. QED
  BY <1>1, <1>2, <1>3 DEF rects

(* A rectangle lies within all that were divided to get it. *)
LEMMA InsideSteps ==
  ASSUME NEW t, IsTree(t), Shallow(t), NEW whole \in RectTypes,
         NEW q \in DOMAIN t, NEW k \in 0 .. Len(q)
  PROVE  Inside(Rects(t, whole)[q], Rects(t, whole)[Step(q, k)])
<1> DEFINE rects == Rects(t, whole)
           Good(p) == \A j \in 0 .. Len(p) : Inside(rects[p], rects[Step(p, j)])
           Bad == {p \in DOMAIN t : ~Good(p)}
<1>1. /\ \A p \in DOMAIN t : rects[p] \in RectTypes
      /\ \A p \in DOMAIN t \ {<<>>} : rects[p] = Child(rects[Front(p)], t[Front(p)], Last(p))
  BY TreeRects
<1> HIDE DEF rects
<1>2. SUFFICES ASSUME Bad # {} PROVE FALSE
  BY DEF rects
<1>3. PICK p \in Bad : \A r \in Bad : Len(p) <= Len(r)
  <2>1. Bad \in SUBSET Paths
    BY TreePaths
  <2> HIDE DEF Bad
  <2>2. QED
    BY <1>2, <2>1, Shortest
<1>4. p \in DOMAIN t /\ p \in Paths /\ Len(p) \in Nat /\ ~Good(p)
  BY TreePaths, LenProperties DEF Paths
<1>5. ASSUME NEW j \in 0 .. Len(p) PROVE Inside(rects[p], rects[Step(p, j)])
  <2>1. CASE j = Len(p)
    BY <1>1, <1>4, <2>1, StepFull, InsideItself
  <2>2. CASE j # Len(p)
    <3>1. p # <<>> /\ j \in 0 .. Len(p) - 1
      <4>1. j \in 0 .. Len(p) - 1 /\ Len(p) # 0
        BY <1>4, <2>2
      <4>2. QED
        BY <4>1, EmptySeq
    <3>2. /\ Front(p) \in DOMAIN t \ LeafPaths(t) /\ Last(p) \in Sides
          /\ Len(Front(p)) = Len(p) - 1
      BY <1>4, <3>1, TreePaths, UpPath
    <3>3. j \in 0 .. Len(Front(p)) /\ Step(Front(p), j) = Step(p, j)
      BY <1>4, <3>1, StepOfFront
    <3>4. Good(Front(p))
      <4>1. ~(Len(p) <= Len(Front(p)))
        BY <1>4, <3>2
      <4>2. Front(p) \notin Bad
        <5> HIDE DEF Bad
        <5>1. QED
          BY <1>3, <4>1
      <4>3. QED
        BY <3>2, <4>2
    <3>5. Inside(rects[Front(p)], rects[Step(p, j)])
      BY <3>3, <3>4
    <3>6. Inside(rects[p], rects[Front(p)])
      BY <1>1, <1>4, <3>1, <3>2, Dividers, ChildInside
    <3>7. Step(p, j) \in DOMAIN t
      BY <1>4, StepsThere
    <3>8. rects[p] \in RectTypes /\ rects[Front(p)] \in RectTypes /\ rects[Step(p, j)] \in RectTypes
      BY <1>1, <1>4, <3>2, <3>7
    <3>9. QED
      BY <3>5, <3>6, <3>8, InsideAgain
  <2>3. QED
    BY <2>1, <2>2
<1>6. QED
  BY <1>4, <1>5

(* What lies within the two sides of a divider is apart. *)
LEMMA SidesApart ==
  ASSUME NEW rect \in RectTypes, NEW node, IsDivider(node),
         NEW a \in RectTypes, Inside(a, Child(rect, node, 1)), IsDrawn(a),
         NEW b \in RectTypes, Inside(b, Child(rect, node, 2)), IsDrawn(b)
  PROVE  Apart(a, b) /\ Apart(b, a)
<1> DEFINE one == Child(rect, node, 1)
           two == Child(rect, node, 2)
           axis == node.axis
           total == rect.extent[axis]
           first == FirstSize(axis, total, node.ratio)
<1>1. /\ one \in RectTypes /\ two \in RectTypes /\ axis \in Axes
      /\ one.at[axis] = rect.at[axis] /\ one.extent[axis] = first
      /\ two.at[axis] = rect.at[axis] + first + Gap
  BY ChildIs, 1 \in Sides, 2 \in Sides, 2 # 1 DEF IsDivider, Sides
<1>2. total \in Nat /\ first \in Nat
  BY SizesFill DEF RectTypes, IsDivider
<1>3. /\ a.at[axis] \in Int /\ a.extent[axis] \in Nat /\ b.at[axis] \in Int /\ b.extent[axis] \in Nat
      /\ rect.at[axis] \in Int
  BY <1>1 DEF RectTypes
<1>4. a.extent[axis] > 0 /\ b.extent[axis] > 0
  BY <1>1 DEF IsDrawn, Axes
<1>5. a.at[axis] + a.extent[axis] <= one.at[axis] + one.extent[axis] /\ b.at[axis] >= two.at[axis]
  BY <1>1, <1>4 DEF Inside
<1> HIDE DEF one, two, axis, first
<1>6. a.at[axis] + a.extent[axis] + Gap <= b.at[axis]
  BY <1>1, <1>2, <1>3, <1>5 DEF Gap
<1>7. QED
  BY <1>1, <1>6 DEF Apart

(* The rectangles of a layout tile what it is given. *)
LEMMA RectsTile ==
  ASSUME NEW t, IsTree(t), Shallow(t), NEW whole \in RectTypes
  PROVE  LET rects == Rects(t, whole)
             drawn == DrawnPaths(t, rects)
         IN /\ \A q \in drawn : Within(rects[q], whole)
            /\ \A q, r \in drawn : q # r => Apart(rects[q], rects[r])
            /\ \A q \in DOMAIN t \ LeafPaths(t) :
                 LET axis == t[q].axis
                     Size(r) == rects[r].extent[axis]
                 IN Size(q) > Gap => Size(Append(q, 1)) + Gap + Size(Append(q, 2)) = Size(q)
<1> DEFINE rects == Rects(t, whole)
           drawn == DrawnPaths(t, rects)
<1>1. /\ rects[<<>>] = whole /\ \A q \in DOMAIN t : rects[q] \in RectTypes
      /\ \A q \in DOMAIN t \ LeafPaths(t), side \in Sides :
           rects[Append(q, side)] = Child(rects[q], t[q], side)
  BY TreeRects
<1>2. \A q \in DOMAIN t, k \in Nat : k <= Len(q) => Inside(rects[q], rects[Step(q, k)])
  <2>1. ASSUME NEW q \in DOMAIN t, NEW k \in Nat, k <= Len(q)
        PROVE  Inside(rects[q], rects[Step(q, k)])
    <3>1. k \in 0 .. Len(q)
      BY <2>1, TreePaths, LenProperties DEF Paths
    <3>2. QED
      BY <3>1, InsideSteps
  <2>2. QED
    BY <2>1
<1>3. \A q \in drawn : q \in LeafPaths(t) /\ q \in DOMAIN t /\ q \in Paths /\ Len(q) \in Nat /\ IsDrawn(rects[q])
  BY TreePaths, LenProperties DEF DrawnPaths, LeafPaths, Paths
<1> HIDE DEF rects, drawn
<1>4. ASSUME NEW q \in drawn PROVE Within(rects[q], whole)
  <2>1. Inside(rects[q], whole)
    <3>1. Step(q, 0) = <<>> /\ 0 <= Len(q)
      BY <1>3, StepFull
    <3>2. QED
      BY <1>1, <1>2, <1>3, <3>1
  <2>2. \A axis \in Axes : rects[q].extent[axis] > 0
    BY <1>3 DEF IsDrawn, Axes
  <2>3. QED
    BY <2>1, <2>2 DEF Inside, Within
<1>5. ASSUME NEW q \in drawn, NEW r \in drawn, q # r PROVE Apart(rects[q], rects[r])
  <2>1. PICK k \in Nat : /\ k < Len(q) /\ k < Len(r) /\ Step(q, k) = Step(r, k)
                         /\ q[k + 1] # r[k + 1]
    BY <1>3, <1>5, LeavesPart
  <2> DEFINE at == Step(q, k)
  <2>2. k \in 0 .. Len(q) /\ k + 1 \in 1 .. Len(q) /\ k + 1 \in 1 .. Len(r) /\ k + 1 \in Nat
        /\ k + 1 - 1 = k /\ k + 1 <= Len(q) /\ k + 1 <= Len(r)
    BY <1>3, <2>1
  <2>3. at \in DOMAIN t \ LeafPaths(t) /\ at \in Paths
    BY <1>3, <2>1, <2>2, StepsThere, TreePaths
  <2>4. /\ Step(q, k + 1) = Append(at, q[k + 1]) /\ q[k + 1] \in Sides
        /\ Step(r, k + 1) = Append(at, r[k + 1]) /\ r[k + 1] \in Sides
    <3>1. ASSUME NEW p \in Paths, NEW j \in 1 .. Len(p), j - 1 = k
          PROVE  Step(p, j) = Append(Step(p, k), p[j]) /\ p[j] \in Sides
      BY <3>1, NextStep
    <3>2. QED
      BY <1>3, <2>1, <2>2, <3>1
  <2>5. /\ Inside(rects[q], Child(rects[at], t[at], q[k + 1]))
        /\ Inside(rects[r], Child(rects[at], t[at], r[k + 1]))
    <3>1. /\ Inside(rects[q], rects[Step(q, k + 1)]) /\ Inside(rects[r], rects[Step(r, k + 1)])
      BY <1>2, <1>3, <2>2
    <3>2. /\ rects[Step(q, k + 1)] = Child(rects[at], t[at], q[k + 1])
          /\ rects[Step(r, k + 1)] = Child(rects[at], t[at], r[k + 1])
      <4> HIDE DEF at
      <4>1. QED
        BY <1>1, <2>3, <2>4
    <3>3. QED
      BY <3>1, <3>2
  <2>6. /\ rects[q] \in RectTypes /\ rects[r] \in RectTypes /\ rects[at] \in RectTypes
        /\ IsDivider(t[at])
    BY <1>1, <1>3, <2>3, Dividers
  <2>7. (q[k + 1] = 1 /\ r[k + 1] = 2) \/ (q[k + 1] = 2 /\ r[k + 1] = 1)
    BY <2>1, <2>4 DEF Sides
  <2> HIDE DEF at
  <2>8. QED
    BY <1>3, <2>5, <2>6, <2>7, SidesApart
<1>6. ASSUME NEW q \in DOMAIN t \ LeafPaths(t), rects[q].extent[t[q].axis] > Gap
      PROVE  rects[Append(q, 1)].extent[t[q].axis] + Gap + rects[Append(q, 2)].extent[t[q].axis]
               = rects[q].extent[t[q].axis]
  <2> DEFINE total == rects[q].extent[t[q].axis]
  <2>1. /\ rects[q] \in RectTypes /\ IsDivider(t[q]) /\ 1 \in Sides /\ 2 \in Sides
        /\ rects[Append(q, 1)] = Child(rects[q], t[q], 1)
        /\ rects[Append(q, 2)] = Child(rects[q], t[q], 2)
    BY <1>1, Dividers DEF Sides
  <2>2. total \in Nat /\ total > 0
    BY <1>6, <2>1 DEF RectTypes, IsDivider, Gap
  <2>3. /\ rects[Append(q, 1)].extent[t[q].axis] = FirstSize(t[q].axis, total, t[q].ratio)
        /\ rects[Append(q, 2)].extent[t[q].axis] = SecondSize(t[q].axis, total, t[q].ratio)
    BY <2>1, ChildIs
  <2>4. FirstSize(t[q].axis, total, t[q].ratio) + Gap + SecondSize(t[q].axis, total, t[q].ratio) = total
    BY <2>1, <2>2, SizesFill DEF IsDivider
  <2>5. QED
    BY <2>3, <2>4
<1>7. QED
  BY <1>4, <1>5, <1>6 DEF rects, drawn

-----------------------------------------------------------------------------
(* What MinExtent computes *)

AreExtents(least, t, axis, S) ==
  least = [q \in S |-> IF IsLeaf(t, q) THEN MinPane(axis)
                       ELSE IF t[q].axis = axis
                              THEN least[Append(q, 1)] + Gap + least[Append(q, 2)]
                              ELSE LargerOf(least[Append(q, 1)], least[Append(q, 2)])]

Lower(t, n, m) == {q \in DOMAIN t : n < Len(q) + m}

(* The recursion is well-founded: extents are found up to any height.       *)
LEMMA ExtentsToHeight ==
  ASSUME NEW t, IsTree(t), NEW n \in Nat, UpTo(DOMAIN t, n), NEW axis, NEW height \in Nat
  PROVE  \E least : AreExtents(least, t, axis, Lower(t, n, height))
<1> DEFINE Bad == {m \in Nat : ~ \E least : AreExtents(least, t, axis, Lower(t, n, m))}
<1>1. SUFFICES ASSUME Bad # {} PROVE FALSE
  OBVIOUS
<1>2. PICK m \in Bad : \A k \in Bad : m <= k
  <2>1. Bad \in SUBSET Nat
    OBVIOUS
  <2> HIDE DEF Bad
  <2>2. QED
    BY <1>1, <2>1, LeastNumber
<1>3. m \in Nat /\ ~ \E least : AreExtents(least, t, axis, Lower(t, n, m))
  OBVIOUS
<1>4. m # 0
  <2>1. Lower(t, n, 0) = {}
    BY TreePaths, LenProperties DEF Lower, Paths, UpTo
  <2>2. AreExtents([q \in {} |-> 0], t, axis, {})
    BY DEF AreExtents
  <2>3. QED
    BY <1>3, <2>1, <2>2
<1>5. m - 1 \in Nat /\ m - 1 \notin Bad
  <2>1. m - 1 \in Nat /\ ~(m <= m - 1)
    BY <1>3, <1>4
  <2>2. QED
    BY <1>2, <2>1
<1>6. PICK f : AreExtents(f, t, axis, Lower(t, n, m - 1))
  BY <1>5
<1> DEFINE g == [q \in Lower(t, n, m) |->
                   IF IsLeaf(t, q) THEN MinPane(axis)
                   ELSE IF t[q].axis = axis THEN f[Append(q, 1)] + Gap + f[Append(q, 2)]
                   ELSE LargerOf(f[Append(q, 1)], f[Append(q, 2)])]
<1>7. ASSUME NEW q \in Lower(t, n, m), ~IsLeaf(t, q), NEW side \in Sides
      PROVE  g[Append(q, side)] = f[Append(q, side)]
  <2>1. q \in DOMAIN t \ LeafPaths(t) /\ q \in Paths /\ n < Len(q) + m
    BY <1>7, TreePaths DEF Lower, LeafPaths
  <2>2. /\ Append(q, side) \in DOMAIN t /\ Len(q) \in Nat
        /\ Len(Append(q, side)) = Len(q) + 1
    BY <2>1, TreePaths, DownPath
  <2>3. Append(q, side) \in Lower(t, n, m - 1) /\ Append(q, side) \in Lower(t, n, m)
    BY <1>3, <2>1, <2>2 DEF Lower
  <2>4. QED
    BY <1>6, <2>3 DEF AreExtents
<1>8. AreExtents(g, t, axis, Lower(t, n, m))
  <2>1. \A q \in Lower(t, n, m) :
          g[q] = IF IsLeaf(t, q) THEN MinPane(axis)
                 ELSE IF t[q].axis = axis THEN g[Append(q, 1)] + Gap + g[Append(q, 2)]
                 ELSE LargerOf(g[Append(q, 1)], g[Append(q, 2)])
    BY <1>7 DEF Sides
  <2>2. g = [q \in Lower(t, n, m) |-> g[q]]
    OBVIOUS
  <2> HIDE DEF g
  <2>3. QED
    BY <2>1, <2>2 DEF AreExtents
<1>9. QED
  BY <1>3, <1>8

LEMMA ExtentsAre ==
  ASSUME NEW t, IsTree(t), Shallow(t), NEW axis
  PROVE  AreExtents(MinExtent(t, axis), t, axis, DOMAIN t)
<1>1. PICK n \in Nat : UpTo(DOMAIN t, n)
  BY DEF Shallow
<1>2. Lower(t, n, n + 1) = DOMAIN t
  <2>1. \A q \in DOMAIN t : Len(q) \in Nat
    BY TreePaths, LenProperties DEF Paths
  <2>2. \A q \in DOMAIN t : n < Len(q) + (n + 1)
    BY <2>1
  <2>3. QED
    BY <2>2 DEF Lower
<1>3. \E f : AreExtents(f, t, axis, DOMAIN t)
  BY <1>1, <1>2, ExtentsToHeight, n + 1 \in Nat
<1> DEFINE least == CHOOSE f : f =
             [q \in DOMAIN t |-> IF IsLeaf(t, q) THEN MinPane(axis)
                                 ELSE IF t[q].axis = axis
                                        THEN f[Append(q, 1)] + Gap + f[Append(q, 2)]
                                        ELSE LargerOf(f[Append(q, 1)], f[Append(q, 2)])]
<1>4. MinExtent(t, axis) = [q \in DOMAIN t |-> least[q]]
  BY DEF MinExtent
<1>5. AreExtents(least, t, axis, DOMAIN t)
  BY <1>3 DEF AreExtents
<1> HIDE DEF least
<1>6. least = [q \in DOMAIN t |-> least[q]]
  BY <1>5 DEF AreExtents
<1>7. QED
  BY <1>4, <1>5, <1>6

(* No side of a divider asks for less than a pane does.                     *)
LEMMA ExtentsSuffice ==
  ASSUME NEW t, IsTree(t), Shallow(t), NEW axis, NEW q \in DOMAIN t
  PROVE  MinExtent(t, axis)[q] \in Nat /\ MinExtent(t, axis)[q] >= MinPane(axis)
<1> DEFINE least == MinExtent(t, axis)
           Good(p) == least[p] \in Nat /\ least[p] >= MinPane(axis)
           Bad == {p \in DOMAIN t : ~Good(p)}
<1>1. AreExtents(least, t, axis, DOMAIN t) /\ MinPane(axis) \in Nat \ {0}
  BY ExtentsAre, LeastPane
<1> HIDE DEF least
<1>2. SUFFICES ASSUME Bad # {} PROVE FALSE
  BY DEF least
<1>3. PICK n \in Nat : UpTo(DOMAIN t, n)
  BY DEF Shallow
<1>4. PICK p \in Bad : \A r \in Bad : Len(r) <= Len(p)
  <2>1. Bad \in SUBSET Paths /\ UpTo(Bad, n)
    BY <1>3, TreePaths DEF UpTo
  <2> HIDE DEF Bad
  <2>2. QED
    BY <1>2, <2>1, Longest
<1>5. p \in DOMAIN t /\ p \in Paths /\ Len(p) \in Nat /\ ~Good(p)
  BY TreePaths, LenProperties DEF Paths
<1>6. ~IsLeaf(t, p)
  BY <1>1, <1>5 DEF AreExtents
<1>7. ASSUME NEW side \in Sides PROVE Good(Append(p, side))
  <2>1. Append(p, side) \in DOMAIN t /\ Len(Append(p, side)) = Len(p) + 1
    BY <1>5, <1>6, TreePaths, DownPath DEF LeafPaths
  <2>2. ~(Len(Append(p, side)) <= Len(p))
    BY <1>5, <2>1
  <2>3. Append(p, side) \notin Bad
    <3> HIDE DEF Bad
    <3>1. QED
      BY <1>4, <2>2
  <2>4. QED
    BY <2>1, <2>3
<1>8. Good(Append(p, 1)) /\ Good(Append(p, 2))
  BY <1>7 DEF Sides
<1>9. least[p] = IF t[p].axis = axis THEN least[Append(p, 1)] + Gap + least[Append(p, 2)]
                 ELSE LargerOf(least[Append(p, 1)], least[Append(p, 2)])
  BY <1>1, <1>5, <1>6 DEF AreExtents
<1>10. QED
  BY <1>1, <1>5, <1>8, <1>9 DEF LargerOf, Gap

-----------------------------------------------------------------------------
(* What ResizeSplit does *)

(* A divider that can move has room on both sides where it is put.          *)
LEMMA LineHasRoom ==
  ASSUME NEW t, IsTree(t), Shallow(t), NEW whole \in RectTypes,
         NEW q \in DOMAIN t \ LeafPaths(t), NEW edge, NEW pos \in Int,
         Movable(t, Rects(t, whole), q)
  PROVE  LET rect == Rects(t, whole)[q]
             axis == t[q].axis
             room == rect.extent[axis] - Gap
             share == Line(t, Rects(t, whole), q, edge, pos) - rect.at[axis]
         IN /\ rect \in RectTypes /\ axis \in Axes /\ room \in Nat /\ share \in Nat
            /\ MinPane(axis) <= share /\ share <= room - MinPane(axis)
<1> DEFINE rects == Rects(t, whole)
           axis == t[q].axis
           at == rects[q].at[axis]
           extent == rects[q].extent[axis]
           first == MinExtent(t, axis)[Append(q, 1)]
           second == MinExtent(t, axis)[Append(q, 2)]
           least == MinPane(axis)
           line == Line(t, rects, q, edge, pos)
<1>1. rects[q] \in RectTypes /\ axis \in Axes /\ at \in Int /\ extent \in Nat
  BY TreeRects, Dividers DEF RectTypes, IsDivider
<1>2. Append(q, 1) \in DOMAIN t /\ Append(q, 2) \in DOMAIN t
  BY TreePaths DEF Sides
<1>3. /\ first \in Nat /\ first >= least /\ second \in Nat /\ second >= least
      /\ least \in Nat \ {0}
  BY <1>2, ExtentsSuffice, LeastPane
<1>4. LowLine(t, rects, q) = at + first /\ HighLine(t, rects, q) = at + extent - Gap - second
  BY DEF LowLine, HighLine
<1>5. at + first <= at + extent - Gap - second
  BY <1>4 DEF Movable
<1>6. line = LargerOf(at + first, SmallerOf(IF IsFar(edge) THEN pos ELSE pos - Gap,
                                            at + extent - Gap - second))
  BY <1>4 DEF Line
<1> HIDE DEF rects, axis, at, extent, first, second, least, line
<1>7. line \in Int /\ at + first <= line /\ line <= at + extent - Gap - second
  <2>1. (IF IsFar(edge) THEN pos ELSE pos - Gap) \in Int
    BY DEF Gap
  <2>2. QED
    BY <1>1, <1>3, <1>5, <1>6, <2>1 DEF LargerOf, SmallerOf, Gap
<1>8. /\ extent - Gap \in Nat /\ line - at \in Nat /\ least <= line - at
      /\ line - at <= (extent - Gap) - least
  BY <1>1, <1>3, <1>7 DEF Gap
<1>9. QED
  BY <1>1, <1>8 DEF rects, axis, at, extent, least, line

(* The half cell survives the rounding.                                     *)
LEMMA HalfCell ==
  ASSUME NEW share \in Nat, NEW room \in Nat \ {0}
  PROVE  (room * (2 * share + 1)) \div (2 * room) = share
<1>1. /\ room * (2 * share + 1) = (2 * room) * share + room
      /\ 0 <= room /\ room < 2 * room
  OBVIOUS
<1>2. ASSUME NEW b \in Nat \ {0}, NEW r \in Nat, r < b PROVE (b * share + r) \div b = share
  <2>1. b * share \in Nat
    OBVIOUS
  <2>2. QED
    BY <1>2, <2>1
<1>3. QED
  BY <1>1, <1>2

LEMMA DraggedSize ==
  ASSUME NEW axis, NEW total \in Nat, NEW share \in Nat, total - Gap \in Nat,
         MinPane(axis) <= share, share <= (total - Gap) - MinPane(axis)
  PROVE  FirstSize(axis, total, <<2 * share + 1, 2 * (total - Gap)>>) = share
<1> DEFINE room == total - Gap
<1>1. MinPane(axis) \in Nat \ {0}
  BY LeastPane
<1>2. LargerOf(0, room) = room /\ room \in Nat \ {0} /\ room >= 2 * MinPane(axis)
  BY <1>1 DEF LargerOf
<1>3. (room * (2 * share + 1)) \div (2 * room) = share
  BY <1>2, HalfCell
<1> HIDE DEF room
<1>4. LargerOf(MinPane(axis), SmallerOf(share, room - MinPane(axis))) = share
  BY <1>1, <1>2 DEF LargerOf, SmallerOf, room
<1>5. QED
  BY <1>2, <1>3, <1>4 DEF FirstSize, room

(* Another ratio for one divider. *)
Reshaped(t, u, q, ratio) ==
  /\ DOMAIN u = DOMAIN t /\ u \in [DOMAIN u -> Nodes]
  /\ u[q].ratio = ratio
  /\ \A r \in DOMAIN t : /\ u[r].pane = t[r].pane /\ u[r].axis = t[r].axis
                         /\ r # q => u[r] = t[r]

LEMMA RatioChanges ==
  ASSUME NEW t, t \in [DOMAIN t -> Nodes], NEW q \in DOMAIN t, NEW ratio \in Nat \X Nat
  PROVE  Reshaped(t, [t EXCEPT ![q].ratio = ratio], q, ratio)
<1> DEFINE node == [t[q] EXCEPT !.ratio = ratio]
<1>1. t[q] \in Nodes
  OBVIOUS
<1>2. /\ node \in Nodes /\ node.pane = t[q].pane /\ node.axis = t[q].axis /\ node.ratio = ratio
  BY <1>1 DEF Nodes
<1>3. [t EXCEPT ![q].ratio = ratio] = [t EXCEPT ![q] = node]
  OBVIOUS
<1> HIDE DEF node
<1>4. QED
  BY <1>2, <1>3 DEF Reshaped

(* Trees of the same shape, with good ratios. *)
LEMMA SameShape ==
  ASSUME NEW t, IsTree(t), Shallow(t), NEW u, DOMAIN u = DOMAIN t, u \in [DOMAIN u -> Nodes],
         \A q \in DOMAIN t : u[q].pane = t[q].pane /\ u[q].axis = t[q].axis,
         \A q \in DOMAIN t \ LeafPaths(t) : 0 < u[q].ratio[1] /\ u[q].ratio[1] < u[q].ratio[2]
  PROVE  IsTree(u) /\ Shallow(u) /\ LeafPaths(u) = LeafPaths(t)
<1>1. \A q \in DOMAIN t : IsLeaf(u, q) <=> IsLeaf(t, q)
  BY DEF IsLeaf
<1>2. LeafPaths(u) = LeafPaths(t)
  BY <1>1 DEF LeafPaths
<1>3. Shallow(u)
  BY DEF Shallow
<1>4. \A q, r \in LeafPaths(u) : u[q].pane = u[r].pane => q = r
  BY <1>2 DEF IsTree, LeafPaths
<1>5. QED
  BY <1>1, <1>2, <1>3, <1>4 DEF IsTree

LEMMA DragTree ==
  ASSUME NEW t, IsTree(t), Shallow(t), NEW whole \in RectTypes,
         NEW q \in DOMAIN t \ LeafPaths(t), NEW edge, NEW pos \in Int,
         Movable(t, Rects(t, whole), q)
  PROVE  LET u == ResizeSplit(t, Rects(t, whole), q, edge, pos)
             rect == Rects(t, whole)[q]
             share == Line(t, Rects(t, whole), q, edge, pos) - rect.at[t[q].axis]
         IN /\ IsTree(u) /\ Shallow(u) /\ LeafPaths(u) = LeafPaths(t)
            /\ Reshaped(t, u, q, <<2 * share + 1, 2 * (rect.extent[t[q].axis] - Gap)>>)
<1> DEFINE u == ResizeSplit(t, Rects(t, whole), q, edge, pos)
           rect == Rects(t, whole)[q]
           axis == t[q].axis
           room == rect.extent[axis] - Gap
           share == Line(t, Rects(t, whole), q, edge, pos) - rect.at[axis]
           ratio == <<2 * share + 1, 2 * room>>
<1>1. /\ room \in Nat /\ share \in Nat /\ MinPane(axis) \in Nat \ {0}
      /\ MinPane(axis) <= share /\ share <= room - MinPane(axis)
  BY LineHasRoom, LeastPane
<1>2. u = [t EXCEPT ![q].ratio = ratio]
  BY DEF ResizeSplit
<1>3. t \in [DOMAIN t -> Nodes]
  BY DEF IsTree
<1> HIDE DEF room, share, u
<1>4. ratio \in Nat \X Nat /\ 0 < ratio[1] /\ ratio[1] < ratio[2]
  <2>1. 2 * share + 1 \in Nat /\ 2 * room \in Nat /\ 0 < 2 * share + 1 /\ 2 * share + 1 < 2 * room
    BY <1>1
  <2>2. QED
    BY <2>1
<1> HIDE DEF ratio
<1>5. Reshaped(t, u, q, ratio)
  BY <1>2, <1>3, <1>4, RatioChanges
<1>6. IsTree(u) /\ Shallow(u) /\ LeafPaths(u) = LeafPaths(t)
  <2>1. \A r \in DOMAIN t \ LeafPaths(t) : 0 < t[r].ratio[1] /\ t[r].ratio[1] < t[r].ratio[2]
    BY DEF IsTree
  <2>2. \A r \in DOMAIN t \ LeafPaths(t) : 0 < u[r].ratio[1] /\ u[r].ratio[1] < u[r].ratio[2]
    BY <1>4, <1>5, <2>1 DEF Reshaped
  <2>3. QED
    BY <1>5, <2>2, SameShape DEF Reshaped
<1>7. QED
  BY <1>5, <1>6 DEF u, ratio, share, room

(* Only what is below a divider moves with it.                              *)
LEMMA OthersStay ==
  ASSUME NEW t, IsTree(t), Shallow(t), NEW u, IsTree(u), Shallow(u), NEW whole \in RectTypes,
         NEW q \in DOMAIN t, NEW ratio, Reshaped(t, u, q, ratio),
         NEW r \in DOMAIN t, IsPrefix(q, r) => r = q
  PROVE  Rects(u, whole)[r] = Rects(t, whole)[r]
<1> DEFINE before == Rects(t, whole)
           after == Rects(u, whole)
           Bad == {p \in DOMAIN t : (IsPrefix(q, p) => p = q) /\ after[p] # before[p]}
<1>1. /\ before[<<>>] = whole /\ after[<<>>] = whole
      /\ \A p \in DOMAIN t \ {<<>>} : /\ before[p] = Child(before[Front(p)], t[Front(p)], Last(p))
                                      /\ after[p] = Child(after[Front(p)], u[Front(p)], Last(p))
  BY TreeRects DEF Reshaped
<1> HIDE DEF before, after
<1>2. SUFFICES ASSUME Bad # {} PROVE FALSE
  BY DEF before, after
<1>3. PICK p \in Bad : \A s \in Bad : Len(p) <= Len(s)
  <2>1. Bad \in SUBSET Paths
    BY TreePaths
  <2> HIDE DEF Bad
  <2>2. QED
    BY <1>2, <2>1, Shortest
<1>4. /\ p \in DOMAIN t \ {<<>>} /\ p \in Paths /\ q \in Paths
      /\ (IsPrefix(q, p) => p = q) /\ after[p] # before[p]
  BY <1>1, TreePaths
<1>5. /\ Front(p) \in DOMAIN t /\ Front(p) \in Paths /\ Len(p) \in Nat \ {0}
      /\ Len(Front(p)) = Len(p) - 1
  BY <1>4, TreePaths, UpPath
<1>6. ~IsPrefix(q, Front(p))
  <2>1. ASSUME IsPrefix(q, Front(p)) PROVE FALSE
    <3>1. Len(q) \in 0 .. Len(Front(p)) /\ q = Step(Front(p), Len(q))
      BY <1>4, <1>5, <2>1, PrefixIsStep
    <3>2. Len(q) \in 0 .. Len(p) - 1 /\ Len(q) \in 0 .. Len(p)
      BY <1>5, <3>1
    <3>3. q = Step(p, Len(q))
      BY <1>4, <3>1, <3>2, StepOfFront
    <3>4. IsPrefix(q, p)
      BY <1>4, <3>2, <3>3, PrefixIsStep
    <3>5. QED
      BY <1>4, <1>5, <3>2, <3>4
  <2>2. QED
    BY <2>1
<1>7. Front(p) # q
  <2>1. IsPrefix(q, q)
    <3>1. Len(q) \in Nat
      BY <1>4, LenProperties DEF Paths
    <3>2. QED
      BY <3>1 DEF IsPrefix
  <2>2. QED
    BY <1>6, <2>1
<1>8. after[Front(p)] = before[Front(p)]
  <2>1. ~(Len(p) <= Len(Front(p)))
    BY <1>5
  <2>2. Front(p) \notin Bad
    <3> HIDE DEF Bad
    <3>1. QED
      BY <1>3, <2>1
  <2>3. QED
    BY <1>5, <1>6, <2>2
<1>9. u[Front(p)] = t[Front(p)]
  BY <1>5, <1>7 DEF Reshaped
<1>10. QED
  BY <1>1, <1>4, <1>8, <1>9

(* A divider that can move lands where it was dragged to, and alone.        *)
LEMMA DragLands ==
  ASSUME NEW t, IsTree(t), Shallow(t), NEW whole \in RectTypes,
         NEW q \in DOMAIN t \ LeafPaths(t), NEW edge, NEW pos \in Int,
         Movable(t, Rects(t, whole), q)
  PROVE  LET before == Rects(t, whole)
             first == Append(q, 1)
             axis == t[q].axis
             after == Rects(ResizeSplit(t, before, q, edge, pos), whole)
         IN /\ after[first].at[axis] + after[first].extent[axis] = Line(t, before, q, edge, pos)
            /\ \A r \in LeafPaths(t) \ Below(t, q) : after[r] = before[r]
<1> DEFINE before == Rects(t, whole)
           u == ResizeSplit(t, before, q, edge, pos)
           after == Rects(u, whole)
           axis == t[q].axis
           total == before[q].extent[axis]
           line == Line(t, before, q, edge, pos)
           share == line - before[q].at[axis]
           ratio == <<2 * share + 1, 2 * (total - Gap)>>
<1>1. /\ before[q] \in RectTypes /\ axis \in Axes /\ total - Gap \in Nat /\ share \in Nat
      /\ MinPane(axis) <= share /\ share <= (total - Gap) - MinPane(axis)
  BY LineHasRoom
<1>2. IsTree(u) /\ Shallow(u) /\ LeafPaths(u) = LeafPaths(t) /\ Reshaped(t, u, q, ratio)
  BY DragTree
<1>3. total \in Nat /\ before[q].at[axis] \in Int /\ line \in Int
  <2>1. total \in Nat /\ before[q].at[axis] \in Int
    BY <1>1 DEF RectTypes
  <2>2. line \in Int
    <3>1. /\ LowLine(t, before, q) \in Int /\ HighLine(t, before, q) \in Int
      <4>1. Append(q, 1) \in DOMAIN t /\ Append(q, 2) \in DOMAIN t
        BY TreePaths DEF Sides
      <4>2. MinExtent(t, axis)[Append(q, 1)] \in Nat /\ MinExtent(t, axis)[Append(q, 2)] \in Nat
        BY <4>1, ExtentsSuffice
      <4>3. QED
        BY <2>1, <4>2 DEF LowLine, HighLine, Gap
    <3>2. QED
      BY <3>1 DEF Line, LargerOf, SmallerOf, Gap
  <2>3. QED
    BY <2>1, <2>2
<1>4. FirstSize(axis, total, ratio) = share
  BY <1>1, <1>3, DraggedSize
<1>5. \A r \in DOMAIN t : (IsPrefix(q, r) => r = q) => after[r] = before[r]
  <2> HIDE DEF u, ratio
  <2>1. QED
    BY <1>2, OthersStay
<1>6. after[Append(q, 1)] = Child(after[q], u[q], 1)
  <2>1. q \in DOMAIN u \ LeafPaths(u)
    BY <1>2 DEF Reshaped
  <2> HIDE DEF u
  <2>2. QED
    BY <1>2, <2>1, TreeRects DEF Sides
<1>7. after[q] = before[q] /\ u[q].axis = axis /\ u[q].ratio = ratio /\ IsDivider(u[q])
  <2>1. after[q] = before[q]
    BY <1>5
  <2>2. q \in DOMAIN u \ LeafPaths(u) /\ u[q].axis = axis /\ u[q].ratio = ratio
    BY <1>2 DEF Reshaped
  <2> HIDE DEF u
  <2>3. QED
    BY <1>2, <2>1, <2>2, Dividers
<1>8. /\ after[Append(q, 1)].at[axis] = before[q].at[axis]
      /\ after[Append(q, 1)].extent[axis] = FirstSize(axis, total, ratio)
  <2> HIDE DEF u, before, after
  <2>1. /\ Child(after[q], u[q], 1).at[u[q].axis] = after[q].at[u[q].axis]
        /\ Child(after[q], u[q], 1).extent[u[q].axis]
             = FirstSize(u[q].axis, after[q].extent[u[q].axis], u[q].ratio)
    <3>1. ASSUME NEW rect \in RectTypes, NEW node, IsDivider(node)
          PROVE  /\ Child(rect, node, 1).at[node.axis] = rect.at[node.axis]
                 /\ Child(rect, node, 1).extent[node.axis]
                      = FirstSize(node.axis, rect.extent[node.axis], node.ratio)
      <4>1. 1 \in Sides
        BY DEF Sides
      <4>2. QED
        BY <3>1, <4>1, ChildIs
    <3>2. QED
      BY <1>1, <1>7, <3>1
  <2>2. QED
    BY <1>6, <1>7, <2>1
<1>9. after[Append(q, 1)].at[axis] + after[Append(q, 1)].extent[axis] = line
  <2> HIDE DEF after, before, line, ratio, total, axis
  <2>1. QED
    BY <1>3, <1>4, <1>8
<1>10. \A r \in LeafPaths(t) \ Below(t, q) : after[r] = before[r]
  <2>1. \A r \in LeafPaths(t) \ Below(t, q) : r \in DOMAIN t /\ ~IsPrefix(q, r)
    BY DEF LeafPaths, Below
  <2>2. QED
    BY <1>5, <2>1
<1>11. QED
  BY <1>9, <1>10

-----------------------------------------------------------------------------
(* Splitting, removing, exchanging and balancing keep the tree *)

LEMMA PathOf ==
  ASSUME NEW t, IsTree(t), NEW p \in PanesOf(t)
  PROVE  /\ PathToPane(t, p) \in LeafPaths(t) /\ PathToPane(t, p) \in DOMAIN t
         /\ t[PathToPane(t, p)].pane = p /\ p \in Panes
<1>1. PICK q \in LeafPaths(t) : t[q].pane = p
  BY DEF PanesOf
<1>2. q \in DOMAIN t /\ p # None /\ t[q] \in Nodes
  BY <1>1 DEF IsTree, LeafPaths, IsLeaf
<1>3. p \in Panes
  BY <1>1, <1>2 DEF Nodes
<1>4. PathToPane(t, p) \in DOMAIN t /\ t[PathToPane(t, p)].pane = p
  BY <1>1, <1>2 DEF PathToPane
<1>5. QED
  BY <1>2, <1>3, <1>4 DEF LeafPaths, IsLeaf

LEMMA SplitTree ==
  ASSUME NEW t, IsTree(t), Shallow(t), NEW p \in PanesOf(t),
         NEW new \in Panes \ PanesOf(t), NEW axis \in Axes
  PROVE  LET at == PathToPane(t, p)
             a1 == Append(at, 1)
             a2 == Append(at, 2)
             u == Split(t, p, new, axis)
         IN /\ IsTree(u) /\ Shallow(u)
            /\ a1 \notin LeafPaths(t) /\ a2 \notin LeafPaths(t)
            /\ LeafPaths(u) = (LeafPaths(t) \ {at}) \cup {a1, a2}
            /\ u[a1].pane = p /\ u[a2].pane = new
            /\ \A q \in LeafPaths(t) \ {at} : u[q].pane = t[q].pane
<1> DEFINE at == PathToPane(t, p)
           a1 == Append(at, 1)
           a2 == Append(at, 2)
           u == Split(t, p, new, axis)
<1>1. at \in LeafPaths(t) /\ at \in DOMAIN t /\ t[at].pane = p /\ p \in Panes /\ at \in Paths
  BY PathOf, TreePaths
<1>2. /\ a1 \in Paths /\ a1 # <<>> /\ Front(a1) = at /\ Last(a1) = 1 /\ Len(a1) = Len(at) + 1
      /\ a2 \in Paths /\ a2 # <<>> /\ Front(a2) = at /\ Last(a2) = 2 /\ Len(a2) = Len(at) + 1
      /\ Len(at) \in Nat
  BY <1>1, DownPath DEF Sides
<1>3. a1 \notin DOMAIN t /\ a2 \notin DOMAIN t /\ a1 # a2 /\ a1 # at /\ a2 # at
  <2>1. a1 \notin DOMAIN t /\ a2 \notin DOMAIN t
    BY <1>1, <1>2, TreePaths
  <2>2. QED
    BY <1>1, <1>2, <2>1
<1>4. u = [q \in DOMAIN t \cup {a1, a2} |-> IF q = at THEN Divider(axis)
                                            ELSE IF q = a1 THEN Leaf(p)
                                            ELSE IF q = a2 THEN Leaf(new)
                                            ELSE t[q]]
  BY DEF Split
<1> HIDE DEF at, a1, a2, u
<1>5. /\ DOMAIN u = DOMAIN t \cup {a1, a2}
      /\ u[at] = Divider(axis) /\ u[a1] = Leaf(p) /\ u[a2] = Leaf(new)
      /\ \A q \in DOMAIN t \ {at} : u[q] = t[q]
  BY <1>1, <1>3, <1>4
<1>6. Divider(axis) \in Nodes /\ Leaf(p) \in Nodes /\ Leaf(new) \in Nodes
  <2>1. <<1, 2>> \in Nat \X Nat
    OBVIOUS
  <2>2. QED
    BY <1>1, <2>1 DEF Nodes, Divider, Leaf
<1>7. /\ Divider(axis).pane = None /\ Divider(axis).axis = axis
      /\ Divider(axis).ratio[1] = 1 /\ Divider(axis).ratio[2] = 2
      /\ Leaf(p).pane = p /\ Leaf(new).pane = new
  BY DEF Divider, Leaf
<1>8. p # None /\ new # None
  BY <1>1, PanesAssumption
<1>9. LeafPaths(u) = (LeafPaths(t) \ {at}) \cup {a1, a2}
  BY <1>1, <1>3, <1>5, <1>7, <1>8 DEF LeafPaths, IsLeaf
<1>10. u \in [DOMAIN u -> Nodes]
  <2>1. \A q \in DOMAIN t : t[q] \in Nodes
    BY DEF IsTree
  <2>2. \A q \in DOMAIN u : u[q] \in Nodes
    BY <1>5, <1>6, <2>1
  <2>3. u = [q \in DOMAIN u |-> u[q]]
    BY <1>4
  <2>4. QED
    BY <2>2, <2>3
<1>11. DOMAIN u \subseteq Seq(Sides) /\ IsFiniteSet(DOMAIN u) /\ <<>> \in DOMAIN u
  <2>1. IsFiniteSet(DOMAIN t)
    BY DEF IsTree
  <2>2. IsFiniteSet((DOMAIN t \cup {a1}) \cup {a2})
    BY <2>1, FS_AddElement
  <2>3. DOMAIN u = (DOMAIN t \cup {a1}) \cup {a2}
    BY <1>5
  <2>4. QED
    BY <1>2, <1>5, <2>2, <2>3, TreePaths DEF Paths
<1>12. ASSUME NEW q \in DOMAIN u \ {<<>>} PROVE Front(q) \in DOMAIN u /\ ~IsLeaf(u, Front(q))
  <2>1. CASE q \in {a1, a2}
    <3>1. Front(q) = at /\ u[at].pane = None
      BY <1>2, <1>5, <1>7, <2>1
    <3>2. QED
      BY <1>1, <1>5, <3>1 DEF IsLeaf
  <2>2. CASE q \in DOMAIN t
    <3>1. Front(q) \in DOMAIN t /\ Front(q) \notin LeafPaths(t)
      BY <2>2, TreePaths
    <3>2. u[Front(q)] = t[Front(q)] /\ t[Front(q)].pane = None
      BY <1>1, <1>5, <3>1 DEF LeafPaths, IsLeaf
    <3>3. QED
      BY <1>5, <3>1, <3>2 DEF IsLeaf
  <2>3. QED
    BY <1>5, <2>1, <2>2
<1>13. ASSUME NEW q \in DOMAIN u \ LeafPaths(u)
       PROVE  /\ u[q].axis \in Axes /\ 0 < u[q].ratio[1] /\ u[q].ratio[1] < u[q].ratio[2]
              /\ \A side \in Sides : Append(q, side) \in DOMAIN u
  <2>1. CASE q = at
    <3>1. \A side \in Sides : Append(q, side) \in {a1, a2}
      BY <2>1 DEF a1, a2, Sides
    <3>2. QED
      BY <1>5, <1>7, <2>1, <3>1
  <2>2. CASE q # at
    <3>1. q \in DOMAIN t \ LeafPaths(t) /\ u[q] = t[q]
      BY <1>5, <1>9, <2>2
    <3>2. /\ t[q].axis \in Axes /\ 0 < t[q].ratio[1] /\ t[q].ratio[1] < t[q].ratio[2]
          /\ \A side \in Sides : Append(q, side) \in DOMAIN t
      BY <3>1 DEF IsTree
    <3>3. QED
      BY <1>5, <3>1, <3>2
  <2>3. QED
    BY <2>1, <2>2
<1>14. ASSUME NEW q \in LeafPaths(u), NEW r \in LeafPaths(u), u[q].pane = u[r].pane
       PROVE  q = r
  <2>1. /\ \A s \in LeafPaths(t) : t[s].pane # new
        /\ \A s \in LeafPaths(t) \ {at} : t[s].pane # p /\ u[s] = t[s]
        /\ \A s, s2 \in LeafPaths(t) : t[s].pane = t[s2].pane => s = s2
    <3>1. \A s, s2 \in LeafPaths(t) : t[s].pane = t[s2].pane => s = s2
      BY DEF IsTree
    <3>2. \A s \in LeafPaths(t) : t[s].pane # new
      BY DEF PanesOf
    <3>3. QED
      BY <1>1, <1>5, <3>1, <3>2 DEF LeafPaths
  <2>2. p # new /\ u[a1].pane = p /\ u[a2].pane = new
    BY <1>5, <1>7
  <2>3. QED
    BY <1>9, <1>14, <2>1, <2>2
<1>15. Shallow(u)
  <2>1. PICK n \in Nat : UpTo(DOMAIN t, n)
    BY DEF Shallow
  <2>2. \A q \in DOMAIN t : Len(q) \in Nat /\ Len(q) <= n
    BY <2>1, TreePaths, LenProperties DEF UpTo, Paths
  <2>3. \A q \in DOMAIN u : Len(q) <= n + 1
    <3>1. \A q \in DOMAIN t : Len(q) <= n + 1
      BY <2>2
    <3>2. Len(a1) <= n + 1 /\ Len(a2) <= n + 1
      BY <1>1, <1>2, <2>2
    <3>3. QED
      BY <1>5, <3>1, <3>2
  <2>4. n + 1 \in Nat
    OBVIOUS
  <2>5. QED
    BY <2>3, <2>4 DEF Shallow, UpTo
<1>16. IsTree(u)
  BY <1>10, <1>11, <1>12, <1>13, <1>14 DEF IsTree
<1>17. /\ a1 \notin LeafPaths(t) /\ a2 \notin LeafPaths(t)
       /\ u[a1].pane = p /\ u[a2].pane = new
       /\ \A q \in LeafPaths(t) \ {at} : u[q].pane = t[q].pane
  BY <1>3, <1>5, <1>7 DEF LeafPaths
<1>18. QED
  BY <1>9, <1>15, <1>16, <1>17 DEF at, a1, a2, u

(* Paths put behind another one. *)
LEMMA ConcatPath ==
  ASSUME NEW a \in Paths, NEW s \in Paths
  PROVE  /\ a \o s \in Paths /\ Len(a \o s) = Len(a) + Len(s) /\ Len(a) \in Nat /\ Len(s) \in Nat
         /\ a \o <<>> = a /\ IsPrefix(a, a \o s)
         /\ \A side \in Sides : Append(a \o s, side) = a \o Append(s, side)
         /\ s # <<>> => a \o s # <<>> /\ Front(a \o s) = a \o Front(s)
<1>1. /\ a \o s \in Paths /\ Len(a \o s) = Len(a) + Len(s) /\ Len(a) \in Nat /\ Len(s) \in Nat
      /\ a \o <<>> = a
  BY ConcatProperties, ConcatEmptySeq, LenProperties DEF Paths
<1>2. IsPrefix(a, a \o s)
  BY <1>1, PrefixIsConcat
<1>3. ASSUME NEW b \in Paths, NEW side \in Sides PROVE Append(a \o b, side) = a \o Append(b, side)
  <2>1. a \o b \in Seq(Sides) /\ <<side>> \in Seq(Sides)
    BY ConcatProperties DEF Paths
  <2>2. Append(a \o b, side) = (a \o b) \o <<side>> /\ Append(b, side) = b \o <<side>>
    BY <2>1, AppendIsConcat DEF Paths
  <2>3. (a \o b) \o <<side>> = a \o (b \o <<side>>)
    BY <2>1, ConcatAssociative DEF Paths
  <2>4. QED
    BY <2>2, <2>3
<1>4. ASSUME s # <<>> PROVE a \o s # <<>> /\ Front(a \o s) = a \o Front(s)
  <2>1. Front(s) \in Paths /\ Last(s) \in Sides /\ s = Append(Front(s), Last(s))
    BY <1>4, UpPath
  <2>2. a \o Front(s) \in Paths
    BY <2>1, ConcatProperties DEF Paths
  <2>3. Append(a \o Front(s), Last(s)) = a \o s
    BY <1>3, <2>1
  <2>4. \A b \in Paths, side \in Sides : Append(b, side) # <<>> /\ Front(Append(b, side)) = b
    BY DownPath
  <2>5. QED
    BY <2>1, <2>2, <2>3, <2>4
<1>5. QED
  BY <1>1, <1>2, <1>3, <1>4

LEMMA BeyondPath ==
  ASSUME NEW a \in Paths, NEW s \in Paths
  PROVE  SubSeq(a \o s, Len(a) + 1, Len(a \o s)) = s
<1>1. /\ a \o s \in Paths /\ Len(a \o s) = Len(a) + Len(s) /\ Len(a) \in Nat /\ Len(s) \in Nat
  BY ConcatPath
<1>2. CASE s = <<>>
  <2>1. Len(s) = 0 /\ Len(a) + 1 \in Int /\ Len(a) + Len(s) \in Int /\ Len(a) + Len(s) < Len(a) + 1
    BY <1>1, <1>2, EmptySeq
  <2>2. QED
    BY <1>1, <1>2, <2>1, SubSeqEmpty
<1>3. CASE s # <<>>
  <2>1. /\ Len(a) + 1 \in Len(a) + 1 .. Len(a) + Len(s)
        /\ Len(a) + Len(s) \in Len(a) + 1 .. Len(a) + Len(s)
    BY <1>1, <1>3, UpPath
  <2>2. SubSeq(a \o s, Len(a) + 1, Len(a) + Len(s))
          = SubSeq(s, Len(a) + 1 - Len(a), Len(a) + Len(s) - Len(a))
    BY <2>1, SubSeqOfConcat2 DEF Paths
  <2>3. Len(a) + 1 - Len(a) = 1 /\ Len(a) + Len(s) - Len(a) = Len(s)
    BY <1>1
  <2>4. QED
    BY <1>1, <2>2, <2>3, SubSeqFull DEF Paths
<1>4. QED
  BY <1>2, <1>3

(* What is below a side of the divider at parent takes the divider's place. *)
Outside(t, parent) == {q \in DOMAIN t : ~IsPrefix(parent, q)}
Tails(t, sibling) == {s \in Paths : sibling \o s \in DOMAIN t}
Grafted(t, u, parent, sibling) ==
  /\ u = [q \in DOMAIN u |-> u[q]]
  /\ DOMAIN u = Outside(t, parent) \cup {parent \o s : s \in Tails(t, sibling)}
  /\ \A q \in Outside(t, parent) : u[q] = t[q]
  /\ \A s \in Tails(t, sibling) : u[parent \o s] = t[sibling \o s]

LEMMA RemoveGrafts ==
  ASSUME NEW t, IsTree(t), NEW p \in PanesOf(t), PanesOf(t) # {p}
  PROVE  \E parent \in DOMAIN t \ LeafPaths(t), side \in Sides :
            /\ Grafted(t, RemovePane(t, p), parent, Append(parent, side))
            /\ Append(parent, 3 - side) = PathToPane(t, p)
<1> DEFINE at == PathToPane(t, p)
           parent == Front(at)
           sibling == Append(parent, 3 - Last(at))
           Beyond(q, r) == SubSeq(r, Len(q) + 1, Len(r))
           u == RemovePane(t, p)
<1>1. at \in LeafPaths(t) /\ at \in DOMAIN t /\ t[at].pane = p /\ at \in Paths
  BY PathOf, TreePaths
<1>2. at # <<>>
  <2>1. ASSUME at = <<>> PROVE FALSE
    <3>1. ASSUME NEW r \in LeafPaths(t) PROVE r = at
      <4>1. r \in DOMAIN t /\ r \in Paths
        BY TreePaths DEF LeafPaths
      <4>2. 0 \in 0 .. Len(r) /\ Len(r) \in Nat /\ Step(r, 0) = <<>>
        BY <4>1, LenProperties, StepFull DEF Paths
      <4>3. ~(0 < Len(r))
        BY <1>1, <2>1, <4>1, <4>2, StepsThere
      <4>4. r = <<>>
        BY <4>1, <4>2, <4>3, StepFull
      <4>5. QED
        BY <2>1, <4>4
    <3>2. PanesOf(t) = {p}
      BY <1>1, <3>1 DEF PanesOf
    <3>3. QED
      BY <3>2
  <2>2. QED
    BY <2>1
<1>3. /\ parent \in DOMAIN t \ LeafPaths(t) /\ parent \in Paths /\ Last(at) \in Sides
  BY <1>1, <1>2, TreePaths, UpPath
<1>4. 3 - Last(at) \in Sides
  BY <1>3 DEF Sides
<1>5. sibling \in Paths
  BY <1>3, <1>4, DownPath
<1>6. u = [q \in (DOMAIN t \ Below(t, parent))
                  \cup {parent \o Beyond(sibling, r) : r \in Below(t, sibling)} |->
             IF IsPrefix(parent, q) THEN t[sibling \o Beyond(parent, q)] ELSE t[q]]
  BY DEF RemovePane
<1> HIDE DEF at, parent, sibling, u
<1>7. DOMAIN t \ Below(t, parent) = Outside(t, parent)
  BY DEF Below, Outside
<1>8. {parent \o Beyond(sibling, r) : r \in Below(t, sibling)}
        = {parent \o s : s \in Tails(t, sibling)}
  <2>1. ASSUME NEW r \in Below(t, sibling)
        PROVE  Beyond(sibling, r) \in Tails(t, sibling)
    <3>1. r \in DOMAIN t /\ r \in Paths /\ IsPrefix(sibling, r)
      BY TreePaths DEF Below
    <3>2. PICK s \in Paths : r = sibling \o s
      BY <1>5, <3>1, PrefixIsConcat
    <3>3. Beyond(sibling, r) = s
      BY <1>5, <3>2, BeyondPath
    <3>4. QED
      BY <3>1, <3>2, <3>3 DEF Tails
  <2>2. ASSUME NEW s \in Tails(t, sibling)
        PROVE  sibling \o s \in Below(t, sibling) /\ Beyond(sibling, sibling \o s) = s
    <3>1. s \in Paths /\ sibling \o s \in DOMAIN t
      BY DEF Tails
    <3>2. QED
      BY <1>5, <3>1, BeyondPath, ConcatPath DEF Below
  <2> HIDE DEF Beyond
  <2>3. QED
    BY <2>1, <2>2
<1>9. ASSUME NEW s \in Tails(t, sibling)
      PROVE  IsPrefix(parent, parent \o s) /\ Beyond(parent, parent \o s) = s
  BY <1>3, BeyondPath, ConcatPath DEF Tails
<1> HIDE DEF Beyond
<1>10. DOMAIN u = Outside(t, parent) \cup {parent \o s : s \in Tails(t, sibling)}
  BY <1>6, <1>7, <1>8
<1>11. u = [q \in DOMAIN u |-> u[q]]
  BY <1>6
<1>12. \A q \in DOMAIN u :
         u[q] = IF IsPrefix(parent, q) THEN t[sibling \o Beyond(parent, q)] ELSE t[q]
  BY <1>6
<1>13. \A q \in Outside(t, parent) : u[q] = t[q]
  BY <1>10, <1>12 DEF Outside
<1>14. \A s \in Tails(t, sibling) : u[parent \o s] = t[sibling \o s]
  BY <1>9, <1>10, <1>12
<1>15. Grafted(t, u, parent, sibling)
  BY <1>10, <1>11, <1>13, <1>14 DEF Grafted
<1>16. 3 - (3 - Last(at)) = Last(at) /\ Append(parent, Last(at)) = at
  <2>1. at = Append(parent, Last(at))
    BY <1>1, <1>2, UpPath DEF parent
  <2>2. QED
    BY <1>3, <2>1 DEF Sides
<1>17. QED
  <2>1. Append(parent, 3 - (3 - Last(at))) = PathToPane(t, p)
    BY <1>16 DEF at
  <2>2. Grafted(t, RemovePane(t, p), parent, Append(parent, 3 - Last(at)))
    BY <1>15 DEF sibling, u
  <2>3. QED
    BY <1>3, <1>4, <2>1, <2>2

LEMMA GraftTree ==
  ASSUME NEW t, IsTree(t), Shallow(t), NEW parent \in DOMAIN t \ LeafPaths(t), NEW side \in Sides,
         NEW u, Grafted(t, u, parent, Append(parent, side))
  PROVE  IsTree(u) /\ Shallow(u)
<1> DEFINE sibling == Append(parent, side)
           outside == Outside(t, parent)
           tails == Tails(t, sibling)
<1>1. /\ parent \in Paths /\ sibling \in Paths /\ sibling \in DOMAIN t
      /\ Len(sibling) = Len(parent) + 1 /\ Len(parent) \in Nat
      /\ sibling = parent \o <<side>> /\ <<side>> \in Paths
  <2>1. parent \in Paths
    BY TreePaths
  <2>2. sibling = parent \o <<side>> /\ <<side>> \in Paths
    BY <2>1, AppendIsConcat DEF Paths
  <2>3. QED
    BY <2>1, <2>2, TreePaths, DownPath
<1>2. /\ \A q \in outside : q \in DOMAIN t /\ q \in Paths /\ ~IsPrefix(parent, q)
      /\ \A s \in tails : s \in Paths /\ sibling \o s \in DOMAIN t
      /\ \A q \in DOMAIN t : ~IsPrefix(parent, q) => q \in outside
      /\ \A s \in Paths : sibling \o s \in DOMAIN t => s \in tails
  BY TreePaths DEF Outside, Tails
<1>3. /\ u = [q \in DOMAIN u |-> u[q]]
      /\ \A q : q \in DOMAIN u <=> q \in outside \/ \E s \in tails : q = parent \o s
      /\ \A q \in outside : u[q] = t[q]
      /\ \A s \in tails : u[parent \o s] = t[sibling \o s]
  BY DEF Grafted
<1> HIDE DEF sibling, outside, tails
<1>4. <<>> \in tails /\ parent \o <<>> = parent /\ parent \in DOMAIN u
  <2>1. <<>> \in Paths /\ sibling \o <<>> = sibling /\ parent \o <<>> = parent
    BY <1>1, ConcatEmptySeq, EmptySeq DEF Paths
  <2>2. QED
    BY <1>1, <1>2, <1>3, <2>1
(* What is below the sibling is below its parent. *)
<1>5. ASSUME NEW s \in tails PROVE sibling \o s \notin outside
  <2>1. s \in Paths
    BY <1>2
  <2>2. (parent \o <<side>>) \o s = parent \o (<<side>> \o s) /\ <<side>> \o s \in Paths
    BY <1>1, <2>1, ConcatAssociative, ConcatProperties DEF Paths
  <2>3. IsPrefix(parent, sibling \o s)
    <3>1. \A b \in Paths : IsPrefix(parent, parent \o b)
      BY <1>1, ConcatPath
    <3>2. QED
      BY <1>1, <2>2, <3>1
  <2>4. QED
    BY <1>2, <2>3
<1>6. ASSUME NEW s \in tails, NEW s2 \in tails
      PROVE  /\ sibling \o s = sibling \o s2 => s = s2
             /\ parent \o s = parent \o s2 => s = s2
  <2>1. ASSUME NEW a \in Paths, a \o s = a \o s2 PROVE s = s2
    <3>1. /\ SubSeq(a \o s, Len(a) + 1, Len(a \o s)) = s
          /\ SubSeq(a \o s2, Len(a) + 1, Len(a \o s2)) = s2
      BY <1>2, BeyondPath
    <3>2. QED
      BY <2>1, <3>1
  <2>2. QED
    BY <1>1, <2>1
<1>7. /\ \A q \in outside : q \in LeafPaths(u) <=> q \in LeafPaths(t)
      /\ \A s \in tails : parent \o s \in LeafPaths(u) <=> sibling \o s \in LeafPaths(t)
  BY <1>2, <1>3 DEF LeafPaths, IsLeaf
<1>8. u \in [DOMAIN u -> Nodes]
  <2>1. \A q \in DOMAIN t : t[q] \in Nodes
    BY DEF IsTree
  <2>2. ASSUME NEW q \in DOMAIN u PROVE u[q] \in Nodes
    <3>1. CASE q \in outside
      BY <1>2, <1>3, <2>1, <3>1
    <3>2. ASSUME NEW s \in tails, q = parent \o s PROVE u[q] \in Nodes
      <4>1. u[q] = t[sibling \o s] /\ sibling \o s \in DOMAIN t
        BY <1>2, <1>3, <3>2
      <4>2. QED
        BY <2>1, <4>1
    <3>3. QED
      BY <1>3, <3>1, <3>2
  <2>3. QED
    BY <1>3, <2>2
<1>9. DOMAIN u \subseteq Paths
  <2>1. ASSUME NEW s \in tails PROVE parent \o s \in Paths
    BY <1>1, <1>2, ConcatPath
  <2>2. QED
    BY <1>2, <1>3, <2>1
<1>10. IsFiniteSet(DOMAIN u)
  <2> DEFINE f == [r \in DOMAIN t |->
                     IF r \in outside THEN r
                     ELSE IF \E s \in tails : r = sibling \o s
                       THEN parent \o (CHOOSE s \in tails : r = sibling \o s)
                       ELSE parent]
  <2>1. \A r \in DOMAIN t : f[r] \in DOMAIN u
    BY <1>3, <1>4
  <2>2. ASSUME NEW q \in DOMAIN u PROVE \E r \in DOMAIN t : f[r] = q
    <3>1. CASE q \in outside
      BY <1>2, <3>1
    <3>2. ASSUME NEW s \in tails, q = parent \o s PROVE f[sibling \o s] = q /\ sibling \o s \in DOMAIN t
      <4>1. sibling \o s \in DOMAIN t /\ sibling \o s \notin outside
        BY <1>2, <1>5
      <4>2. (CHOOSE s2 \in tails : sibling \o s = sibling \o s2) = s
        BY <1>6
      <4>3. f[sibling \o s] = parent \o (CHOOSE s2 \in tails : sibling \o s = sibling \o s2)
        BY <4>1
      <4>4. QED
        BY <3>2, <4>1, <4>2, <4>3
    <3>3. QED
      BY <1>3, <3>1, <3>2
  <2>3. f \in Surjection(DOMAIN t, DOMAIN u)
    <3>1. f \in [DOMAIN t -> DOMAIN u]
      BY <2>1
    <3> HIDE DEF f
    <3>2. QED
      BY <2>2, <3>1 DEF Surjection
  <2>4. IsFiniteSet(DOMAIN t)
    BY DEF IsTree
  <2> HIDE DEF f
  <2>5. QED
    BY <2>3, <2>4, FS_Surjection
<1>11. <<>> \in DOMAIN u
  <2>1. CASE <<>> \in outside
    BY <1>3, <2>1
  <2>2. CASE <<>> \notin outside
    <3>1. IsPrefix(parent, <<>>)
      BY <1>2, <2>2, TreePaths
    <3>2. <<>> \in Paths /\ Len(<<>>) = 0
      BY EmptySeq DEF Paths
    <3>3. Len(parent) = 0
      BY <1>1, <3>1, <3>2, PrefixIsStep
    <3>4. parent = <<>>
      BY <1>1, <3>3, EmptySeq DEF Paths
    <3>5. QED
      BY <1>4, <3>4
  <2>3. QED
    BY <2>1, <2>2
(* What is above the place of the divider stays as it was. *)
<1>12. ASSUME NEW q \in Paths, ~IsPrefix(parent, q), q # <<>>, q \in DOMAIN t
       PROVE  Front(q) \in outside
  <2>1. Front(q) \in DOMAIN t /\ Front(q) \in Paths /\ Len(Front(q)) = Len(q) - 1 /\ Len(q) \in Nat \ {0}
    BY <1>12, TreePaths, UpPath
  <2>2. ~IsPrefix(parent, Front(q))
    <3>1. ASSUME IsPrefix(parent, Front(q)) PROVE FALSE
      <4>1. Len(parent) \in 0 .. Len(Front(q)) /\ parent = Step(Front(q), Len(parent))
        BY <1>1, <2>1, <3>1, PrefixIsStep
      <4>2. Len(parent) \in 0 .. Len(q) - 1 /\ Len(parent) \in 0 .. Len(q)
        BY <2>1, <4>1
      <4>3. parent = Step(q, Len(parent))
        BY <1>12, <4>1, <4>2, StepOfFront
      <4>4. IsPrefix(parent, q)
        BY <1>1, <4>2, <4>3, PrefixIsStep
      <4>5. QED
        BY <1>12, <4>4
    <3>2. QED
      BY <3>1
  <2>3. QED
    BY <1>2, <2>1, <2>2
<1>13. parent # <<>> => Front(parent) \in outside /\ Front(parent) \notin LeafPaths(t)
  <2>1. ASSUME parent # <<>> PROVE Front(parent) \in outside /\ Front(parent) \notin LeafPaths(t)
    <3>1. /\ Front(parent) \in DOMAIN t /\ Front(parent) \notin LeafPaths(t)
          /\ Front(parent) \in Paths /\ Len(Front(parent)) = Len(parent) - 1
      BY <1>1, <2>1, TreePaths, UpPath
    <3>2. ~IsPrefix(parent, Front(parent))
      <4>1. ~(Len(parent) <= Len(Front(parent)))
        BY <1>1, <3>1
      <4>2. QED
        BY <4>1 DEF IsPrefix
    <3>3. QED
      BY <1>2, <3>1, <3>2
  <2>2. QED
    BY <2>1
<1>14. ASSUME NEW q \in DOMAIN u \ {<<>>} PROVE Front(q) \in DOMAIN u /\ ~IsLeaf(u, Front(q))
  <2>1. CASE q \in outside
    <3>1. Front(q) \in outside /\ Front(q) \notin LeafPaths(t)
      BY <1>2, <1>12, <2>1, TreePaths
    <3>2. QED
      BY <1>3, <1>7, <3>1 DEF LeafPaths
  <2>2. ASSUME NEW s \in tails, q = parent \o s PROVE Front(q) \in DOMAIN u /\ ~IsLeaf(u, Front(q))
    <3>1. CASE s = <<>>
      <4>1. q = parent /\ parent # <<>>
        BY <1>4, <2>2, <3>1
      <4>2. QED
        BY <1>3, <1>7, <1>13, <4>1 DEF LeafPaths
    <3>2. CASE s # <<>>
      <4>1. s \in Paths /\ sibling \o s \in DOMAIN t
        BY <1>2
      <4>2. Front(s) \in Paths
        BY <3>2, <4>1, UpPath
      <4>3. Front(q) = parent \o Front(s)
        BY <1>1, <2>2, <3>2, <4>1, ConcatPath
      <4>4. Front(sibling \o s) = sibling \o Front(s) /\ sibling \o s # <<>>
        BY <1>1, <3>2, <4>1, ConcatPath
      <4>5. sibling \o Front(s) \in DOMAIN t /\ sibling \o Front(s) \notin LeafPaths(t)
        BY <4>1, <4>4, TreePaths
      <4>6. Front(s) \in tails
        BY <1>2, <4>2, <4>5
      <4>7. QED
        BY <1>3, <1>7, <4>3, <4>5, <4>6 DEF LeafPaths
    <3>3. QED
      BY <3>1, <3>2
  <2>3. QED
    BY <1>3, <2>1, <2>2
<1>15. ASSUME NEW q \in DOMAIN u \ LeafPaths(u)
       PROVE  /\ u[q].axis \in Axes /\ 0 < u[q].ratio[1] /\ u[q].ratio[1] < u[q].ratio[2]
              /\ \A child \in Sides : Append(q, child) \in DOMAIN u
  <2>1. \A r \in DOMAIN t \ LeafPaths(t) :
          /\ t[r].axis \in Axes /\ 0 < t[r].ratio[1] /\ t[r].ratio[1] < t[r].ratio[2]
          /\ \A child \in Sides : Append(r, child) \in DOMAIN t
    BY DEF IsTree
  <2>2. CASE q \in outside
    <3>1. q \in DOMAIN t \ LeafPaths(t) /\ u[q] = t[q] /\ q \in Paths
      BY <1>2, <1>3, <1>7, <2>2
    <3>2. ASSUME NEW child \in Sides PROVE Append(q, child) \in DOMAIN u
      <4>1. /\ Append(q, child) \in DOMAIN t /\ Append(q, child) \in Paths
            /\ Append(q, child) # <<>> /\ Front(Append(q, child)) = q
            /\ Len(Append(q, child)) = Len(q) + 1 /\ Len(q) \in Nat
        BY <2>1, <3>1, DownPath
      <4>2. IsPrefix(parent, Append(q, child)) => Append(q, child) = parent
        <5>1. ASSUME IsPrefix(parent, Append(q, child)), Append(q, child) # parent PROVE FALSE
          <6> DEFINE c == Append(q, child)
          <6>1. Len(parent) \in 0 .. Len(c) /\ parent = Step(c, Len(parent))
            BY <1>1, <4>1, <5>1, PrefixIsStep
          <6>2. Len(parent) # Len(c)
            BY <4>1, <5>1, <6>1, StepFull
          <6>3. Len(parent) \in 0 .. Len(c) - 1 /\ Len(parent) \in 0 .. Len(q)
            BY <4>1, <6>1, <6>2
          <6>4. parent = Step(q, Len(parent))
            <7> HIDE DEF c
            <7>1. c \in Paths /\ c # <<>> /\ Front(c) = q
              BY <4>1 DEF c
            <7>2. QED
              BY <6>1, <6>3, <7>1, StepOfFront
          <6>5. IsPrefix(parent, q)
            BY <1>1, <3>1, <6>3, <6>4, PrefixIsStep
          <6>6. QED
            BY <1>2, <2>2, <6>5
        <5>2. QED
          BY <5>1
      <4>3. QED
        BY <1>2, <1>3, <1>4, <4>1, <4>2
    <3>3. QED
      BY <2>1, <3>1, <3>2
  <2>3. ASSUME NEW s \in tails, q = parent \o s
        PROVE  /\ u[q].axis \in Axes /\ 0 < u[q].ratio[1] /\ u[q].ratio[1] < u[q].ratio[2]
               /\ \A child \in Sides : Append(q, child) \in DOMAIN u
    <3>1. s \in Paths /\ sibling \o s \in DOMAIN t \ LeafPaths(t) /\ u[q] = t[sibling \o s]
      BY <1>2, <1>3, <1>7, <2>3
    <3>2. ASSUME NEW child \in Sides PROVE Append(q, child) \in DOMAIN u
      <4>1. /\ Append(q, child) = parent \o Append(s, child)
            /\ Append(sibling \o s, child) = sibling \o Append(s, child)
        <5>1. \A a, b \in Paths, c \in Sides : Append(a \o b, c) = a \o Append(b, c)
          BY ConcatPath
        <5>2. QED
          BY <1>1, <2>3, <3>1, <5>1
      <4>2. Append(s, child) \in Paths /\ Append(sibling \o s, child) \in DOMAIN t
        BY <2>1, <3>1, DownPath
      <4>3. Append(s, child) \in tails
        BY <1>2, <4>1, <4>2
      <4>4. QED
        BY <1>3, <4>1, <4>3
    <3>3. QED
      BY <2>1, <3>1, <3>2
  <2>4. QED
    BY <1>3, <2>2, <2>3
<1>16. ASSUME NEW q \in LeafPaths(u), NEW r \in LeafPaths(u), u[q].pane = u[r].pane
       PROVE  q = r
  <2>1. \A a, b \in LeafPaths(t) : t[a].pane = t[b].pane => a = b
    BY DEF IsTree
  <2>2. q \in DOMAIN u /\ r \in DOMAIN u
    BY DEF LeafPaths
  <2>3. CASE q \in outside /\ r \in outside
    BY <1>3, <1>7, <1>16, <2>1, <2>3
  <2>4. ASSUME NEW s \in tails, q = parent \o s, r \in outside PROVE FALSE
    <3>1. sibling \o s = r
      BY <1>3, <1>7, <1>16, <2>1, <2>4
    <3>2. QED
      BY <1>5, <2>4, <3>1
  <2>5. ASSUME NEW s \in tails, r = parent \o s, q \in outside PROVE FALSE
    <3>1. sibling \o s = q
      BY <1>3, <1>7, <1>16, <2>1, <2>5
    <3>2. QED
      BY <1>5, <2>5, <3>1
  <2>6. ASSUME NEW s \in tails, q = parent \o s, NEW s2 \in tails, r = parent \o s2 PROVE q = r
    <3>1. sibling \o s \in LeafPaths(t) /\ sibling \o s2 \in LeafPaths(t)
      BY <1>7, <2>6
    <3>2. u[q] = t[sibling \o s] /\ u[r] = t[sibling \o s2]
      BY <1>3, <2>6
    <3>3. sibling \o s = sibling \o s2
      BY <1>16, <2>1, <3>1, <3>2
    <3>4. QED
      BY <1>6, <2>6, <3>3
  <2>7. QED
    BY <1>3, <2>2, <2>3, <2>4, <2>5, <2>6
<1>17. Shallow(u)
  <2>1. PICK n \in Nat : UpTo(DOMAIN t, n)
    BY DEF Shallow
  <2>2. \A q \in outside : Len(q) <= n
    BY <1>2, <2>1 DEF UpTo
  <2>3. ASSUME NEW s \in tails PROVE Len(parent \o s) <= n
    <3>1. /\ Len(parent \o s) = Len(parent) + Len(s) /\ Len(sibling \o s) = Len(sibling) + Len(s)
          /\ Len(s) \in Nat
      BY <1>1, <1>2, ConcatPath
    <3>2. Len(sibling \o s) <= n
      BY <1>2, <2>1 DEF UpTo
    <3>3. QED
      BY <1>1, <3>1, <3>2
  <2>4. \A q \in DOMAIN u : Len(q) <= n
    BY <1>3, <2>2, <2>3
  <2>5. QED
    BY <2>4 DEF Shallow, UpTo
<1>18. IsTree(u)
  BY <1>8, <1>9, <1>10, <1>11, <1>14, <1>15, <1>16 DEF IsTree, Paths
<1>19. QED
  BY <1>17, <1>18

LEMMA RemoveTree ==
  ASSUME NEW t, IsTree(t), Shallow(t), NEW p \in PanesOf(t), PanesOf(t) # {p}
  PROVE  IsTree(RemovePane(t, p)) /\ Shallow(RemovePane(t, p))
BY RemoveGrafts, GraftTree

LEMMA SwapTree ==
  ASSUME NEW t, IsTree(t), Shallow(t), NEW q \in LeafPaths(t), NEW r \in LeafPaths(t), q # r
  PROVE  LET u == Swap(t, t[q].pane, t[r].pane)
         IN /\ IsTree(u) /\ Shallow(u) /\ LeafPaths(u) = LeafPaths(t)
            /\ u[q].pane = t[r].pane /\ u[r].pane = t[q].pane
            /\ \A a \in LeafPaths(t) \ {q, r} : u[a].pane = t[a].pane
<1> DEFINE p == t[q].pane
           other == t[r].pane
           u == Swap(t, p, other)
<1>1. q \in DOMAIN t /\ r \in DOMAIN t /\ \A a, b \in LeafPaths(t) : t[a].pane = t[b].pane => a = b
  BY DEF IsTree, LeafPaths
<1>2. p \in PanesOf(t) /\ other \in PanesOf(t)
  BY DEF PanesOf
<1>3. PathToPane(t, p) = q /\ PathToPane(t, other) = r /\ p \in Panes /\ other \in Panes
  BY <1>1, <1>2, PathOf
<1>4. u = [t EXCEPT ![q].pane = other, ![r].pane = p]
  BY <1>3 DEF Swap
<1>5. t \in [DOMAIN t -> Nodes]
  BY DEF IsTree
<1> HIDE DEF p, other, u
<1>6. /\ DOMAIN u = DOMAIN t /\ u \in [DOMAIN u -> Nodes]
      /\ u[q].pane = other /\ u[r].pane = p
      /\ \A a \in DOMAIN t : u[a].axis = t[a].axis /\ u[a].ratio = t[a].ratio
      /\ \A a \in DOMAIN t \ {q, r} : u[a].pane = t[a].pane
  <2> DEFINE one == [t[q] EXCEPT !.pane = other]
             two == [t[r] EXCEPT !.pane = p]
  <2>1. /\ one \in Nodes /\ one.pane = other /\ one.axis = t[q].axis /\ one.ratio = t[q].ratio
        /\ two \in Nodes /\ two.pane = p /\ two.axis = t[r].axis /\ two.ratio = t[r].ratio
    <3>1. t[q] \in Nodes /\ t[r] \in Nodes
      BY <1>1, <1>5
    <3>2. QED
      BY <1>3, <3>1 DEF Nodes
  <2>2. u = [[t EXCEPT ![q] = one] EXCEPT ![r] = two]
    BY <1>1, <1>4, <1>5
  <2> HIDE DEF one, two
  <2>3. QED
    BY <1>1, <1>5, <2>1, <2>2
<1>7. p # None /\ other # None
  BY <1>3, PanesAssumption
<1>8. LeafPaths(u) = LeafPaths(t)
  <2>1. t[q].pane # None /\ t[r].pane # None
    BY <1>7 DEF p, other
  <2>2. QED
    BY <1>1, <1>6, <1>7, <2>1 DEF LeafPaths, IsLeaf
<1>9. ASSUME NEW a \in LeafPaths(u), NEW b \in LeafPaths(u), u[a].pane = u[b].pane PROVE a = b
  <2>1. a \in LeafPaths(t) /\ b \in LeafPaths(t) /\ a \in DOMAIN t /\ b \in DOMAIN t
    BY <1>8 DEF LeafPaths
  <2>2. t[q].pane = p /\ t[r].pane = other
    BY DEF p, other
  <2>3. QED
    BY <1>1, <1>6, <1>9, <2>1, <2>2
<1>10. Shallow(u)
  BY <1>6 DEF Shallow
<1>11. \A a \in DOMAIN u : IsLeaf(u, a) <=> a \in LeafPaths(t)
  BY <1>8 DEF LeafPaths
<1>12. IsTree(u)
  <2>1. \A a \in DOMAIN u \ {<<>>} : Front(a) \in DOMAIN u /\ ~IsLeaf(u, Front(a))
    BY <1>6, <1>11, TreePaths
  <2>2. \A a \in DOMAIN u \ LeafPaths(u) :
          /\ u[a].axis \in Axes /\ 0 < u[a].ratio[1] /\ u[a].ratio[1] < u[a].ratio[2]
          /\ \A side \in Sides : Append(a, side) \in DOMAIN u
    BY <1>6, <1>8 DEF IsTree
  <2>3. DOMAIN u \subseteq Seq(Sides) /\ IsFiniteSet(DOMAIN u) /\ <<>> \in DOMAIN u
    BY <1>6 DEF IsTree
  <2>4. QED
    BY <1>6, <1>9, <2>1, <2>2, <2>3 DEF IsTree
<1>13. \A a \in LeafPaths(t) \ {q, r} : u[a].pane = t[a].pane
  BY <1>6 DEF LeafPaths
<1>14. QED
  BY <1>6, <1>8, <1>10, <1>12, <1>13 DEF u, p, other

(* There is a pane below every node. *)
LEMMA LeafBelow ==
  ASSUME NEW t, IsTree(t), Shallow(t), NEW q \in DOMAIN t
  PROVE  LeavesBelow(t, q) # {}
<1>1. PICK n \in Nat : UpTo(DOMAIN t, n)
  BY DEF Shallow
<1>2. q \in Paths /\ Len(q) \in Nat /\ Below(t, q) \in SUBSET Paths /\ UpTo(Below(t, q), n)
  BY <1>1, TreePaths, LenProperties DEF Below, UpTo, Paths
<1>3. q \in Below(t, q)
  BY <1>2 DEF Below, IsPrefix
<1>4. PICK r \in Below(t, q) : \A s \in Below(t, q) : Len(s) <= Len(r)
  BY <1>2, <1>3, Longest
<1>5. r \in DOMAIN t /\ r \in Paths /\ IsPrefix(q, r)
  BY <1>2 DEF Below
<1>6. ASSUME r \notin LeafPaths(t) PROVE FALSE
  <2>1. /\ Append(r, 1) \in DOMAIN t /\ Append(r, 1) \in Paths /\ Len(r) \in Nat
        /\ Len(Append(r, 1)) = Len(r) + 1 /\ Append(r, 1) = r \o <<1>> /\ <<1>> \in Paths
    BY <1>5, <1>6, TreePaths, DownPath, AppendIsConcat DEF Sides, Paths
  <2>2. PICK s \in Paths : r = q \o s
    BY <1>2, <1>5, PrefixIsConcat
  <2>3. Append(r, 1) = q \o Append(s, 1) /\ Append(s, 1) \in Paths
    <3>1. 1 \in Sides
      BY DEF Sides
    <3>2. \A side \in Sides : Append(q \o s, side) = q \o Append(s, side)
      BY <1>2, ConcatPath
    <3>3. Append(s, 1) \in Paths
      BY <3>1, DownPath
    <3>4. QED
      BY <2>2, <3>1, <3>2, <3>3
  <2>4. Append(r, 1) \in Below(t, q)
    <3>1. IsPrefix(q, Append(r, 1))
      BY <1>2, <2>1, <2>3, PrefixIsConcat
    <3>2. QED
      BY <2>1, <3>1 DEF Below
  <2>5. Len(Append(r, 1)) <= Len(r)
    BY <1>4, <2>4
  <2>6. QED
    BY <2>1, <2>5
<1>7. QED
  BY <1>6 DEF LeavesBelow

LEMMA EqualizeTree ==
  ASSUME NEW t, IsTree(t), Shallow(t)
  PROVE  /\ IsTree(Equalize(t)) /\ Shallow(Equalize(t))
         /\ LeafPaths(Equalize(t)) = LeafPaths(t)
         /\ \A q \in LeafPaths(t) : Equalize(t)[q].pane = t[q].pane
<1> DEFINE first(q) == Cardinality(LeavesBelow(t, Append(q, 1)))
           all(q) == Cardinality(LeavesBelow(t, q))
           u == Equalize(t)
<1>1. ASSUME NEW q \in DOMAIN t \ LeafPaths(t)
      PROVE  first(q) \in Nat /\ all(q) \in Nat /\ 0 < first(q) /\ first(q) < all(q)
  <2> DEFINE some == LeavesBelow(t, Append(q, 1))
             whole == LeavesBelow(t, q)
  <2>1. /\ q \in Paths /\ Append(q, 1) \in DOMAIN t /\ Append(q, 2) \in DOMAIN t
        /\ Append(q, 1) \in Paths /\ Append(q, 2) \in Paths
    BY TreePaths, DownPath DEF Sides
  <2>2. ASSUME NEW side \in Sides, NEW r \in LeavesBelow(t, Append(q, side))
        PROVE  r \in whole /\ r \in Paths /\ Len(q) + 1 \in 1 .. Len(r) /\ r[Len(q) + 1] = side
    <3>1. Append(q, side) \in Paths /\ Len(Append(q, side)) = Len(q) + 1 /\ Len(q) \in Nat
      BY <2>1, DownPath
    <3>2. r \in DOMAIN t /\ r \in LeafPaths(t) /\ r \in Paths /\ IsPrefix(Append(q, side), r)
      BY TreePaths DEF LeavesBelow, Below
    <3>3. PICK s \in Paths : r = Append(q, side) \o s
      BY <3>1, <3>2, PrefixIsConcat
    <3>4. /\ Append(q, side) = q \o <<side>> /\ <<side>> \in Seq(Sides)
      BY <2>1, AppendIsConcat DEF Paths
    <3>5. r = q \o (<<side>> \o s) /\ <<side>> \o s \in Paths
      BY <2>1, <3>3, <3>4, ConcatAssociative, ConcatProperties DEF Paths
    <3>6. IsPrefix(q, r)
      BY <2>1, <3>2, <3>5, PrefixIsConcat
    <3>7. Len(Append(q, side)) \in 0 .. Len(r) /\ Append(q, side) = Step(r, Len(Append(q, side)))
      BY <3>1, <3>2, PrefixIsStep
    <3>8. Len(r) \in Nat /\ Len(q) + 1 \in 1 .. Len(r) /\ Step(r, Len(q) + 1) = Append(q, side)
      BY <3>1, <3>2, <3>7, LenProperties DEF Paths
    <3>9. r[Len(q) + 1] = side
      <4>1. Last(Step(r, Len(q) + 1)) = r[Len(q) + 1]
        BY <3>2, <3>8, NextStep
      <4>2. Last(Append(q, side)) = side
        BY <2>1, DownPath
      <4>3. QED
        BY <3>8, <4>1, <4>2
    <3>10. QED
      BY <3>2, <3>6, <3>8, <3>9 DEF LeavesBelow, Below
  <2>3. some \subseteq whole /\ some # {} /\ some # whole
    <3>1. PICK r \in LeavesBelow(t, Append(q, 2)) : TRUE
      BY <2>1, LeafBelow
    <3>2. r \in whole /\ r[Len(q) + 1] = 2
      BY <2>2 DEF Sides
    <3>3. r \notin some
      BY <2>2, <3>2 DEF Sides
    <3>4. some # {}
      BY <2>1, LeafBelow
    <3>5. some \subseteq whole
      BY <2>2 DEF Sides
    <3>6. QED
      BY <3>2, <3>3, <3>4, <3>5
  <2>4. IsFiniteSet(whole)
    <3>1. IsFiniteSet(DOMAIN t) /\ whole \in SUBSET DOMAIN t
      BY DEF IsTree, LeavesBelow, Below
    <3> HIDE DEF whole
    <3>2. QED
      BY <3>1, FS_Subset
  <2> HIDE DEF some, whole
  <2>5. /\ IsFiniteSet(some) /\ Cardinality(some) <= Cardinality(whole)
        /\ Cardinality(some) # Cardinality(whole)
    BY <2>3, <2>4, FS_Subset
  <2>6. /\ Cardinality(some) \in Nat /\ Cardinality(whole) \in Nat /\ Cardinality(some) # 0
    BY <2>3, <2>4, <2>5, FS_CardinalityType, FS_EmptySet
  <2>7. 0 < Cardinality(some) /\ Cardinality(some) < Cardinality(whole)
    BY <2>5, <2>6
  <2>8. QED
    BY <2>6, <2>7 DEF some, whole
<1>2. \A q \in DOMAIN t : IsLeaf(t, q) <=> q \in LeafPaths(t)
  BY DEF LeafPaths
<1>3. u = [q \in DOMAIN t |-> IF IsLeaf(t, q) THEN t[q]
                              ELSE [t[q] EXCEPT !.ratio = <<first(q), all(q)>>]]
  BY DEF Equalize
<1>4. \A q \in DOMAIN t : t[q] \in Nodes
  BY DEF IsTree
<1> HIDE DEF first, all, u
<1>5. ASSUME NEW q \in DOMAIN t \ LeafPaths(t)
      PROVE  LET node == [t[q] EXCEPT !.ratio = <<first(q), all(q)>>]
             IN /\ node \in Nodes /\ node.pane = t[q].pane /\ node.axis = t[q].axis
                /\ 0 < node.ratio[1] /\ node.ratio[1] < node.ratio[2]
  <2> DEFINE ratio == <<first(q), all(q)>>
  <2>1. ratio \in Nat \X Nat /\ 0 < ratio[1] /\ ratio[1] < ratio[2]
    BY <1>1
  <2>2. t[q] \in Nodes
    BY <1>4
  <2> HIDE DEF ratio
  <2>3. /\ [t[q] EXCEPT !.ratio = ratio] \in Nodes
        /\ [t[q] EXCEPT !.ratio = ratio].pane = t[q].pane
        /\ [t[q] EXCEPT !.ratio = ratio].axis = t[q].axis
        /\ [t[q] EXCEPT !.ratio = ratio].ratio = ratio
    BY <2>1, <2>2 DEF Nodes
  <2>4. QED
    BY <2>1, <2>3 DEF ratio
<1>6. /\ DOMAIN u = DOMAIN t
      /\ \A q \in LeafPaths(t) : u[q] = t[q]
      /\ \A q \in DOMAIN t \ LeafPaths(t) : u[q] = [t[q] EXCEPT !.ratio = <<first(q), all(q)>>]
      /\ u = [q \in DOMAIN u |-> u[q]]
  <2>1. LeafPaths(t) \subseteq DOMAIN t
    BY DEF LeafPaths
  <2>2. QED
    BY <1>2, <1>3, <2>1
<1>7. \A q \in DOMAIN t : /\ u[q] \in Nodes /\ u[q].pane = t[q].pane /\ u[q].axis = t[q].axis
  BY <1>4, <1>5, <1>6
<1>8. \A q \in DOMAIN t \ LeafPaths(t) : 0 < u[q].ratio[1] /\ u[q].ratio[1] < u[q].ratio[2]
  BY <1>5, <1>6
<1>9. u \in [DOMAIN u -> Nodes]
  BY <1>6, <1>7
<1>10. IsTree(u) /\ Shallow(u) /\ LeafPaths(u) = LeafPaths(t)
  BY <1>6, <1>7, <1>8, <1>9, SameShape
<1>11. QED
  BY <1>6, <1>10 DEF u

-----------------------------------------------------------------------------
(* The invariant *)

LayoutInv == LayoutTypeOK /\ Shallow(tree)

LEMMA AreaIsRect ==
  ASSUME NEW a \in Areas
  PROVE  a \in RectTypes
BY AreaAssumption DEF Areas, RectTypes

LEMMA LayoutBegins == LayoutInit => LayoutInv
<1>1. SUFFICES ASSUME LayoutInit PROVE LayoutInv
  OBVIOUS
<1>2. PICK p \in Panes : tree = [q \in {<<>>} |-> Leaf(p)]
  BY <1>1 DEF LayoutInit
<1>3. DOMAIN tree = {<<>>} /\ tree[<<>>] = Leaf(p) /\ tree = [q \in DOMAIN tree |-> tree[q]]
  BY <1>2
<1>4. Leaf(p) \in Nodes /\ Leaf(p).pane = p /\ p # None
  <2>1. <<1, 2>> \in Nat \X Nat
    OBVIOUS
  <2>2. QED
    BY <2>1, PanesAssumption DEF Leaf, Nodes
<1>5. LeafPaths(tree) = {<<>>}
  BY <1>3, <1>4 DEF LeafPaths, IsLeaf
<1>6. /\ tree \in [DOMAIN tree -> Nodes] /\ DOMAIN tree \subseteq Seq(Sides)
      /\ IsFiniteSet(DOMAIN tree) /\ <<>> \in DOMAIN tree
  <2>1. tree \in [DOMAIN tree -> Nodes]
    BY <1>3, <1>4
  <2>2. DOMAIN tree \subseteq Seq(Sides)
    BY <1>3, EmptySeq
  <2>3. QED
    BY <1>3, <2>1, <2>2, FS_Singleton
<1>7. IsTree(tree)
  BY <1>3, <1>5, <1>6 DEF IsTree
<1>8. Shallow(tree)
  BY <1>3, EmptySeq, 0 \in Nat DEF Shallow, UpTo
<1>9. QED
  BY <1>1, <1>7, <1>8 DEF LayoutInv, LayoutTypeOK, LayoutInit

(* The divider that a drag moves. *)
LEMMA OwnerIsDivider ==
  ASSUME NEW t, IsTree(t), Shallow(t), NEW p \in PanesOf(t), NEW edge, CanResize(t, p, edge)
  PROVE  Nearest(Owners(t, p, edge)) \in DOMAIN t \ LeafPaths(t)
<1> DEFINE owners == Owners(t, p, edge)
<1>1. PathToPane(t, p) \in DOMAIN t
  BY PathOf
<1>2. ASSUME NEW q \in owners PROVE q \in DOMAIN t \ LeafPaths(t)
  <2>1. q \in DOMAIN t /\ q \in Paths /\ IsPrefix(q, PathToPane(t, p)) /\ q # PathToPane(t, p)
    BY TreePaths DEF Owners, IsStrictPrefix
  <2>2. QED
    BY <1>1, <2>1, PrefixThere
<1>3. owners # {}
  BY DEF CanResize
<1>4. PICK n \in Nat : UpTo(DOMAIN t, n)
  BY DEF Shallow
<1>5. owners \in SUBSET Paths /\ UpTo(owners, n)
  BY <1>2, <1>4, TreePaths DEF UpTo
<1> HIDE DEF owners
<1>6. \E q \in owners : \A r \in owners : Len(r) <= Len(q)
  BY <1>3, <1>5, Longest
<1>7. Nearest(owners) \in owners
  BY <1>6 DEF Nearest
<1>8. QED
  BY <1>2, <1>7 DEF owners

(* The two leaves that change their panes. *)
LEMMA SwapsLeaves ==
  ASSUME SwapPanes
  PROVE  \E q, r \in LeafPaths(tree) :
            q # r /\ tree' = Swap(tree, tree[q].pane, tree[r].pane)
<1> DEFINE rects == Rects(tree, area)
<1>1. \E q \in DrawnPaths(tree, rects), direction \in Directions :
        \E r \in Neighbors(tree, rects, q, direction) :
          tree' = Swap(tree, tree[q].pane, tree[r].pane)
  BY DEF SwapPanes
<1> HIDE DEF rects
<1>2. PICK q \in DrawnPaths(tree, rects), direction \in Directions :
        \E r \in Neighbors(tree, rects, q, direction) :
          tree' = Swap(tree, tree[q].pane, tree[r].pane)
  BY <1>1
<1>3. PICK r \in Neighbors(tree, rects, q, direction) :
        tree' = Swap(tree, tree[q].pane, tree[r].pane)
  BY <1>2
<1>4. r \in DrawnPaths(tree, rects) \ {q}
  BY DEF Neighbors
<1>5. q \in LeafPaths(tree) /\ r \in LeafPaths(tree) /\ q # r
  BY <1>4 DEF DrawnPaths
<1>6. QED
  BY <1>3, <1>5

LEMMA LayoutStep == LayoutInv /\ [LayoutNext]_layoutVars => LayoutInv'
<1>1. SUFFICES ASSUME LayoutInv, [LayoutNext]_layoutVars PROVE LayoutInv'
  OBVIOUS
<1>2. IsTree(tree) /\ Shallow(tree) /\ area \in Areas /\ area \in RectTypes
  BY <1>1, AreaIsRect DEF LayoutInv, LayoutTypeOK
<1>3. SUFFICES IsTree(tree') /\ Shallow(tree') /\ area' \in Areas
  BY DEF LayoutInv, LayoutTypeOK, Shallow, IsTree, LeafPaths, IsLeaf
<1>4. ASSUME NEW p \in Panes, NEW new \in Panes, NEW axis \in Axes, SplitPane(p, new, axis)
      PROVE  IsTree(tree') /\ Shallow(tree') /\ area' \in Areas
  <2>1. /\ p \in PanesOf(tree) /\ new \in Panes \ PanesOf(tree)
        /\ tree' = Split(tree, p, new, axis) /\ area' = area
    BY <1>4 DEF SplitPane
  <2>2. QED
    BY <1>2, <2>1, SplitTree
<1>5. ASSUME NEW p \in Panes, ClosePane(p)
      PROVE  IsTree(tree') /\ Shallow(tree') /\ area' \in Areas
  <2>1. p \in PanesOf(tree) /\ PanesOf(tree) # {p} /\ tree' = RemovePane(tree, p) /\ area' = area
    BY <1>5 DEF ClosePane
  <2>2. QED
    BY <1>2, <2>1, RemoveTree
<1>6. CASE SwapPanes
  <2>1. PICK q \in LeafPaths(tree), r \in LeafPaths(tree) :
          q # r /\ tree' = Swap(tree, tree[q].pane, tree[r].pane)
    BY <1>6, SwapsLeaves
  <2>2. area' = area
    BY <1>6 DEF SwapPanes
  <2>3. QED
    BY <1>2, <2>1, <2>2, SwapTree
<1>7. CASE Balance
  BY <1>2, <1>7, EqualizeTree DEF Balance
<1>8. ASSUME NEW p \in Panes, NEW edge \in Edges, NEW pos \in Lines, DragDivider(p, edge, pos)
      PROVE  IsTree(tree') /\ Shallow(tree') /\ area' \in Areas
  <2> DEFINE q == Nearest(Owners(tree, p, edge))
  <2>1. /\ p \in PanesOf(tree) /\ CanResize(tree, p, edge) /\ area' = area
        /\ Movable(tree, Rects(tree, area), q)
        /\ tree' = ResizeSplit(tree, Rects(tree, area), q, edge, pos)
    BY <1>8 DEF DragDivider
  <2>2. q \in DOMAIN tree \ LeafPaths(tree) /\ pos \in Int
    BY <1>2, <2>1, OwnerIsDivider, AreaAssumption
  <2> HIDE DEF q
  <2>3. QED
    BY <1>2, <2>1, <2>2, DragTree
<1>9. CASE WindowSize
  BY <1>2, <1>9 DEF WindowSize
<1>10. CASE UNCHANGED layoutVars
  BY <1>2, <1>10 DEF layoutVars
<1>11. QED
  BY <1>1, <1>4, <1>5, <1>6, <1>7, <1>8, <1>9, <1>10 DEF LayoutNext

LEMMA LayoutHolds == LayoutSpec => []LayoutInv
BY LayoutBegins, LayoutStep, PTL DEF LayoutSpec

(* The layout is a finite binary tree with every pane at one leaf, and every  *)
(* ratio is one that SplitSizes uses, whatever is split, removed, exchanged,  *)
(* balanced and dragged (Node in layout.go, Split, Remove, Swap, Equalize,    *)
(* ResizeSplit).                                                             *)
THEOREM LayoutTyping == LayoutSpec => []LayoutTypeOK
<1>1. LayoutInv => LayoutTypeOK
  BY DEF LayoutInv
<1>2. QED
  BY <1>1, LayoutHolds, PTL

(* However many panes there are and whatever the size of the window, the     *)
(* drawn rectangles lie in it, none touches another, and a divider hands all  *)
(* but its own cell to its sides (Rects, SplitSizes).                        *)
THEOREM TilingSafety == LayoutSpec => []Tiled
<1>1. ASSUME LayoutInv PROVE Tiled
  <2>1. IsTree(tree) /\ Shallow(tree) /\ area \in RectTypes
    BY <1>1, AreaIsRect DEF LayoutInv, LayoutTypeOK
  <2>2. QED
    BY <2>1, RectsTile DEF Tiled
<1>2. QED
  BY <1>1, LayoutHolds, PTL

(* In any layout a divider that can move lands on the cell it is dragged to,  *)
(* or the nearest one that leaves both sides their least extent, and the      *)
(* panes that are not on its sides stay where they are (ResizeSplit).         *)
THEOREM DividerSafety == LayoutSpec => []DividerLands
<1>1. ASSUME LayoutInv PROVE DividerLands
  <2>1. IsTree(tree) /\ Shallow(tree) /\ area \in RectTypes
    BY <1>1, AreaIsRect DEF LayoutInv, LayoutTypeOK
  <2> DEFINE before == Rects(tree, area)
             Lands(q, edge, pos) ==
               LET first == Append(q, 1)
                   axis == tree[q].axis
                   after == Rects(ResizeSplit(tree, before, q, edge, pos), area)
               IN /\ after[first].at[axis] + after[first].extent[axis]
                       = Line(tree, before, q, edge, pos)
                  /\ \A r \in LeafPaths(tree) \ Below(tree, q) : after[r] = before[r]
  <2>2. ASSUME NEW d \in Dragged, NEW pos \in Lines, Movable(tree, before, d[1])
        PROVE  Lands(d[1], d[2], pos)
    <3>1. d[1] \in DOMAIN tree \ LeafPaths(tree) /\ pos \in Int
      BY AreaAssumption DEF Dragged
    <3>2. QED
      BY <2>1, <2>2, <3>1, DragLands
  <2>3. QED
    BY <2>2 DEF DividerLands
<1>2. QED
  BY <1>1, LayoutHolds, PTL

-----------------------------------------------------------------------------
(* The keys                                                                *)

(* A centre is a cell of the rectangle.                                    *)
LEMMA CenterInside ==
  ASSUME NEW r \in RectTypes, IsDrawn(r), NEW axis \in Axes
  PROVE  /\ Center(r, axis) \in Int
         /\ r.at[axis] <= Center(r, axis)
         /\ Center(r, axis) < r.at[axis] + r.extent[axis]
<1>1. r.at[axis] \in Int /\ r.extent[axis] \in Nat /\ r.extent[axis] > 0
  BY DEF RectTypes, IsDrawn, Axes
<1>2. r.extent[axis] \div 2 \in Nat /\ r.extent[axis] \div 2 < r.extent[axis]
  BY <1>1
<1>3. QED
  BY <1>1, <1>2 DEF Center

(* Of the panes ahead one is nearest.                                      *)
LEMMA SomeNeighbor ==
  ASSUME NEW t, NEW rects, \A q \in DrawnPaths(t, rects) : rects[q] \in RectTypes,
         NEW q \in DrawnPaths(t, rects), NEW r \in DrawnPaths(t, rects), r # q,
         NEW direction \in Directions,
         IF direction \in {"left", "up"}
           THEN Center(rects[r], Along(direction)) < Center(rects[q], Along(direction))
           ELSE Center(rects[r], Along(direction)) > Center(rects[q], Along(direction))
  PROVE  Neighbors(t, rects, q, direction) # {}
<1> DEFINE Here(axis) == Center(rects[q], axis)
           There(u, axis) == Center(rects[u], axis)
           ahead == {u \in DrawnPaths(t, rects) \ {q} :
                       IF direction \in {"left", "up"}
                         THEN There(u, Along(direction)) < Here(Along(direction))
                         ELSE There(u, Along(direction)) > Here(Along(direction))}
           Score(u) == 10000 * Distance(Here(Across(direction)), There(u, Across(direction)))
                       + Distance(Here(Along(direction)), There(u, Along(direction)))
           scores == {Score(u) : u \in ahead}
<1>1. r \in ahead /\ ahead \in SUBSET DrawnPaths(t, rects)
  OBVIOUS
<1>2. ASSUME NEW u \in DrawnPaths(t, rects), NEW axis \in Axes
      PROVE  Center(rects[u], axis) \in Int
  <2>1. rects[u] \in RectTypes /\ IsDrawn(rects[u])
    BY DEF DrawnPaths
  <2>2. QED
    BY <2>1, CenterInside
<1>3. Along(direction) \in Axes /\ Across(direction) \in Axes
  BY DEF Along, Across, Axes
<1>4. ASSUME NEW a \in Int, NEW b \in Int PROVE Distance(a, b) \in Nat
  BY DEF Distance
<1>5. ASSUME NEW u \in ahead PROVE Score(u) \in Nat
  <2>1. u \in DrawnPaths(t, rects)
    BY <1>1
  <2>2. /\ Here(Across(direction)) \in Int /\ Here(Along(direction)) \in Int
        /\ There(u, Across(direction)) \in Int /\ There(u, Along(direction)) \in Int
    BY <1>2, <1>3, <2>1
  <2>3. /\ Distance(Here(Across(direction)), There(u, Across(direction))) \in Nat
        /\ Distance(Here(Along(direction)), There(u, Along(direction))) \in Nat
    BY <1>4, <2>2
  <2>4. QED
    BY <2>3
<1>6. Neighbors(t, rects, q, direction) = {u \in ahead : \A v \in ahead : Score(u) <= Score(v)}
  BY DEF Neighbors
<1> HIDE DEF ahead, Score
<1>7. scores \in SUBSET Nat /\ scores # {}
  BY <1>1, <1>5
<1>8. PICK n \in scores : \A m \in scores : n <= m
  <2> HIDE DEF scores
  <2>1. QED
    BY <1>7, LeastNumber
<1>9. PICK u \in ahead : Score(u) = n
  BY <1>8
<1>10. \A v \in ahead : Score(u) <= Score(v)
  BY <1>8, <1>9
<1>11. QED
  BY <1>6, <1>9, <1>10

(* What lies beyond has its centre beyond.                                 *)
LEMMA BeyondIsAhead ==
  ASSUME NEW t, NEW rects, \A q \in DrawnPaths(t, rects) : rects[q] \in RectTypes,
         NEW q \in DrawnPaths(t, rects), NEW r \in DrawnPaths(t, rects),
         NEW direction \in Directions, LiesTo(rects[r], rects[q], direction)
  PROVE  Neighbors(t, rects, q, direction) # {}
<1> DEFINE axis == Along(direction)
<1>1. axis \in Axes
  BY DEF Along, Axes
<1>2. /\ rects[q] \in RectTypes /\ IsDrawn(rects[q])
      /\ rects[r] \in RectTypes /\ IsDrawn(rects[r])
  BY DEF DrawnPaths
<1>3. /\ Center(rects[q], axis) \in Int /\ Center(rects[r], axis) \in Int
      /\ rects[q].at[axis] <= Center(rects[q], axis)
      /\ Center(rects[q], axis) < rects[q].at[axis] + rects[q].extent[axis]
      /\ rects[r].at[axis] <= Center(rects[r], axis)
      /\ Center(rects[r], axis) < rects[r].at[axis] + rects[r].extent[axis]
  BY <1>1, <1>2, CenterInside
<1>4. /\ rects[q].at[axis] \in Int /\ rects[q].extent[axis] \in Nat
      /\ rects[r].at[axis] \in Int /\ rects[r].extent[axis] \in Nat
  BY <1>1, <1>2 DEF RectTypes
<1> HIDE DEF axis
<1>5. IF direction \in {"left", "up"}
        THEN Center(rects[r], axis) < Center(rects[q], axis)
        ELSE Center(rects[r], axis) > Center(rects[q], axis)
  <2>1. IF direction \in {"left", "up"}
          THEN rects[r].at[axis] + rects[r].extent[axis] <= rects[q].at[axis]
          ELSE rects[q].at[axis] + rects[q].extent[axis] <= rects[r].at[axis]
    BY DEF LiesTo, axis
  <2>2. QED
    BY <1>3, <1>4, <2>1
<1>6. r # q
  BY <1>3, <1>5
<1>7. QED
  BY <1>5, <1>6, SomeNeighbor DEF axis

(* Rectangles that are apart lie beyond one another in some direction.     *)
LEMMA ApartIsBeyond ==
  ASSUME NEW q \in RectTypes, NEW r \in RectTypes, Apart(q, r)
  PROVE  \E direction \in Directions : LiesTo(r, q, direction)
<1>1. PICK axis \in Axes : \/ q.at[axis] + q.extent[axis] + Gap <= r.at[axis]
                           \/ r.at[axis] + r.extent[axis] + Gap <= q.at[axis]
  BY DEF Apart
<1>2. /\ q.at[axis] \in Int /\ q.extent[axis] \in Nat
      /\ r.at[axis] \in Int /\ r.extent[axis] \in Nat
  BY DEF RectTypes
<1>3. \/ q.at[axis] + q.extent[axis] <= r.at[axis]
      \/ r.at[axis] + r.extent[axis] <= q.at[axis]
  BY <1>1, <1>2 DEF Gap
<1>4. CASE axis = "columns"
  BY <1>3, <1>4 DEF LiesTo, Along, Directions
<1>5. CASE axis = "rows"
  BY <1>3, <1>5 DEF LiesTo, Along, Directions
<1>6. QED
  BY <1>4, <1>5 DEF Axes

(* In layouts of any size a key leads on wherever a pane lies that way, and  *)
(* with two panes drawn some key leads out of each (Neighbor in layout.go,   *)
(* canMoveActivePane, swapActivePane).                                      *)
THEOREM FocusSafety == LayoutSpec => []FocusMoves
<1>1. ASSUME LayoutInv PROVE FocusMoves
  <2> DEFINE rects == Rects(tree, area)
             drawn == DrawnPaths(tree, rects)
  <2>1. IsTree(tree) /\ Shallow(tree) /\ area \in RectTypes
    BY <1>1, AreaIsRect DEF LayoutInv, LayoutTypeOK
  <2>2. \A q \in drawn : rects[q] \in RectTypes
    <3>1. \A q \in DOMAIN tree : rects[q] \in RectTypes
      BY <2>1, TreeRects
    <3>2. QED
      BY <3>1 DEF DrawnPaths, LeafPaths
  <2>3. \A q, r \in drawn : q # r => Apart(rects[q], rects[r])
    BY <2>1, RectsTile
  <2> HIDE DEF rects
  <2>4. ASSUME NEW q \in drawn, NEW r \in drawn, NEW direction \in Directions,
               LiesTo(rects[r], rects[q], direction)
        PROVE  Neighbors(tree, rects, q, direction) # {}
    BY <2>2, <2>4, BeyondIsAhead
  <2>5. ASSUME NEW q \in drawn, NEW r \in drawn, q # r
        PROVE  \E direction \in Directions : Neighbors(tree, rects, q, direction) # {}
    <3>1. Apart(rects[q], rects[r]) /\ rects[q] \in RectTypes /\ rects[r] \in RectTypes
      BY <2>2, <2>3, <2>5
    <3>2. PICK direction \in Directions : LiesTo(rects[r], rects[q], direction)
      BY <3>1, ApartIsBeyond
    <3>3. QED
      BY <2>4, <3>2
  <2>6. QED
    BY <2>4, <2>5 DEF FocusMoves, rects
<1>2. QED
  BY <1>1, LayoutHolds, PTL

-----------------------------------------------------------------------------
(* The order of the leaves                                                 *)

(* Paths compare at the first place where they differ. *)
LEMMA BeforeOnce ==
  ASSUME NEW q \in Paths, NEW r \in Paths, Before(q, r)
  PROVE  ~Before(r, q) /\ q # r
<1>1. /\ DOMAIN q = 1 .. Len(q) /\ Len(q) \in Nat /\ \A i \in DOMAIN q : q[i] \in Int
      /\ DOMAIN r = 1 .. Len(r) /\ Len(r) \in Nat /\ \A i \in DOMAIN r : r[i] \in Int
  BY LenProperties DEF Paths, Sides
<1>2. PICK i \in DOMAIN q : i \in DOMAIN r /\ q[i] < r[i] /\ \A j \in 1 .. i - 1 : q[j] = r[j]
  BY DEF Before
<1>3. ASSUME NEW k \in DOMAIN r, k \in DOMAIN q, r[k] < q[k], \A j \in 1 .. k - 1 : r[j] = q[j]
      PROVE  FALSE
  <2>1. i \in Nat \ {0} /\ k \in Nat \ {0} /\ q[i] \in Int /\ r[i] \in Int
    BY <1>1, <1>2, <1>3
  <2>2. CASE i < k
    <3>1. i \in 1 .. k - 1
      BY <2>1, <2>2
    <3>2. QED
      BY <1>2, <1>3, <2>1, <3>1
  <2>3. CASE k < i
    <3>1. k \in 1 .. i - 1
      BY <2>1, <2>3
    <3>2. QED
      BY <1>1, <1>2, <1>3, <3>1
  <2>4. CASE i = k
    BY <1>2, <1>3, <2>1, <2>4
  <2>5. QED
    BY <2>1, <2>2, <2>3, <2>4
<1>4. ~Before(r, q)
  BY <1>3 DEF Before
<1>5. QED
  BY <1>4

(* What is put behind two paths does not change which one is before. *)
LEMMA BeforeAlways ==
  ASSUME NEW q \in Paths, NEW r \in Paths, NEW s \in Paths, Before(q, r)
  PROVE  Before(q \o s, r) /\ Before(q, r \o s)
<1>1. /\ DOMAIN q = 1 .. Len(q) /\ Len(q) \in Nat /\ DOMAIN r = 1 .. Len(r) /\ Len(r) \in Nat
  BY LenProperties DEF Paths
<1>2. PICK i \in DOMAIN q : i \in DOMAIN r /\ q[i] < r[i] /\ \A j \in 1 .. i - 1 : q[j] = r[j]
  BY DEF Before
<1>3. ASSUME NEW a \in Paths
      PROVE  /\ DOMAIN a \subseteq DOMAIN (a \o s)
             /\ \A k \in DOMAIN a : (a \o s)[k] = a[k]
  <2>1. /\ a \o s \in Paths /\ Len(a \o s) = Len(a) + Len(s) /\ Len(a) \in Nat /\ Len(s) \in Nat
        /\ \A k \in 1 .. Len(a) + Len(s) : (a \o s)[k] = IF k <= Len(a) THEN a[k] ELSE s[k - Len(a)]
    BY ConcatProperties, LenProperties DEF Paths
  <2>2. DOMAIN a = 1 .. Len(a) /\ DOMAIN (a \o s) = 1 .. Len(a) + Len(s)
    BY <2>1, LenProperties DEF Paths
  <2>3. QED
    BY <2>1, <2>2
<1>4. \A j \in 1 .. i - 1 : j \in DOMAIN q /\ j \in DOMAIN r
  BY <1>1, <1>2
<1>5. i \in DOMAIN (q \o s) /\ i \in DOMAIN (r \o s)
  BY <1>2, <1>3
<1>6. /\ (q \o s)[i] < r[i] /\ q[i] < (r \o s)[i]
      /\ \A j \in 1 .. i - 1 : (q \o s)[j] = r[j] /\ q[j] = (r \o s)[j]
  <2>1. (q \o s)[i] = q[i] /\ (r \o s)[i] = r[i]
    BY <1>2, <1>3
  <2>2. ASSUME NEW j \in 1 .. i - 1 PROVE (q \o s)[j] = q[j] /\ (r \o s)[j] = r[j]
    BY <1>3, <1>4
  <2>3. QED
    BY <1>2, <2>1, <2>2
<1>7. QED
  BY <1>2, <1>5, <1>6 DEF Before

(* A path that does not lead through another one is before it or behind it. *)
LEMMA BeforeStem ==
  ASSUME NEW a \in Paths, NEW s \in Paths, NEW q \in Paths, ~IsPrefix(a, q)
  PROVE  (Before(q, a \o s) => Before(q, a)) /\ (Before(a \o s, q) => Before(a, q))
<1>1. /\ a \o s \in Paths /\ Len(a \o s) = Len(a) + Len(s) /\ Len(a) \in Nat /\ Len(s) \in Nat
      /\ \A k \in 1 .. Len(a) : (a \o s)[k] = a[k]
  BY ConcatProperties, LenProperties DEF Paths
<1>2. /\ DOMAIN a = 1 .. Len(a) /\ DOMAIN (a \o s) = 1 .. Len(a) + Len(s)
      /\ DOMAIN q = 1 .. Len(q) /\ Len(q) \in Nat
  BY <1>1, LenProperties DEF Paths
<1>3. ASSUME NEW i \in DOMAIN q, i \in DOMAIN (a \o s),
             \A j \in 1 .. i - 1 : q[j] = (a \o s)[j]
      PROVE  /\ i \in DOMAIN a /\ (a \o s)[i] = a[i] /\ \A j \in 1 .. i - 1 : (a \o s)[j] = a[j]
  <2>1. i \in Nat \ {0} /\ i <= Len(q)
    BY <1>2
  <2>2. ASSUME Len(a) < i PROVE FALSE
    <3>1. Len(a) <= Len(q) /\ Len(a) \in 0 .. Len(q)
      BY <1>1, <1>2, <2>1, <2>2
    <3>2. \A j \in 1 .. Len(a) : j \in 1 .. i - 1
      BY <1>1, <2>1, <2>2
    <3>3. \A j \in 1 .. Len(a) : q[j] = a[j]
      BY <1>1, <1>3, <3>2
    <3>4. Step(q, Len(a)) = Step(a, Len(a)) /\ Step(a, Len(a)) = a
      BY <3>1, <3>3, <1>1, StepEqual, StepFull
    <3>5. QED
      BY <3>1, <3>4, PrefixIsStep
  <2>3. i \in 1 .. Len(a) /\ \A j \in 1 .. i - 1 : j \in 1 .. Len(a)
    BY <1>1, <2>1, <2>2
  <2>4. QED
    BY <1>1, <1>2, <2>3
<1>4. ASSUME Before(q, a \o s) PROVE Before(q, a)
  <2>1. PICK i \in DOMAIN q : /\ i \in DOMAIN (a \o s) /\ q[i] < (a \o s)[i]
                              /\ \A j \in 1 .. i - 1 : q[j] = (a \o s)[j]
    BY <1>4 DEF Before
  <2>2. i \in DOMAIN a /\ (a \o s)[i] = a[i] /\ \A j \in 1 .. i - 1 : (a \o s)[j] = a[j]
    BY <1>3, <2>1
  <2>3. QED
    BY <2>1, <2>2 DEF Before
<1>5. ASSUME Before(a \o s, q) PROVE Before(a, q)
  <2>1. PICK i \in DOMAIN (a \o s) : /\ i \in DOMAIN q /\ (a \o s)[i] < q[i]
                                    /\ \A j \in 1 .. i - 1 : (a \o s)[j] = q[j]
    BY <1>5 DEF Before
  <2>2. i \in DOMAIN a /\ (a \o s)[i] = a[i] /\ \A j \in 1 .. i - 1 : (a \o s)[j] = a[j]
    BY <1>3, <2>1
  <2>3. QED
    BY <2>1, <2>2 DEF Before
<1>6. QED
  BY <1>4, <1>5

(* Moving both with what they are behind does not change which one is before. *)
LEMMA BeforeMoved ==
  ASSUME NEW a \in Paths, NEW b \in Paths, NEW q \in Paths, NEW r \in Paths, Before(a \o q, a \o r)
  PROVE  Before(b \o q, b \o r)
<1>1. ASSUME NEW c \in Paths, NEW s \in Paths
      PROVE  /\ DOMAIN (c \o s) = 1 .. Len(c) + Len(s) /\ Len(c) \in Nat /\ Len(s) \in Nat
             /\ DOMAIN s = 1 .. Len(s)
             /\ \A k \in 1 .. Len(c) + Len(s) : (c \o s)[k] = IF k <= Len(c) THEN c[k] ELSE s[k - Len(c)]
  BY ConcatProperties, LenProperties DEF Paths
<1>2. PICK i \in DOMAIN (a \o q) : /\ i \in DOMAIN (a \o r) /\ (a \o q)[i] < (a \o r)[i]
                                  /\ \A j \in 1 .. i - 1 : (a \o q)[j] = (a \o r)[j]
  BY DEF Before
<1> DEFINE k == i - Len(a)
           m == Len(b) + k
<1>3. /\ Len(a) \in Nat /\ Len(b) \in Nat /\ Len(q) \in Nat /\ Len(r) \in Nat
      /\ i \in 1 .. Len(a) + Len(q) /\ i \in 1 .. Len(a) + Len(r) /\ i \in Nat \ {0}
  BY <1>1, <1>2
<1>4. ASSUME i <= Len(a) PROVE FALSE
  <2>1. (a \o q)[i] = a[i] /\ (a \o r)[i] = a[i]
    BY <1>1, <1>3, <1>4
  <2>2. a[i] \in Int
    BY <1>3, <1>4, ElementOfSeq DEF Paths, Sides
  <2>3. QED
    BY <1>2, <2>1, <2>2
<1>5. k \in 1 .. Len(q) /\ k \in 1 .. Len(r) /\ k \in Nat \ {0} /\ q[k] < r[k]
  <2>1. k \in 1 .. Len(q) /\ k \in 1 .. Len(r) /\ k \in Nat \ {0}
    BY <1>3, <1>4
  <2>2. (a \o q)[i] = q[k] /\ (a \o r)[i] = r[k]
    BY <1>1, <1>3, <1>4
  <2>3. QED
    BY <1>2, <2>1, <2>2
<1>6. ASSUME NEW j \in 1 .. k - 1 PROVE q[j] = r[j]
  <2>1. /\ j + Len(a) \in 1 .. i - 1 /\ j + Len(a) \in 1 .. Len(a) + Len(q)
        /\ j + Len(a) \in 1 .. Len(a) + Len(r) /\ ~(j + Len(a) <= Len(a)) /\ (j + Len(a)) - Len(a) = j
    BY <1>3, <1>5
  <2>2. (a \o q)[j + Len(a)] = q[j] /\ (a \o r)[j + Len(a)] = r[j]
    BY <1>1, <2>1
  <2>3. QED
    BY <1>2, <2>1, <2>2
<1>7. /\ m \in 1 .. Len(b) + Len(q) /\ m \in 1 .. Len(b) + Len(r)
      /\ ~(m <= Len(b)) /\ m - Len(b) = k /\ m \in Nat
  BY <1>3, <1>5
<1>8. (b \o q)[m] = q[k] /\ (b \o r)[m] = r[k] /\ m \in DOMAIN (b \o q) /\ m \in DOMAIN (b \o r)
  BY <1>1, <1>7
<1>9. ASSUME NEW j \in 1 .. m - 1 PROVE (b \o q)[j] = (b \o r)[j]
  <2>1. j \in 1 .. Len(b) + Len(q) /\ j \in 1 .. Len(b) + Len(r) /\ j \in Nat
    BY <1>3, <1>7
  <2>2. CASE j <= Len(b)
    BY <1>1, <2>1, <2>2
  <2>3. CASE ~(j <= Len(b))
    <3>1. j - Len(b) \in 1 .. k - 1
      BY <1>3, <1>5, <2>1, <2>3
    <3>2. (b \o q)[j] = q[j - Len(b)] /\ (b \o r)[j] = r[j - Len(b)]
      BY <1>1, <2>1, <2>3
    <3>3. QED
      BY <1>6, <3>1, <3>2
  <2>4. QED
    BY <2>2, <2>3
<1> HIDE DEF m, k
<1>10. QED
  BY <1>5, <1>8, <1>9 DEF Before

-----------------------------------------------------------------------------
(* The leaves from the first to the last: the way from Leaves to the tree. *)
IsOrder(s, n, t) ==
  /\ s \in [1 .. n -> LeafPaths(t)]
  /\ \A q \in LeafPaths(t) : \E i \in 1 .. n : s[i] = q
  /\ \A i, j \in 1 .. n : i < j => Before(s[i], s[j])
Ordered(t) == \E n \in Nat : \E s : IsOrder(s, n, t)

LEMMA LeavesAre ==
  ASSUME NEW t, IsTree(t), NEW n \in Nat, NEW s, IsOrder(s, n, t)
  PROVE  /\ \A i, j \in 1 .. n : s[i] = s[j] => i = j
         /\ Leaves(t) = [i \in 1 .. n |-> t[s[i]].pane]
<1> DEFINE leaves == LeafPaths(t)
           ahead(q) == {r \in leaves : Before(r, q)}
           place(q) == Cardinality(ahead(q)) + 1
           at(i) == CHOOSE q \in leaves : place(q) = i
<1>1. leaves \in SUBSET Paths
  BY TreePaths DEF LeafPaths
<1>2. /\ s \in [1 .. n -> leaves] /\ \A q \in leaves : \E i \in 1 .. n : s[i] = q
      /\ \A i, j \in 1 .. n : i < j => Before(s[i], s[j])
  BY DEF IsOrder
<1>3. ASSUME NEW i \in 1 .. n, NEW j \in 1 .. n, Before(s[i], s[j]) PROVE i < j
  <2>1. s[i] \in Paths /\ s[j] \in Paths
    BY <1>1, <1>2
  <2>2. ~Before(s[j], s[i]) /\ s[i] # s[j]
    BY <1>3, <2>1, BeforeOnce
  <2>3. ~(j < i) /\ i # j
    BY <1>2, <2>2
  <2>4. QED
    BY <2>3
<1>4. ASSUME NEW i \in 1 .. n, NEW j \in 1 .. n, s[i] = s[j] PROVE i = j
  <2>1. ~(i < j) /\ ~(j < i)
    BY <1>2, <1>3, <1>4
  <2>2. QED
    BY <2>1
<1> HIDE DEF leaves
<1>5. Cardinality(leaves) = n
  <2>1. s \in Bijection(1 .. n, leaves)
    BY <1>2, <1>4 DEF Bijection, Injection, Surjection, IsInjective
  <2>2. ExistsBijection(1 .. n, leaves)
    BY <2>1 DEF ExistsBijection
  <2>3. QED
    BY <2>2, FS_CountingElements, FS_NatBijection
<1>6. ASSUME NEW i \in 1 .. n PROVE place(s[i]) = i
  <2> DEFINE first == [j \in 1 .. i - 1 |-> s[j]]
  <2>1. ASSUME NEW j \in 1 .. i - 1 PROVE first[j] \in ahead(s[i])
    BY <1>2
  <2>2. ASSUME NEW r \in ahead(s[i]) PROVE \E j \in 1 .. i - 1 : first[j] = r
    <3>1. PICK j \in 1 .. n : s[j] = r
      BY <1>2
    <3>2. j < i
      BY <1>3, <3>1
    <3>3. QED
      BY <3>1, <3>2
  <2>3. \A j, k \in 1 .. i - 1 : first[j] = first[k] => j = k
    BY <1>4
  <2>4. first \in [1 .. i - 1 -> ahead(s[i])]
    BY <2>1
  <2> HIDE DEF first, ahead
  <2>5. first \in Bijection(1 .. i - 1, ahead(s[i]))
    BY <2>2, <2>3, <2>4 DEF Bijection, Injection, Surjection, IsInjective
  <2>6. ExistsBijection(1 .. i - 1, ahead(s[i])) /\ i - 1 \in Nat
    BY <2>5 DEF ExistsBijection
  <2>7. Cardinality(ahead(s[i])) = i - 1
    BY <2>6, FS_CountingElements, FS_NatBijection
  <2>8. QED
    BY <2>7
<1>7. ASSUME NEW i \in 1 .. n PROVE at(i) = s[i]
  <2> HIDE DEF place
  <2>1. s[i] \in leaves /\ place(s[i]) = i
    BY <1>2, <1>6
  <2>2. at(i) \in leaves /\ place(at(i)) = i
    BY <2>1
  <2>3. PICK j \in 1 .. n : s[j] = at(i)
    <3> HIDE DEF at
    <3>1. QED
      BY <1>2, <2>2
  <2> HIDE DEF at
  <2>4. place(s[j]) = j
    BY <1>6
  <2>5. QED
    BY <2>2, <2>3, <2>4
<1>8. Leaves(t) = [i \in 1 .. Cardinality(leaves) |-> t[at(i)].pane]
  BY DEF Leaves, leaves
<1>9. QED
  <2> HIDE DEF at
  <2>1. QED
    BY <1>4, <1>5, <1>7, <1>8

-----------------------------------------------------------------------------
(* Sequences with an element more or less. *)
LEMMA FunctionIsSeq ==
  ASSUME NEW S, NEW n \in Nat, NEW f \in [1 .. n -> S]
  PROVE  f \in Seq(S) /\ Len(f) = n
OBVIOUS

HasMore(g, f, n, k, new) ==
  /\ \A i \in 1 .. k : g[i] = f[i]
  /\ g[k + 1] = new
  /\ \A i \in k + 1 .. n : g[i + 1] = f[i]
HasLess(g, f, n, k) ==
  /\ \A i \in 1 .. k - 1 : g[i] = f[i]
  /\ \A i \in k .. n - 1 : g[i] = f[i + 1]

LEMMA InsertedIs ==
  ASSUME NEW n \in Nat, NEW f \in [1 .. n -> Panes], NEW g \in [1 .. n + 1 -> Panes],
         NEW k \in 1 .. n, NEW new \in Panes, HasMore(g, f, n, k, new)
  PROVE  g = SubSeq(f, 1, k) \o <<new>> \o SubSeq(f, k + 1, Len(f))
<1> DEFINE a == SubSeq(f, 1, k)
           b == SubSeq(f, k + 1, Len(f))
           c == a \o <<new>>
           h == c \o b
<1>0. /\ \A i \in 1 .. k : g[i] = f[i]
      /\ g[k + 1] = new
      /\ \A i \in k + 1 .. n : g[i + 1] = f[i]
  BY DEF HasMore
<1>1. /\ f \in Seq(Panes) /\ Len(f) = n /\ g \in Seq(Panes) /\ Len(g) = n + 1
      /\ k \in Int /\ n \in Int /\ 1 \in Int /\ k + 1 \in Int
  BY FunctionIsSeq
<1>2. a \in Seq(Panes) /\ Len(a) = k /\ \A i \in 1 .. k : a[i] = f[i]
  <2>1. \A i \in 1 .. k : f[i] \in Panes
    OBVIOUS
  <2>2. /\ a \in Seq(Panes) /\ Len(a) = IF 1 <= k THEN k - 1 + 1 ELSE 0
        /\ \A i \in 1 .. k - 1 + 1 : a[i] = f[1 + i - 1]
    BY <1>1, <2>1, SubSeqProperties
  <2>3. k - 1 + 1 = k /\ \A i \in 1 .. k : 1 + i - 1 = i
    OBVIOUS
  <2>4. QED
    BY <2>2, <2>3
<1>3. b \in Seq(Panes) /\ Len(b) = n - k /\ \A i \in 1 .. n - k : b[i] = f[k + i]
  <2>1. \A i \in k + 1 .. n : f[i] \in Panes
    OBVIOUS
  <2>2. /\ b \in Seq(Panes) /\ Len(b) = IF k + 1 <= n THEN n - (k + 1) + 1 ELSE 0
        /\ \A i \in 1 .. n - (k + 1) + 1 : b[i] = f[k + 1 + i - 1]
    BY <1>1, <2>1, SubSeqProperties
  <2>3. n - (k + 1) + 1 = n - k /\ \A i \in 1 .. n - k : k + 1 + i - 1 = k + i
    OBVIOUS
  <2>4. QED
    BY <2>2, <2>3
<1> HIDE DEF a, b
<1>4. /\ c \in Seq(Panes) /\ Len(c) = k + 1
      /\ \A i \in 1 .. k + 1 : c[i] = IF i <= k THEN a[i] ELSE <<new>>[i - k]
  <2>1. <<new>> \in Seq(Panes) /\ Len(<<new>>) = 1
    OBVIOUS
  <2>2. QED
    BY <1>2, <2>1, ConcatProperties
<1>5. c[k + 1] = new
  <2>1. (k + 1) - k = 1 /\ k + 1 \in 1 .. k + 1 /\ ~(k + 1 <= k)
    OBVIOUS
  <2>2. QED
    BY <1>4, <2>1
<1>6. \A i \in 1 .. k : c[i] = f[i]
  BY <1>2, <1>4
<1> HIDE DEF c
<1>7. /\ h \in Seq(Panes) /\ Len(h) = (k + 1) + (n - k)
      /\ \A i \in 1 .. (k + 1) + (n - k) : h[i] = IF i <= k + 1 THEN c[i] ELSE b[i - (k + 1)]
  <2>1. /\ h \in Seq(Panes) /\ Len(h) = Len(c) + Len(b)
        /\ \A i \in 1 .. Len(c) + Len(b) : h[i] = IF i <= Len(c) THEN c[i] ELSE b[i - Len(c)]
    BY <1>3, <1>4, ConcatProperties
  <2>2. QED
    BY <1>3, <1>4, <2>1
<1>8. (k + 1) + (n - k) = n + 1
  OBVIOUS
<1> HIDE DEF h
<1>9. ASSUME NEW i \in 1 .. n + 1 PROVE g[i] = h[i]
  <2>1. CASE i <= k
    BY <1>0, <1>6, <1>7, <1>8, <2>1
  <2>2. CASE i = k + 1
    BY <1>0, <1>5, <1>7, <1>8, <2>2
  <2>3. CASE k + 1 < i
    <3>1. i - (k + 1) \in 1 .. n - k /\ k + (i - (k + 1)) = i - 1 /\ i - 1 \in k + 1 .. n /\ (i - 1) + 1 = i
      BY <2>3
    <3>2. h[i] = b[i - (k + 1)] /\ g[i] = f[i - 1]
      BY <1>0, <1>7, <1>8, <2>3, <3>1
    <3>3. QED
      BY <1>3, <3>1, <3>2
  <2>4. QED
    BY <2>1, <2>2, <2>3
<1>10. g = h
  BY <1>1, <1>7, <1>8, <1>9, SeqEqual
<1>11. QED
  BY <1>10 DEF h, c, a, b

LEMMA DroppedIs ==
  ASSUME NEW n \in Nat, NEW f \in [1 .. n -> Panes], NEW g \in [1 .. n - 1 -> Panes],
         NEW k \in 1 .. n, HasLess(g, f, n, k)
  PROVE  g = SubSeq(f, 1, k - 1) \o SubSeq(f, k + 1, Len(f))
<1> DEFINE a == SubSeq(f, 1, k - 1)
           b == SubSeq(f, k + 1, Len(f))
           h == a \o b
<1>0. (\A i \in 1 .. k - 1 : g[i] = f[i]) /\ \A i \in k .. n - 1 : g[i] = f[i + 1]
  BY DEF HasLess
<1>1. /\ f \in Seq(Panes) /\ Len(f) = n /\ g \in Seq(Panes) /\ Len(g) = n - 1
      /\ k \in Int /\ n \in Int /\ 1 \in Int /\ k + 1 \in Int /\ k - 1 \in Int /\ n - 1 \in Nat
  BY FunctionIsSeq
<1>2. a \in Seq(Panes) /\ Len(a) = k - 1 /\ \A i \in 1 .. k - 1 : a[i] = f[i]
  <2>1. \A i \in 1 .. k - 1 : f[i] \in Panes
    OBVIOUS
  <2>2. /\ a \in Seq(Panes) /\ Len(a) = IF 1 <= k - 1 THEN k - 1 - 1 + 1 ELSE 0
        /\ \A i \in 1 .. k - 1 - 1 + 1 : a[i] = f[1 + i - 1]
    BY <1>1, <2>1, SubSeqProperties
  <2>3. k - 1 - 1 + 1 = k - 1 /\ \A i \in 1 .. k - 1 : 1 + i - 1 = i
    OBVIOUS
  <2>4. QED
    BY <2>2, <2>3
<1>3. b \in Seq(Panes) /\ Len(b) = n - k /\ \A i \in 1 .. n - k : b[i] = f[k + i]
  <2>1. \A i \in k + 1 .. n : f[i] \in Panes
    OBVIOUS
  <2>2. /\ b \in Seq(Panes) /\ Len(b) = IF k + 1 <= n THEN n - (k + 1) + 1 ELSE 0
        /\ \A i \in 1 .. n - (k + 1) + 1 : b[i] = f[k + 1 + i - 1]
    BY <1>1, <2>1, SubSeqProperties
  <2>3. n - (k + 1) + 1 = n - k /\ \A i \in 1 .. n - k : k + 1 + i - 1 = k + i
    OBVIOUS
  <2>4. QED
    BY <2>2, <2>3
<1> HIDE DEF a, b
<1>4. /\ h \in Seq(Panes) /\ Len(h) = (k - 1) + (n - k)
      /\ \A i \in 1 .. (k - 1) + (n - k) : h[i] = IF i <= k - 1 THEN a[i] ELSE b[i - (k - 1)]
  <2>1. /\ h \in Seq(Panes) /\ Len(h) = Len(a) + Len(b)
        /\ \A i \in 1 .. Len(a) + Len(b) : h[i] = IF i <= Len(a) THEN a[i] ELSE b[i - Len(a)]
    BY <1>2, <1>3, ConcatProperties
  <2>2. QED
    BY <1>2, <1>3, <2>1
<1>5. (k - 1) + (n - k) = n - 1
  OBVIOUS
<1> HIDE DEF h
<1>6. ASSUME NEW i \in 1 .. n - 1 PROVE g[i] = h[i]
  <2>1. CASE i <= k - 1
    BY <1>0, <1>2, <1>4, <1>5, <2>1
  <2>2. CASE ~(i <= k - 1)
    <3>1. i - (k - 1) \in 1 .. n - k /\ k + (i - (k - 1)) = i + 1 /\ i \in k .. n - 1
      BY <2>2
    <3>2. h[i] = b[i - (k - 1)] /\ g[i] = f[i + 1]
      BY <1>0, <1>4, <1>5, <2>2, <3>1
    <3>3. QED
      BY <1>3, <3>1, <3>2
  <2>3. QED
    BY <2>1, <2>2
<1>7. g = h
  BY <1>1, <1>4, <1>5, <1>6, SeqEqual
<1>8. QED
  BY <1>7 DEF h, a, b

-----------------------------------------------------------------------------
(* What the commands do to the order *)

LEMMA LeavesSeq ==
  ASSUME NEW t, IsTree(t), NEW n \in Nat, NEW s, IsOrder(s, n, t)
  PROVE  /\ Leaves(t) \in [1 .. n -> Panes] /\ Len(Leaves(t)) = n /\ DOMAIN Leaves(t) = 1 .. n
         /\ {Leaves(t)[i] : i \in 1 .. n} = PanesOf(t)
<1>1. Leaves(t) = [i \in 1 .. n |-> t[s[i]].pane]
  BY LeavesAre
<1>2. ASSUME NEW q \in LeafPaths(t) PROVE t[q].pane \in Panes
  BY DEF IsTree, LeafPaths, IsLeaf, Nodes
<1>3. s \in [1 .. n -> LeafPaths(t)] /\ \A q \in LeafPaths(t) : \E i \in 1 .. n : s[i] = q
  BY DEF IsOrder
<1>4. Leaves(t) \in [1 .. n -> Panes] /\ \A i \in 1 .. n : Leaves(t)[i] = t[s[i]].pane
  BY <1>1, <1>2, <1>3
<1>5. \A p \in PanesOf(t) : \E i \in 1 .. n : Leaves(t)[i] = p
  BY <1>3, <1>4 DEF PanesOf
<1>6. \A i \in 1 .. n : Leaves(t)[i] \in PanesOf(t)
  BY <1>3, <1>4 DEF PanesOf
<1>7. Len(Leaves(t)) = n /\ DOMAIN Leaves(t) = 1 .. n
  BY <1>4, FunctionIsSeq
<1>8. QED
  BY <1>4, <1>5, <1>6, <1>7

(* A leaf makes way for two, the second one with a new pane. *)
HasSplit(t, u, at, new) ==
  /\ at \in LeafPaths(t)
  /\ Append(at, 1) \notin LeafPaths(t) /\ Append(at, 2) \notin LeafPaths(t)
  /\ LeafPaths(u) = (LeafPaths(t) \ {at}) \cup {Append(at, 1), Append(at, 2)}
  /\ u[Append(at, 1)].pane = t[at].pane /\ u[Append(at, 2)].pane = new
  /\ \A q \in LeafPaths(t) \ {at} : u[q].pane = t[q].pane

LeavesInsert(t, u, n, new) ==
  \E k \in 1 .. n : Leaves(u) = SubSeq(Leaves(t), 1, k) \o <<new>>
                                 \o SubSeq(Leaves(t), k + 1, Len(Leaves(t)))

LEMMA SplitOrder ==
  ASSUME NEW t, IsTree(t), NEW u, IsTree(u), NEW n \in Nat, NEW s, IsOrder(s, n, t),
         NEW at, NEW new, HasSplit(t, u, at, new)
  PROVE  Ordered(u) /\ LeavesInsert(t, u, n, new)
<1> DEFINE a1 == Append(at, 1)
           a2 == Append(at, 2)
<1>1. LeafPaths(t) \in SUBSET Paths /\ at \in Paths /\ at \in LeafPaths(t)
  BY TreePaths DEF LeafPaths, HasSplit
<1>2. /\ s \in [1 .. n -> LeafPaths(t)]
      /\ \A q \in LeafPaths(t) : \E i \in 1 .. n : s[i] = q
      /\ \A i, j \in 1 .. n : i < j => Before(s[i], s[j])
      /\ \A i, j \in 1 .. n : s[i] = s[j] => i = j
  <2>1. \A i, j \in 1 .. n : s[i] = s[j] => i = j
    BY LeavesAre
  <2>2. QED
    BY <2>1 DEF IsOrder
<1>3. PICK k \in 1 .. n : s[k] = at
  BY <1>1, <1>2
<1>4. /\ a1 \in Paths /\ a1 = at \o <<1>> /\ <<1>> \in Paths
      /\ a2 \in Paths /\ a2 = at \o <<2>> /\ <<2>> \in Paths
  BY <1>1, AppendIsConcat, AppendProperties DEF Paths, Sides
<1>5. Before(a1, a2)
  <2>1. /\ DOMAIN a1 = 1 .. Len(at) + 1 /\ DOMAIN a2 = 1 .. Len(at) + 1 /\ Len(at) \in Nat
        /\ a1[Len(at) + 1] = 1 /\ a2[Len(at) + 1] = 2
        /\ \A j \in 1 .. Len(at) : a1[j] = at[j] /\ a2[j] = at[j]
    BY <1>1, AppendProperties, LenProperties DEF Paths, Sides
  <2>2. Len(at) + 1 \in DOMAIN a1 /\ (Len(at) + 1) - 1 = Len(at)
    BY <2>1
  <2> HIDE DEF a1, a2
  <2>3. QED
    BY <2>1, <2>2 DEF Before
<1>6. ASSUME NEW q \in LeafPaths(t)
      PROVE  /\ Before(q, at) => Before(q, a1) /\ Before(q, a2)
             /\ Before(at, q) => Before(a1, q) /\ Before(a2, q)
  <2>1. \A r \in Paths : /\ Before(q, at) => Before(q, at \o r)
                         /\ Before(at, q) => Before(at \o r, q)
    BY <1>1, BeforeAlways
  <2>2. QED
    BY <1>4, <2>1
<1> HIDE DEF a1, a2
<1> DEFINE v == [i \in 1 .. n + 1 |-> IF i < k THEN s[i] ELSE IF i = k THEN a1
                                      ELSE IF i = k + 1 THEN a2 ELSE s[i - 1]]
<1>7. /\ \A i \in 1 .. k - 1 : i \in 1 .. n /\ i # k
      /\ \A i \in 1 .. n + 1 : i < k => i \in 1 .. k - 1
      /\ \A i \in 1 .. n + 1 : k + 1 < i => i - 1 \in k + 1 .. n
      /\ \A i \in k + 1 .. n : i \in 1 .. n /\ i # k
      /\ k \in 1 .. n + 1 /\ k + 1 \in 1 .. n + 1
  OBVIOUS
<1>8. /\ \A i \in 1 .. k - 1 : v[i] = s[i] /\ v[i] \in LeafPaths(t) \ {at}
      /\ v[k] = a1 /\ v[k + 1] = a2
      /\ \A i \in k + 1 .. n : v[i + 1] = s[i] /\ v[i + 1] \in LeafPaths(t) \ {at}
  <2>1. \A i \in 1 .. n : i # k => s[i] \in LeafPaths(t) \ {at}
    BY <1>2, <1>3
  <2>2. \A i \in 1 .. k - 1 : v[i] = s[i]
    OBVIOUS
  <2>3. v[k] = a1 /\ v[k + 1] = a2
    OBVIOUS
  <2>4. \A i \in k + 1 .. n : v[i + 1] = s[i]
    OBVIOUS
  <2> HIDE DEF v
  <2>5. QED
    BY <1>7, <2>1, <2>2, <2>3, <2>4
<1>9. \A i \in 1 .. n + 1 : \/ i \in 1 .. k - 1
                            \/ i = k
                            \/ i = k + 1
                            \/ i - 1 \in k + 1 .. n /\ (i - 1) + 1 = i
  OBVIOUS
<1>10. DOMAIN v = 1 .. n + 1 /\ v = [i \in 1 .. n + 1 |-> v[i]]
  OBVIOUS
<1> HIDE DEF v
<1>11. LeafPaths(u) = (LeafPaths(t) \ {at}) \cup {a1, a2}
  BY DEF a1, a2, HasSplit
<1>12. v \in [1 .. n + 1 -> LeafPaths(u)]
  <2>1. ASSUME NEW i \in 1 .. n + 1 PROVE v[i] \in LeafPaths(u)
    <3>1. CASE i - 1 \in k + 1 .. n /\ (i - 1) + 1 = i
      <4>1. v[(i - 1) + 1] \in LeafPaths(t) \ {at}
        BY <1>8, <3>1
      <4>2. QED
        BY <1>11, <3>1, <4>1
    <3>2. QED
      BY <1>8, <1>9, <1>11, <3>1
  <2>2. QED
    BY <1>10, <2>1
<1>13. ASSUME NEW q \in LeafPaths(u) PROVE \E i \in 1 .. n + 1 : v[i] = q
  <2>1. CASE q \in {a1, a2}
    BY <1>7, <1>8, <2>1
  <2>2. CASE q \in LeafPaths(t) \ {at}
    <3>1. PICK i \in 1 .. n : s[i] = q
      BY <1>2, <2>2
    <3>2. i # k
      BY <1>3, <2>2, <3>1
    <3>3. CASE i < k
      <4>1. i \in 1 .. k - 1 /\ i \in 1 .. n + 1
        BY <3>3
      <4>2. QED
        BY <1>8, <3>1, <4>1
    <3>4. CASE k < i
      <4>1. i \in k + 1 .. n /\ i + 1 \in 1 .. n + 1
        BY <3>4
      <4>2. QED
        BY <1>8, <3>1, <4>1
    <3>5. QED
      BY <3>2, <3>3, <3>4
  <2>3. QED
    BY <1>11, <2>1, <2>2
<1>14. ASSUME NEW i \in 1 .. n + 1, NEW j \in 1 .. n + 1, i < j PROVE Before(v[i], v[j])
  <2> DEFINE Here(x, y) == \/ x < k /\ y = x
                           \/ x \in {k, k + 1} /\ y = k
                           \/ k + 1 < x /\ y = x - 1
  <2>0. ASSUME NEW x \in 1 .. n + 1 PROVE \E w \in 1 .. n : Here(x, w)
    <3>1. CASE x < k
      BY <3>1
    <3>2. CASE x \in {k, k + 1}
      BY <3>2
    <3>3. CASE k + 1 < x
      <4>1. x - 1 \in 1 .. n
        BY <3>3
      <4>2. QED
        BY <3>3, <4>1
    <3>4. QED
      BY <3>1, <3>2, <3>3
  <2>1. PICK y \in 1 .. n : Here(i, y)
    BY <2>0
  <2>2. PICK z \in 1 .. n : Here(j, z)
    BY <2>0
  <2>3. ASSUME NEW x \in 1 .. n + 1, NEW w \in 1 .. n, Here(x, w)
        PROVE  \/ v[x] = s[w] /\ w # k
               \/ w = k /\ s[w] = at /\ v[x] = (IF x = k THEN a1 ELSE a2) /\ x \in {k, k + 1}
    <3>1. CASE x < k
      <4>1. x \in 1 .. k - 1 /\ w = x /\ w # k
        BY <2>3, <3>1
      <4>2. QED
        BY <1>8, <4>1
    <3>2. CASE x \in {k, k + 1}
      BY <1>3, <1>8, <2>3, <3>2
    <3>3. CASE k + 1 < x
      <4>1. x - 1 \in k + 1 .. n /\ (x - 1) + 1 = x /\ w = x - 1 /\ w # k
        BY <2>3, <3>3
      <4>2. v[(x - 1) + 1] = s[x - 1]
        BY <1>8, <4>1
      <4>3. v[x] = s[w]
        BY <4>1, <4>2
      <4>4. QED
        BY <4>1, <4>3
    <3>4. QED
      BY <2>3, <3>1, <3>2, <3>3
  <2>4. \/ v[i] = s[y] /\ y # k
        \/ y = k /\ s[y] = at /\ v[i] = (IF i = k THEN a1 ELSE a2) /\ i \in {k, k + 1}
    BY <2>1, <2>3
  <2>5. \/ v[j] = s[z] /\ z # k
        \/ z = k /\ s[z] = at /\ v[j] = (IF j = k THEN a1 ELSE a2) /\ j \in {k, k + 1}
    BY <2>2, <2>3
  <2>6. y < z \/ (y = k /\ z = k /\ i = k /\ j = k + 1)
    BY <1>14, <2>1, <2>2
  <2>7. CASE y = k /\ z = k /\ i = k /\ j = k + 1
    BY <1>5, <1>8, <2>7
  <2>8. CASE y < z
    <3>1. Before(s[y], s[z]) /\ s[y] \in LeafPaths(t) /\ s[z] \in LeafPaths(t)
      BY <1>2, <2>8
    <3>2. y # k \/ z # k
      BY <2>8
    <3> HIDE DEF Here
    <3>3. QED
      BY <1>6, <2>4, <2>5, <3>1, <3>2
  <2>9. QED
    BY <2>6, <2>7, <2>8
<1>15. IsOrder(v, n + 1, u) /\ n + 1 \in Nat
  BY <1>12, <1>13, <1>14 DEF IsOrder
<1>16. /\ Leaves(t) \in [1 .. n -> Panes] /\ Leaves(t) = [i \in 1 .. n |-> t[s[i]].pane]
       /\ Leaves(u) \in [1 .. n + 1 -> Panes] /\ Leaves(u) = [i \in 1 .. n + 1 |-> u[v[i]].pane]
  BY <1>15, LeavesAre, LeavesSeq
<1>17. u[a1].pane = t[at].pane /\ \A q \in LeafPaths(t) \ {at} : u[q].pane = t[q].pane
  BY DEF a1, HasSplit
<1>18. /\ \A i \in 1 .. k : Leaves(u)[i] = Leaves(t)[i]
       /\ Leaves(u)[k + 1] = u[a2].pane
       /\ \A i \in k + 1 .. n : Leaves(u)[i + 1] = Leaves(t)[i]
  <2>1. ASSUME NEW i \in 1 .. k PROVE Leaves(u)[i] = Leaves(t)[i]
    <3>1. i \in 1 .. n /\ i \in 1 .. n + 1 /\ (i = k \/ i \in 1 .. k - 1)
      OBVIOUS
    <3>2. Leaves(u)[i] = u[v[i]].pane /\ Leaves(t)[i] = t[s[i]].pane
      BY <1>16, <3>1
    <3>3. QED
      BY <1>3, <1>8, <1>17, <3>1, <3>2
  <2>2. Leaves(u)[k + 1] = u[a2].pane
    BY <1>7, <1>8, <1>16
  <2>3. ASSUME NEW i \in k + 1 .. n PROVE Leaves(u)[i + 1] = Leaves(t)[i]
    <3>1. i \in 1 .. n /\ i + 1 \in 1 .. n + 1
      OBVIOUS
    <3>2. Leaves(u)[i + 1] = u[v[i + 1]].pane /\ Leaves(t)[i] = t[s[i]].pane
      BY <1>16, <3>1
    <3>3. QED
      BY <1>8, <1>17, <3>2
  <2>4. QED
    BY <2>1, <2>2, <2>3
<1>19. u[a2].pane \in Panes /\ u[a2].pane = new
  BY <1>7, <1>16, <1>18 DEF a2, HasSplit
<1>20. Leaves(u) = SubSeq(Leaves(t), 1, k) \o <<new>> \o SubSeq(Leaves(t), k + 1, Len(Leaves(t)))
  <2>1. HasMore(Leaves(u), Leaves(t), n, k, new)
    BY <1>18, <1>19 DEF HasMore
  <2>2. QED
    BY <1>16, <1>19, <2>1, InsertedIs
<1>21. QED
  BY <1>15, <1>20 DEF Ordered, LeavesInsert

LEMMA KeepOrder ==
  ASSUME NEW t, IsTree(t), NEW u, IsTree(u), NEW n \in Nat, NEW s, IsOrder(s, n, t),
         LeafPaths(u) = LeafPaths(t)
  PROVE  /\ Ordered(u) /\ Leaves(u) = [i \in 1 .. n |-> u[s[i]].pane]
         /\ (\A q \in LeafPaths(t) : u[q].pane = t[q].pane) => Leaves(u) = Leaves(t)
<1>1. IsOrder(s, n, u)
  BY DEF IsOrder
<1>2. /\ Leaves(u) = [i \in 1 .. n |-> u[s[i]].pane]
      /\ Leaves(t) = [i \in 1 .. n |-> t[s[i]].pane]
  BY <1>1, LeavesAre
<1>3. \A i \in 1 .. n : s[i] \in LeafPaths(t)
  BY DEF IsOrder
<1>4. QED
  BY <1>1, <1>2, <1>3 DEF Ordered

LEMMA SwapOrder ==
  ASSUME NEW t, IsTree(t), NEW u, IsTree(u), NEW n \in Nat, NEW s, IsOrder(s, n, t),
         LeafPaths(u) = LeafPaths(t), NEW q \in LeafPaths(t), NEW r \in LeafPaths(t),
         u[q].pane = t[r].pane, u[r].pane = t[q].pane,
         \A a \in LeafPaths(t) \ {q, r} : u[a].pane = t[a].pane
  PROVE  /\ Ordered(u)
         /\ \E i, j \in 1 .. n :
              Leaves(u) = [Leaves(t) EXCEPT ![i] = Leaves(t)[j], ![j] = Leaves(t)[i]]
<1>1. /\ Leaves(t) = [i \in 1 .. n |-> t[s[i]].pane]
      /\ \A i, j \in 1 .. n : s[i] = s[j] => i = j
  BY LeavesAre
<1>2. Ordered(u) /\ Leaves(u) = [i \in 1 .. n |-> u[s[i]].pane]
  BY KeepOrder
<1>3. \A i \in 1 .. n : s[i] \in LeafPaths(t)
  BY DEF IsOrder
<1>4. PICK i \in 1 .. n : s[i] = q
  BY DEF IsOrder
<1>5. PICK j \in 1 .. n : s[j] = r
  BY DEF IsOrder
<1>6. ASSUME NEW k \in 1 .. n
      PROVE  Leaves(u)[k] = [Leaves(t) EXCEPT ![i] = Leaves(t)[j], ![j] = Leaves(t)[i]][k]
  <2>1. /\ Leaves(u)[k] = u[s[k]].pane /\ Leaves(t)[k] = t[s[k]].pane
        /\ Leaves(t)[i] = t[q].pane /\ Leaves(t)[j] = t[r].pane /\ DOMAIN Leaves(t) = 1 .. n
    BY <1>1, <1>2, <1>4, <1>5
  <2>2. CASE k = j
    BY <1>5, <2>1, <2>2
  <2>3. CASE k # j /\ k = i
    BY <1>4, <2>1, <2>3
  <2>4. CASE k # j /\ k # i
    <3>1. s[k] \in LeafPaths(t) \ {q, r}
      BY <1>1, <1>3, <1>4, <1>5, <2>4
    <3>2. QED
      BY <2>1, <2>4, <3>1
  <2>5. QED
    BY <2>2, <2>3, <2>4
<1>7. Leaves(u) = [Leaves(t) EXCEPT ![i] = Leaves(t)[j], ![j] = Leaves(t)[i]]
  <2> DEFINE e == [Leaves(t) EXCEPT ![i] = Leaves(t)[j], ![j] = Leaves(t)[i]]
  <2>1. DOMAIN Leaves(u) = 1 .. n /\ Leaves(u) = [k \in 1 .. n |-> Leaves(u)[k]]
    BY <1>2
  <2>2. DOMAIN e = 1 .. n /\ e = [k \in 1 .. n |-> e[k]]
    BY <1>1
  <2>3. \A k \in 1 .. n : Leaves(u)[k] = e[k]
    BY <1>6
  <2> HIDE DEF e
  <2>4. Leaves(u) = e
    BY <2>1, <2>2, <2>3
  <2>5. QED
    BY <2>4 DEF e
<1>8. QED
  BY <1>2, <1>7

(* A leaf goes, the others keep their order on the paths they get. *)
HasRest(t, u, at, G) ==
  /\ G \in [LeafPaths(t) \ {at} -> LeafPaths(u)]
  /\ \A q \in LeafPaths(u) : \E r \in LeafPaths(t) \ {at} : G[r] = q
  /\ \A q, r \in LeafPaths(t) \ {at} : Before(q, r) => Before(G[q], G[r])
  /\ \A q \in LeafPaths(t) \ {at} : u[G[q]].pane = t[q].pane

LEMMA RemoveOrder ==
  ASSUME NEW t, IsTree(t), NEW u, IsTree(u), NEW n \in Nat, NEW s, IsOrder(s, n, t),
         NEW at \in LeafPaths(t), NEW G, HasRest(t, u, at, G)
  PROVE  /\ Ordered(u)
         /\ \E k \in 1 .. n :
              Leaves(u) = SubSeq(Leaves(t), 1, k - 1) \o SubSeq(Leaves(t), k + 1, Len(Leaves(t)))
<1>0. /\ G \in [LeafPaths(t) \ {at} -> LeafPaths(u)]
      /\ \A q \in LeafPaths(u) : \E r \in LeafPaths(t) \ {at} : G[r] = q
      /\ \A q, r \in LeafPaths(t) \ {at} : Before(q, r) => Before(G[q], G[r])
      /\ \A q \in LeafPaths(t) \ {at} : u[G[q]].pane = t[q].pane
  BY DEF HasRest
<1>1. /\ s \in [1 .. n -> LeafPaths(t)]
      /\ \A q \in LeafPaths(t) : \E i \in 1 .. n : s[i] = q
      /\ \A i, j \in 1 .. n : i < j => Before(s[i], s[j])
      /\ \A i, j \in 1 .. n : s[i] = s[j] => i = j
  <2>1. \A i, j \in 1 .. n : s[i] = s[j] => i = j
    BY LeavesAre
  <2>2. QED
    BY <2>1 DEF IsOrder
<1>2. PICK k \in 1 .. n : s[k] = at
  BY <1>1
<1> DEFINE From(i) == IF i < k THEN i ELSE i + 1
           v == [i \in 1 .. n - 1 |-> G[s[From(i)]]]
<1>3. n - 1 \in Nat
  OBVIOUS
<1>4. \A i \in 1 .. n - 1 : From(i) \in 1 .. n /\ From(i) # k
  OBVIOUS
<1>5. \A i, j \in 1 .. n - 1 : i < j => From(i) < From(j)
  OBVIOUS
<1>6. ASSUME NEW i \in 1 .. n, i # k PROVE \E j \in 1 .. n - 1 : From(j) = i
  <2>1. CASE i < k
    <3>1. i \in 1 .. n - 1 /\ From(i) = i
      BY <2>1
    <3>2. QED
      BY <3>1
  <2>2. CASE k < i
    <3>1. i - 1 \in 1 .. n - 1 /\ From(i - 1) = i
      BY <2>2
    <3>2. QED
      BY <3>1
  <2>3. QED
    BY <1>6, <2>1, <2>2
<1>7. /\ \A i \in 1 .. k - 1 : From(i) = i /\ i \in 1 .. n - 1 /\ i \in 1 .. n
      /\ \A i \in k .. n - 1 : From(i) = i + 1 /\ i \in 1 .. n - 1 /\ i + 1 \in 1 .. n
  OBVIOUS
<1> HIDE DEF From
<1>8. \A i \in 1 .. n - 1 : s[From(i)] \in LeafPaths(t) \ {at}
  BY <1>1, <1>2, <1>4
<1>9. DOMAIN v = 1 .. n - 1 /\ \A i \in 1 .. n - 1 : v[i] = G[s[From(i)]]
  OBVIOUS
<1>10. v \in [1 .. n - 1 -> LeafPaths(u)]
  BY <1>0, <1>8
<1> HIDE DEF v
<1>11. ASSUME NEW q \in LeafPaths(u) PROVE \E i \in 1 .. n - 1 : v[i] = q
  <2>1. PICK r \in LeafPaths(t) \ {at} : G[r] = q
    BY <1>0
  <2>2. PICK i \in 1 .. n : s[i] = r
    BY <1>1
  <2>3. PICK j \in 1 .. n - 1 : From(j) = i
    BY <1>2, <1>6, <2>2
  <2>4. QED
    BY <1>9, <2>1, <2>2, <2>3
<1>12. ASSUME NEW i \in 1 .. n - 1, NEW j \in 1 .. n - 1, i < j PROVE Before(v[i], v[j])
  <2>1. Before(s[From(i)], s[From(j)])
    BY <1>1, <1>4, <1>5, <1>12
  <2>2. QED
    BY <1>0, <1>8, <1>9, <2>1
<1>13. IsOrder(v, n - 1, u)
  BY <1>10, <1>11, <1>12 DEF IsOrder
<1>14. /\ Leaves(t) \in [1 .. n -> Panes] /\ Leaves(t) = [i \in 1 .. n |-> t[s[i]].pane]
       /\ Leaves(u) \in [1 .. n - 1 -> Panes] /\ Leaves(u) = [i \in 1 .. n - 1 |-> u[v[i]].pane]
  BY <1>3, <1>13, LeavesAre, LeavesSeq
<1>15. \A i \in 1 .. n - 1 : Leaves(u)[i] = Leaves(t)[From(i)]
  <2>1. ASSUME NEW i \in 1 .. n - 1 PROVE Leaves(u)[i] = Leaves(t)[From(i)]
    <3>1. Leaves(u)[i] = u[v[i]].pane /\ Leaves(t)[From(i)] = t[s[From(i)]].pane
      BY <1>4, <1>14
    <3>2. u[v[i]].pane = t[s[From(i)]].pane
      BY <1>0, <1>8, <1>9
    <3>3. QED
      BY <3>1, <3>2
  <2>2. QED
    BY <2>1
<1>16. HasLess(Leaves(u), Leaves(t), n, k)
  BY <1>7, <1>15 DEF HasLess
<1>17. Leaves(u) = SubSeq(Leaves(t), 1, k - 1) \o SubSeq(Leaves(t), k + 1, Len(Leaves(t)))
  BY <1>14, <1>16, DroppedIs
<1>18. QED
  BY <1>3, <1>13, <1>17 DEF Ordered

(* What lies below a divider lies below one of its sides. *)
LEMMA SideOf ==
  ASSUME NEW a \in Paths, NEW q \in Paths, IsPrefix(a, q), q # a
  PROVE  \E side \in Sides : IsPrefix(Append(a, side), q)
<1>1. Len(a) \in 0 .. Len(q) /\ a = Step(q, Len(a)) /\ Len(q) \in Nat
  BY PrefixIsStep, LenProperties DEF Paths
<1>2. Len(a) # Len(q)
  BY <1>1, StepFull
<1>3. PICK k \in 1 .. Len(q) : k - 1 = Len(a) /\ k = Len(a) + 1
  BY <1>1, <1>2
<1>4. Step(q, k) = Append(Step(q, k - 1), q[k]) /\ q[k] \in Sides
  BY <1>3, NextStep
<1> DEFINE b == Append(a, q[k])
<1>5. b = Step(q, k) /\ b \in Paths /\ Len(b) = k
  BY <1>1, <1>3, <1>4, DownPath
<1> HIDE DEF b
<1>6. Len(b) \in 0 .. Len(q)
  BY <1>1, <1>5
<1>7. IsPrefix(b, q)
  BY <1>5, <1>6, PrefixIsStep
<1>8. QED
  BY <1>4, <1>7 DEF b

(* The leaves that a removal leaves, on the paths they get, in their order. *)
LEMMA GraftOrder ==
  ASSUME NEW t, IsTree(t), NEW parent \in DOMAIN t \ LeafPaths(t), NEW side \in Sides,
         NEW at \in LeafPaths(t), Append(parent, 3 - side) = at,
         NEW u, IsTree(u), Grafted(t, u, parent, Append(parent, side))
  PROVE  \E G : HasRest(t, u, at, G)
<1> DEFINE sibling == Append(parent, side)
           outside == Outside(t, parent)
           tails == Tails(t, sibling)
           rest == LeafPaths(t) \ {at}
<1>1. /\ parent \in Paths /\ sibling \in Paths /\ at \in Paths /\ LeafPaths(t) \in SUBSET Paths
      /\ sibling = parent \o <<side>> /\ <<side>> \in Paths
  <2>1. parent \in Paths /\ LeafPaths(t) \in SUBSET Paths
    BY TreePaths DEF LeafPaths
  <2>2. sibling = parent \o <<side>> /\ <<side>> \in Paths
    BY <2>1, AppendIsConcat DEF Paths
  <2>3. QED
    BY <2>1, <2>2, DownPath
<1>2. at # sibling /\ IsPrefix(parent, at) /\ ~IsPrefix(sibling, at)
  <2>1. 3 - side \in Sides /\ 3 - side # side
    BY DEF Sides
  <2>2. /\ Last(at) = 3 - side /\ Last(sibling) = side
        /\ Len(at) = Len(parent) + 1 /\ Len(sibling) = Len(parent) + 1 /\ Len(parent) \in Nat
    BY <1>1, <2>1, DownPath
  <2>3. at # sibling
    BY <2>1, <2>2
  <2>4. at = parent \o <<3 - side>> /\ <<3 - side>> \in Paths
    <3>1. \A c \in Sides : Append(parent, c) = parent \o <<c>> /\ <<c>> \in Paths
      BY <1>1, AppendIsConcat DEF Paths
    <3>2. QED
      BY <2>1, <3>1
  <2>5. IsPrefix(parent, at)
    BY <1>1, <2>4, PrefixIsConcat
  <2>6. ASSUME IsPrefix(sibling, at) PROVE FALSE
    <3>1. sibling = Step(at, Len(sibling))
      BY <1>1, <2>6, PrefixIsStep
    <3>2. Step(at, Len(at)) = at
      BY <1>1, StepFull
    <3>3. QED
      BY <2>2, <2>3, <3>1, <3>2
  <2>7. QED
    BY <2>3, <2>5, <2>6
<1>3. /\ \A q \in outside : q \in DOMAIN t /\ q \in Paths /\ ~IsPrefix(parent, q)
      /\ \A s \in tails : s \in Paths /\ sibling \o s \in DOMAIN t
      /\ \A q \in DOMAIN t : ~IsPrefix(parent, q) => q \in outside
      /\ \A s \in Paths : sibling \o s \in DOMAIN t => s \in tails
  BY TreePaths DEF Outside, Tails
<1>4. /\ \A q : q \in DOMAIN u <=> q \in outside \/ \E s \in tails : q = parent \o s
      /\ \A q \in outside : u[q] = t[q]
      /\ \A s \in tails : u[parent \o s] = t[sibling \o s]
  BY DEF Grafted
<1>5. \A q \in rest : q \in DOMAIN t /\ q \in Paths /\ q # at
  BY <1>1 DEF LeafPaths
<1>6. ASSUME NEW q \in rest, q \notin outside PROVE \E s \in tails : q = sibling \o s
  <2>1. IsPrefix(parent, q) /\ q # parent
    BY <1>3, <1>5, <1>6
  <2>2. PICK child \in Sides : IsPrefix(Append(parent, child), q)
    BY <1>1, <1>5, <2>1, SideOf
  <2>3. child = side
    <3>1. ASSUME child # side PROVE FALSE
      <4>1. child = 3 - side
        BY <3>1 DEF Sides
      <4>2. IsPrefix(at, q)
        BY <2>2, <4>1
      <4>3. QED
        BY <1>1, <1>5, <4>2, PrefixThere
    <3>2. QED
      BY <3>1
  <2>4. PICK s \in Paths : q = sibling \o s
    BY <1>1, <1>5, <2>2, <2>3, PrefixIsConcat
  <2>5. QED
    BY <1>3, <1>5, <2>4
<1> HIDE DEF sibling, outside, tails
<1>7. ASSUME NEW s \in tails
      PROVE  /\ sibling \o s \notin outside /\ sibling \o s # at
             /\ sibling \o s = parent \o (<<side>> \o s)
             /\ <<side>> \o s \in Paths /\ s \in Paths
  <2>1. s \in Paths
    BY <1>3
  <2>2. (parent \o <<side>>) \o s = parent \o (<<side>> \o s) /\ <<side>> \o s \in Paths
    BY <1>1, <2>1, ConcatAssociative, ConcatProperties DEF Paths
  <2>3. \A b \in Paths : IsPrefix(parent, parent \o b)
    BY <1>1, ConcatPath
  <2>4. sibling \o s \notin outside
    BY <1>1, <1>3, <2>2, <2>3
  <2>5. sibling \o s # at
    <3>1. IsPrefix(sibling, sibling \o s)
      BY <1>1, <2>1, ConcatPath
    <3>2. QED
      BY <1>2, <3>1
  <2>6. QED
    BY <1>1, <2>1, <2>2, <2>4, <2>5
<1>8. ASSUME NEW s \in tails, NEW s2 \in tails, sibling \o s = sibling \o s2 PROVE s = s2
  <2>1. /\ SubSeq(sibling \o s, Len(sibling) + 1, Len(sibling \o s)) = s
        /\ SubSeq(sibling \o s2, Len(sibling) + 1, Len(sibling \o s2)) = s2
    BY <1>1, <1>3, BeyondPath
  <2>2. QED
    BY <1>8, <2>1
<1> DEFINE G == [q \in rest |-> IF q \in outside THEN q
                                ELSE parent \o (CHOOSE s \in tails : q = sibling \o s)]
<1>9. \A q \in rest : q \in outside => G[q] = q
  OBVIOUS
<1>10. ASSUME NEW s \in tails, sibling \o s \in rest PROVE G[sibling \o s] = parent \o s
  <2>1. (CHOOSE s2 \in tails : sibling \o s = sibling \o s2) = s
    BY <1>8
  <2>2. G[sibling \o s] = parent \o (CHOOSE s2 \in tails : sibling \o s = sibling \o s2)
    BY <1>7, <1>10
  <2>3. QED
    BY <2>1, <2>2
<1>11. G = [q \in rest |-> G[q]]
  OBVIOUS
<1> HIDE DEF G
<1>12. /\ \A q \in outside : q \in LeafPaths(u) <=> q \in LeafPaths(t)
       /\ \A s \in tails : parent \o s \in LeafPaths(u) <=> sibling \o s \in LeafPaths(t)
  BY <1>3, <1>4 DEF LeafPaths, IsLeaf
<1>13. ASSUME NEW q \in rest PROVE G[q] \in LeafPaths(u) /\ u[G[q]].pane = t[q].pane
  <2>1. CASE q \in outside
    BY <1>4, <1>9, <1>12, <2>1
  <2>2. CASE q \notin outside
    <3>1. PICK s \in tails : q = sibling \o s
      BY <1>6, <2>2
    <3>2. G[q] = parent \o s
      BY <1>10, <3>1
    <3>3. QED
      BY <1>4, <1>12, <3>1, <3>2
  <2>3. QED
    BY <2>1, <2>2
<1>14. ASSUME NEW q \in LeafPaths(u) PROVE \E r \in rest : G[r] = q
  <2>1. CASE q \in outside
    <3>1. q \in rest
      BY <1>2, <1>3, <1>12, <2>1
    <3>2. QED
      BY <1>9, <2>1, <3>1
  <2>2. ASSUME NEW s \in tails, q = parent \o s PROVE sibling \o s \in rest /\ G[sibling \o s] = q
    <3>1. sibling \o s \in rest
      BY <1>7, <1>12, <2>2
    <3>2. QED
      BY <1>10, <2>2, <3>1
  <2>3. q \in outside \/ \E s \in tails : q = parent \o s
    BY <1>4 DEF LeafPaths
  <2>4. QED
    BY <2>1, <2>2, <2>3
<1>15. ASSUME NEW q \in rest, NEW r \in rest, Before(q, r) PROVE Before(G[q], G[r])
  <2>1. CASE q \in outside /\ r \in outside
    BY <1>9, <1>15, <2>1
  <2>2. ASSUME q \in outside, NEW s \in tails, r = sibling \o s PROVE Before(G[q], G[r])
    <3>1. G[q] = q /\ G[r] = parent \o s
      BY <1>9, <1>10, <2>2
    <3>2. q \in Paths /\ ~IsPrefix(parent, q)
      BY <1>3, <2>2
    <3>3. /\ Before(q, parent \o (<<side>> \o s))
          /\ <<side>> \o s \in Paths /\ s \in Paths
      BY <1>7, <1>15, <2>2
    <3>4. Before(q, parent)
      BY <1>1, <3>2, <3>3, BeforeStem
    <3>5. QED
      BY <1>1, <3>1, <3>2, <3>3, <3>4, BeforeAlways
  <2>3. ASSUME r \in outside, NEW s \in tails, q = sibling \o s PROVE Before(G[q], G[r])
    <3>1. G[r] = r /\ G[q] = parent \o s
      BY <1>9, <1>10, <2>3
    <3>2. r \in Paths /\ ~IsPrefix(parent, r)
      BY <1>3, <2>3
    <3>3. /\ Before(parent \o (<<side>> \o s), r)
          /\ <<side>> \o s \in Paths /\ s \in Paths
      BY <1>7, <1>15, <2>3
    <3>4. Before(parent, r)
      BY <1>1, <3>2, <3>3, BeforeStem
    <3>5. QED
      BY <1>1, <3>1, <3>2, <3>3, <3>4, BeforeAlways
  <2>4. ASSUME NEW s \in tails, q = sibling \o s, NEW s2 \in tails, r = sibling \o s2
        PROVE  Before(G[q], G[r])
    <3>1. G[q] = parent \o s /\ G[r] = parent \o s2
      BY <1>10, <2>4
    <3>2. s \in Paths /\ s2 \in Paths /\ Before(sibling \o s, sibling \o s2)
      BY <1>7, <1>15, <2>4
    <3>3. Before(parent \o s, parent \o s2)
      BY <1>1, <3>2, BeforeMoved
    <3>4. QED
      BY <3>1, <3>3
  <2>5. QED
    BY <1>6, <2>1, <2>2, <2>3, <2>4
<1>16. G \in [rest -> LeafPaths(u)]
  BY <1>11, <1>13
<1>17. QED
  <2>1. HasRest(t, u, at, G)
    BY <1>13, <1>14, <1>15, <1>16 DEF HasRest
  <2>2. QED
    BY <2>1

-----------------------------------------------------------------------------
(* The tree implements the list *)

LEMMA OrderBegins == LayoutInit => Ordered(tree) /\ Order!Init
<1>1. SUFFICES ASSUME LayoutInit PROVE Ordered(tree) /\ Order!Init
  OBVIOUS
<1>2. PICK p \in Panes : tree = [q \in {<<>>} |-> Leaf(p)]
  BY <1>1 DEF LayoutInit
<1>3. LeafPaths(tree) = {<<>>} /\ tree[<<>>].pane = p
  BY <1>2, PanesAssumption DEF LeafPaths, IsLeaf, Leaf
<1>4. IsTree(tree)
  BY <1>1, LayoutBegins DEF LayoutInv, LayoutTypeOK
<1> DEFINE s == [i \in 1 .. 1 |-> <<>>]
<1>5. IsOrder(s, 1, tree)
  BY <1>3 DEF IsOrder
<1>6. Leaves(tree) = [i \in 1 .. 1 |-> tree[s[i]].pane]
  BY <1>4, <1>5, LeavesAre
<1>7. Leaves(tree) = <<p>>
  BY <1>3, <1>6
<1>8. QED
  BY <1>5, <1>7 DEF Ordered, Order!Init

LEMMA OrderStep ==
  LayoutInv /\ Ordered(tree) /\ [LayoutNext]_layoutVars
    => Ordered(tree)' /\ [Order!Next]_(Leaves(tree))
<1>1. SUFFICES ASSUME LayoutInv, Ordered(tree), [LayoutNext]_layoutVars
               PROVE  Ordered(tree') /\ (Order!Next \/ Leaves(tree') = Leaves(tree))
  BY DEF Ordered, IsOrder, LeafPaths, IsLeaf, Leaves
<1>2. IsTree(tree) /\ Shallow(tree) /\ area \in RectTypes
  BY <1>1, AreaIsRect DEF LayoutInv, LayoutTypeOK
<1>3. PICK n \in Nat : \E s : IsOrder(s, n, tree)
  BY <1>1 DEF Ordered
<1>4. PICK s : IsOrder(s, n, tree)
  BY <1>3
<1>5. /\ DOMAIN Leaves(tree) = 1 .. n /\ Len(Leaves(tree)) = n
      /\ {Leaves(tree)[i] : i \in 1 .. n} = PanesOf(tree)
  BY <1>2, <1>4, LeavesSeq
<1>6. ASSUME NEW p \in Panes, NEW new \in Panes, NEW axis \in Axes, SplitPane(p, new, axis)
      PROVE  Ordered(tree') /\ Order!Next
  <2>1. /\ p \in PanesOf(tree) /\ new \in Panes \ PanesOf(tree)
        /\ tree' = Split(tree, p, new, axis)
    BY <1>6 DEF SplitPane
  <2> DEFINE at == PathToPane(tree, p)
  <2>2. at \in LeafPaths(tree) /\ tree[at].pane = p
    BY <1>2, <2>1, PathOf
  <2>3. /\ IsTree(tree')
        /\ Append(at, 1) \notin LeafPaths(tree) /\ Append(at, 2) \notin LeafPaths(tree)
        /\ LeafPaths(tree') = (LeafPaths(tree) \ {at}) \cup {Append(at, 1), Append(at, 2)}
        /\ tree'[Append(at, 1)].pane = p /\ tree'[Append(at, 2)].pane = new
        /\ \A q \in LeafPaths(tree) \ {at} : tree'[q].pane = tree[q].pane
    BY <1>2, <2>1, SplitTree
  <2> HIDE DEF at
  <2>4. Ordered(tree') /\ LeavesInsert(tree, tree', n, new)
    <3>1. HasSplit(tree, tree', at, new)
      BY <2>2, <2>3 DEF HasSplit
    <3>2. IsTree(tree')
      BY <2>3
    <3>3. QED
      BY <1>2, <1>4, <3>1, <3>2, SplitOrder
  <2>5. new \notin Order!Listed
    BY <1>5, <2>1 DEF Order!Listed
  <2>6. \E k \in 1 .. n : Order!Insert(k, new)
    BY <2>4, <2>5 DEF Order!Insert, LeavesInsert
  <2>7. QED
    BY <1>5, <2>4, <2>6 DEF Order!Next
<1>7. ASSUME NEW p \in Panes, ClosePane(p)
      PROVE  Ordered(tree') /\ Order!Next
  <2>1. p \in PanesOf(tree) /\ PanesOf(tree) # {p} /\ tree' = RemovePane(tree, p)
    BY <1>7 DEF ClosePane
  <2> DEFINE at == PathToPane(tree, p)
  <2>2. at \in LeafPaths(tree)
    BY <1>2, <2>1, PathOf
  <2>3. PICK parent \in DOMAIN tree \ LeafPaths(tree), side \in Sides :
          /\ Grafted(tree, tree', parent, Append(parent, side))
          /\ Append(parent, 3 - side) = at
    BY <1>2, <2>1, RemoveGrafts
  <2>4. IsTree(tree')
    BY <1>2, <2>1, RemoveTree
  <2> HIDE DEF at
  <2>5. PICK G : HasRest(tree, tree', at, G)
    BY <1>2, <2>2, <2>3, <2>4, GraftOrder
  <2>6. /\ Ordered(tree')
        /\ \E k \in 1 .. n :
             Leaves(tree') = SubSeq(Leaves(tree), 1, k - 1)
                               \o SubSeq(Leaves(tree), k + 1, Len(Leaves(tree)))
    BY <1>2, <1>4, <2>2, <2>4, <2>5, RemoveOrder
  <2>7. n > 1
    <3>1. ASSUME n <= 1 PROVE FALSE
      <4>1. \A i, j \in 1 .. n : i = j
        BY <3>1
      <4>2. PICK i \in 1 .. n : Leaves(tree)[i] = p
        BY <1>5, <2>1
      <4>3. PanesOf(tree) = {p}
        BY <1>5, <4>1, <4>2
      <4>4. QED
        BY <2>1, <4>3
    <3>2. QED
      BY <3>1
  <2>8. \E k \in 1 .. n : Order!Drop(k)
    BY <1>5, <2>6, <2>7 DEF Order!Drop
  <2>9. QED
    BY <1>5, <2>6, <2>8 DEF Order!Next
<1>8. CASE SwapPanes
  <2>1. PICK q \in LeafPaths(tree), r \in LeafPaths(tree) :
          q # r /\ tree' = Swap(tree, tree[q].pane, tree[r].pane)
    BY <1>8, SwapsLeaves
  <2>2. /\ IsTree(tree') /\ LeafPaths(tree') = LeafPaths(tree)
        /\ tree'[q].pane = tree[r].pane /\ tree'[r].pane = tree[q].pane
        /\ \A a \in LeafPaths(tree) \ {q, r} : tree'[a].pane = tree[a].pane
    BY <1>2, <2>1, SwapTree
  <2>3. /\ Ordered(tree')
        /\ \E i, j \in 1 .. n :
             Leaves(tree') = [Leaves(tree) EXCEPT ![i] = Leaves(tree)[j], ![j] = Leaves(tree)[i]]
    BY <1>2, <1>4, <2>2, SwapOrder
  <2>4. \E i, j \in 1 .. n : Order!Exchange(i, j)
    BY <2>3 DEF Order!Exchange
  <2>5. QED
    BY <1>5, <2>3, <2>4 DEF Order!Next
<1>9. ASSUME IsTree(tree'), LeafPaths(tree') = LeafPaths(tree),
             \A q \in LeafPaths(tree) : tree'[q].pane = tree[q].pane
      PROVE  Ordered(tree') /\ Leaves(tree') = Leaves(tree)
  BY <1>2, <1>4, <1>9, KeepOrder
<1>10. CASE Balance
  BY <1>2, <1>9, <1>10, EqualizeTree DEF Balance
<1>11. ASSUME NEW p \in Panes, NEW edge \in Edges, NEW pos \in Lines, DragDivider(p, edge, pos)
       PROVE  Ordered(tree') /\ Leaves(tree') = Leaves(tree)
  <2> DEFINE q == Nearest(Owners(tree, p, edge))
  <2>1. /\ p \in PanesOf(tree) /\ CanResize(tree, p, edge)
        /\ Movable(tree, Rects(tree, area), q)
        /\ tree' = ResizeSplit(tree, Rects(tree, area), q, edge, pos)
    BY <1>11 DEF DragDivider
  <2>2. q \in DOMAIN tree \ LeafPaths(tree) /\ pos \in Int
    BY <1>2, <2>1, OwnerIsDivider, AreaAssumption
  <2> HIDE DEF q
  <2>3. /\ IsTree(tree') /\ LeafPaths(tree') = LeafPaths(tree)
        /\ \E ratio : Reshaped(tree, tree', q, ratio)
    <3> DEFINE rect == Rects(tree, area)[q]
               share == Line(tree, Rects(tree, area), q, edge, pos) - rect.at[tree[q].axis]
    <3>1. /\ IsTree(tree') /\ LeafPaths(tree') = LeafPaths(tree)
          /\ Reshaped(tree, tree', q, <<2 * share + 1, 2 * (rect.extent[tree[q].axis] - Gap)>>)
      BY <1>2, <2>1, <2>2, DragTree
    <3>2. QED
      BY <3>1
  <2>4. \A r \in LeafPaths(tree) : tree'[r].pane = tree[r].pane
    BY <2>2, <2>3 DEF Reshaped, LeafPaths
  <2>5. QED
    BY <1>9, <2>3, <2>4
<1>12. CASE WindowSize
  BY <1>1, <1>12 DEF WindowSize
<1>13. CASE UNCHANGED layoutVars
  BY <1>1, <1>13 DEF layoutVars
<1>14. QED
  BY <1>1, <1>6, <1>7, <1>8, <1>10, <1>11, <1>12, <1>13 DEF LayoutNext

(* Whatever is done to the tree, its leaves from the first to the last are a   *)
(* list in which a new pane comes directly behind one of the others, a closed  *)
(* one leaves its place and two change places (Leaves, Split, Remove, Swap).   *)
THEOREM OrderRefinement == LayoutSpec => OrderSpec
<1>1. LayoutInit => Ordered(tree) /\ Order!Init
  BY OrderBegins
<1>2. LayoutInv /\ Ordered(tree) /\ [LayoutNext]_layoutVars
        => Ordered(tree)' /\ [Order!Next]_(Leaves(tree))
  BY OrderStep
<1>3. QED
  BY <1>1, <1>2, LayoutHolds, PTL DEF LayoutSpec, OrderSpec, Order!Spec

-----------------------------------------------------------------------------
(* The filter: what its reference computes                                 *)

Parts == [out : Seq(Bytes), held : Seq(Bytes)]

(* The first place that closes a piece.                                    *)
EndsFirst(bytes, i, k) ==
  /\ k \in i .. Len(bytes) /\ Closes(bytes, i, k)
  /\ \A j \in i .. k - 1 : ~Closes(bytes, i, j)

NeverEnds(bytes, i) == \A k \in i .. Len(bytes) : ~Closes(bytes, i, k)

LEMMA LeftOpen ==
  ASSUME NEW bytes, NEW i, NeverEnds(bytes, i), NEW left
  PROVE  LeftFrom(bytes, i, left) = [out |-> <<>>, held |-> SubSeq(bytes, i, Len(bytes))]
BY DEF NeverEnds, LeftFrom

LEMMA LeftClosed ==
  ASSUME NEW bytes \in Seq(Bytes), NEW i \in 1 .. Len(bytes), NEW k, EndsFirst(bytes, i, k), NEW left
  PROVE  LeftFrom(bytes, i, left) =
           IF IsTitle(bytes, i, k) THEN left[k + 1]
           ELSE [out |-> SubSeq(bytes, i, k) \o left[k + 1].out, held |-> left[k + 1].held]
<1> DEFINE closings == {j \in i .. Len(bytes) : Closes(bytes, i, j)}
           end == CHOOSE j \in closings : \A other \in closings : j <= other
<1>1. Len(bytes) \in Nat
  BY LenProperties
<1>2. k \in closings /\ k \in i .. Len(bytes)
  BY DEF EndsFirst
<1>3. \A j \in closings : j \in i .. Len(bytes) /\ ~(j \in i .. k - 1)
  BY DEF EndsFirst
<1>4. \A j \in closings : k <= j
  <2> HIDE DEF closings
  <2> QED
    BY <1>1, <1>2, <1>3
<1>5. end = k
  <2> HIDE DEF closings
  <2>1. end \in closings /\ \A other \in closings : end <= other
    BY <1>2, <1>4
  <2>2. end <= k /\ k <= end /\ end \in i .. Len(bytes) /\ k \in i .. Len(bytes)
    BY <1>2, <1>3, <1>4, <2>1
  <2> HIDE DEF end
  <2> QED
    BY <1>1, <2>2
<1>6. LeftFrom(bytes, i, left) =
        IF closings = {} THEN [out |-> <<>>, held |-> SubSeq(bytes, i, Len(bytes))]
        ELSE IF IsTitle(bytes, i, end) THEN left[end + 1]
        ELSE [out |-> SubSeq(bytes, i, end) \o left[end + 1].out, held |-> left[end + 1].held]
  BY DEF LeftFrom
<1> HIDE DEF closings, end
<1> QED
  BY <1>2, <1>5, <1>6

LEMMA OpenOrClosed ==
  ASSUME NEW bytes \in Seq(Bytes), NEW i \in 1 .. Len(bytes) + 1
  PROVE  NeverEnds(bytes, i) \/ \E k : EndsFirst(bytes, i, k)
<1> DEFINE closings == {j \in i .. Len(bytes) : Closes(bytes, i, j)}
<1>1. Len(bytes) \in Nat
  BY LenProperties
<1>2. CASE closings = {}
  BY <1>2 DEF NeverEnds
<1>3. CASE closings # {}
  <2>1. closings \in SUBSET Nat
    BY <1>1
  <2>2. PICK k \in closings : \A j \in closings : k <= j
    <3> HIDE DEF closings
    <3> QED
      BY <1>3, <2>1, LeastNumber
  <2>3. k \in i .. Len(bytes) /\ Closes(bytes, i, k)
    OBVIOUS
  <2>4. ASSUME NEW j \in i .. k - 1, Closes(bytes, i, j) PROVE FALSE
    <3>1. j \in closings
      BY <1>1, <2>3, <2>4
    <3>2. k <= j
      BY <2>2, <3>1
    <3> HIDE DEF closings
    <3> QED
      BY <1>1, <2>3, <3>2
  <2> QED
    BY <2>3, <2>4 DEF EndsFirst
<1> QED
  BY <1>2, <1>3

(* What is left from a place depends on later places only.                 *)
LEMMA LeftDepends ==
  ASSUME NEW bytes \in Seq(Bytes), NEW i \in 1 .. Len(bytes) + 1, NEW f, NEW g,
         \A j \in i + 1 .. Len(bytes) + 1 : f[j] = g[j]
  PROVE  LeftFrom(bytes, i, f) = LeftFrom(bytes, i, g)
<1>1. Len(bytes) \in Nat
  BY LenProperties
<1>2. CASE NeverEnds(bytes, i)
  BY <1>2, LeftOpen
<1>3. ASSUME NEW k, EndsFirst(bytes, i, k) PROVE LeftFrom(bytes, i, f) = LeftFrom(bytes, i, g)
  <2>1. k \in i .. Len(bytes)
    BY <1>3 DEF EndsFirst
  <2>2. i \in 1 .. Len(bytes) /\ k + 1 \in i + 1 .. Len(bytes) + 1
    BY <1>1, <2>1
  <2>3. f[k + 1] = g[k + 1]
    BY <2>2
  <2>4. LeftFrom(bytes, i, f) =
          IF IsTitle(bytes, i, k) THEN f[k + 1]
          ELSE [out |-> SubSeq(bytes, i, k) \o f[k + 1].out, held |-> f[k + 1].held]
    BY <1>3, <2>2, LeftClosed
  <2>5. LeftFrom(bytes, i, g) =
          IF IsTitle(bytes, i, k) THEN g[k + 1]
          ELSE [out |-> SubSeq(bytes, i, k) \o g[k + 1].out, held |-> g[k + 1].held]
    BY <1>3, <2>2, LeftClosed
  <2> QED
    BY <2>3, <2>4, <2>5
<1> QED
  BY <1>2, <1>3, OpenOrClosed

LEMMA LeftTyped ==
  ASSUME NEW bytes \in Seq(Bytes), NEW i \in 1 .. Len(bytes) + 1, NEW f,
         \A j \in i + 1 .. Len(bytes) + 1 : f[j] \in Parts
  PROVE  LeftFrom(bytes, i, f) \in Parts
<1>1. Len(bytes) \in Nat /\ \A j \in 1 .. Len(bytes) : bytes[j] \in Bytes
  BY LenProperties, ElementOfSeq
<1>2. ASSUME NEW k \in i .. Len(bytes) PROVE SubSeq(bytes, i, k) \in Seq(Bytes)
  <2>1. \A j \in i .. k : bytes[j] \in Bytes
    BY <1>1
  <2>2. i \in Int /\ k \in Int
    BY <1>1
  <2> QED
    BY <2>1, <2>2, SubSeqProperties
<1>3. SubSeq(bytes, i, Len(bytes)) \in Seq(Bytes)
  <2>1. \A j \in i .. Len(bytes) : bytes[j] \in Bytes
    BY <1>1
  <2>2. i \in Int /\ Len(bytes) \in Int
    BY <1>1
  <2> QED
    BY <2>1, <2>2, SubSeqProperties
<1>4. CASE NeverEnds(bytes, i)
  <2>1. <<>> \in Seq(Bytes)
    BY EmptySeq
  <2>2. LeftFrom(bytes, i, f) = [out |-> <<>>, held |-> SubSeq(bytes, i, Len(bytes))]
    BY <1>4, LeftOpen
  <2> QED
    BY <1>3, <2>1, <2>2 DEF Parts
<1>5. ASSUME NEW k, EndsFirst(bytes, i, k) PROVE LeftFrom(bytes, i, f) \in Parts
  <2>1. k \in i .. Len(bytes)
    BY <1>5 DEF EndsFirst
  <2>2. i \in 1 .. Len(bytes) /\ k + 1 \in i + 1 .. Len(bytes) + 1
    BY <1>1, <2>1
  <2>3. f[k + 1] \in Parts
    BY <2>2
  <2>4. f[k + 1].out \in Seq(Bytes) /\ f[k + 1].held \in Seq(Bytes)
    BY <2>3 DEF Parts
  <2>5. SubSeq(bytes, i, k) \o f[k + 1].out \in Seq(Bytes)
    BY <1>2, <2>1, <2>4, ConcatProperties
  <2>6. LeftFrom(bytes, i, f) =
          IF IsTitle(bytes, i, k) THEN f[k + 1]
          ELSE [out |-> SubSeq(bytes, i, k) \o f[k + 1].out, held |-> f[k + 1].held]
    BY <1>5, <2>2, LeftClosed
  <2> QED
    BY <2>3, <2>4, <2>5, <2>6 DEF Parts
<1> QED
  BY <1>4, <1>5, OpenOrClosed

(* The recursion is well-founded: it is defined on the last places, however *)
(* many of them.                                                           *)
IsLeft(left, bytes, S) == left = [i \in S |-> LeftFrom(bytes, i, left)]

LEMMA LeftOfLast ==
  ASSUME NEW bytes \in Seq(Bytes), NEW d \in 0 .. Len(bytes)
  PROVE  \E left : IsLeft(left, bytes, Len(bytes) + 1 - d .. Len(bytes) + 1)
<1> DEFINE n == Len(bytes)
           Trailing(m) == n + 1 - m .. n + 1
           Bad == {m \in 0 .. n : ~ \E left : IsLeft(left, bytes, Trailing(m))}
<1>0. n \in Nat
  BY LenProperties
<1>1. SUFFICES ASSUME Bad # {} PROVE FALSE
  OBVIOUS
<1>2. PICK m \in Bad : \A k \in Bad : m <= k
  <2>1. Bad \in SUBSET Nat
    BY <1>0
  <2> HIDE DEF Bad
  <2> QED
    BY <1>1, <2>1, LeastNumber
<1>3. m \in 0 .. n /\ ~ \E left : IsLeft(left, bytes, Trailing(m))
  OBVIOUS
<1> DEFINE start == n + 1 - m
<1>4. start \in 1 .. n + 1 /\ start \in Trailing(m)
  BY <1>0, <1>3
<1>5. \E f : IsLeft(f, bytes, Trailing(m) \ {start})
  <2>1. CASE m = 0
    <3>1. Trailing(m) \ {start} = {}
      BY <1>0, <2>1
    <3>2. IsLeft([i \in {} |-> LeftFrom(bytes, i, bytes)], bytes, {})
      BY DEF IsLeft
    <3> QED
      BY <3>1, <3>2
  <2>2. CASE m # 0
    <3>1. m - 1 \in 0 .. n /\ ~(m <= m - 1)
      BY <1>0, <1>3, <2>2
    <3>2. m - 1 \notin Bad
      BY <1>2, <3>1
    <3>3. Trailing(m) \ {start} = Trailing(m - 1)
      BY <1>0, <1>3, <2>2
    <3> QED
      BY <3>1, <3>2, <3>3
  <2> QED
    BY <2>1, <2>2
<1>6. PICK f : IsLeft(f, bytes, Trailing(m) \ {start})
  BY <1>5
<1> DEFINE g == [i \in Trailing(m) |-> LeftFrom(bytes, i, f)]
<1> HIDE DEF Bad
<1>7. ASSUME NEW i \in Trailing(m) PROVE LeftFrom(bytes, i, f) = LeftFrom(bytes, i, g)
  <2>1. i \in 1 .. n + 1 /\ i \in Int
    BY <1>0, <1>3
  <2>2. \A j \in i + 1 .. n + 1 : j \in Trailing(m) \ {start} /\ j \in Trailing(m)
    BY <1>0, <1>3
  <2>3. \A j \in Trailing(m) \ {start} : f[j] = LeftFrom(bytes, j, f)
    <3> HIDE DEF Trailing, start
    <3> QED
      BY <1>6 DEF IsLeft
  <2>4. \A j \in i + 1 .. n + 1 : f[j] = g[j]
    <3> HIDE DEF Trailing, start
    <3> QED
      BY <2>2, <2>3
  <2> HIDE DEF g, Trailing
  <2> QED
    BY <2>1, <2>4, LeftDepends
<1>8. g = [i \in Trailing(m) |-> LeftFrom(bytes, i, g)]
  <2> HIDE DEF Trailing
  <2>1. g = [i \in Trailing(m) |-> g[i]] /\ \A i \in Trailing(m) : g[i] = LeftFrom(bytes, i, f)
    OBVIOUS
  <2> HIDE DEF g
  <2> QED
    BY <1>7, <2>1
<1> HIDE DEF g
<1> QED
  BY <1>3, <1>8 DEF IsLeft

LEMMA LeftIs ==
  ASSUME NEW bytes \in Seq(Bytes)
  PROVE  /\ Left(bytes) = [i \in 1 .. Len(bytes) + 1 |-> LeftFrom(bytes, i, Left(bytes))]
         /\ \A i \in 1 .. Len(bytes) + 1 : Left(bytes)[i] \in Parts
<1> DEFINE n == Len(bytes)
           S == 1 .. n + 1
           all == Left(bytes)
<1>0. n \in Nat
  BY LenProperties
<1>1. \E left : left = [i \in S |-> LeftFrom(bytes, i, left)]
  <2>1. n \in 0 .. n /\ n + 1 - n = 1
    BY <1>0
  <2>2. \E left : IsLeft(left, bytes, n + 1 - n .. n + 1)
    BY <2>1, LeftOfLast
  <2> QED
    BY <2>1, <2>2 DEF IsLeft
<1>2. all = CHOOSE left : left = [i \in S |-> LeftFrom(bytes, i, left)]
  BY DEF Left
<1> HIDE DEF all
<1>3. all = [i \in S |-> LeftFrom(bytes, i, all)]
  <2> HIDE DEF S
  <2> QED
    BY <1>1, <1>2
<1>4. \A i \in S : all[i] \in Parts
  <2> DEFINE Bad == {d \in 0 .. n : all[n + 1 - d] \notin Parts}
  <2>1. CASE Bad # {}
    <3>1. Bad \in SUBSET Nat
      BY <1>0
    <3>2. PICK d \in Bad : \A e \in Bad : d <= e
      <4> HIDE DEF Bad
      <4> QED
        BY <2>1, <3>1, LeastNumber
    <3>3. d \in 0 .. n /\ all[n + 1 - d] \notin Parts
      OBVIOUS
    <3>4. n + 1 - d \in S
      BY <1>0, <3>3
    <3>5. ASSUME NEW j \in n + 1 - d + 1 .. n + 1 PROVE all[j] \in Parts
      <4>1. n + 1 - j \in 0 .. n /\ ~(d <= n + 1 - j) /\ n + 1 - (n + 1 - j) = j
        BY <1>0, <3>3
      <4>2. n + 1 - j \notin Bad
        BY <3>2, <4>1
      <4> QED
        BY <4>1, <4>2
    <3>6. LeftFrom(bytes, n + 1 - d, all) \in Parts
      BY <3>4, <3>5, LeftTyped
    <3>7. all[n + 1 - d] = LeftFrom(bytes, n + 1 - d, all)
      <4> HIDE DEF S
      <4> QED
        BY <1>3, <3>4
    <3> QED
      BY <3>3, <3>6, <3>7
  <2>2. CASE Bad = {}
    <3>1. \A i \in S : n + 1 - i \in 0 .. n /\ n + 1 - (n + 1 - i) = i
      BY <1>0
    <3>2. \A d \in 0 .. n : all[n + 1 - d] \in Parts
      BY <2>2
    <3> HIDE DEF S
    <3> QED
      BY <3>1, <3>2
  <2> QED
    BY <2>1, <2>2
<1> QED
  BY <1>3, <1>4 DEF all

-----------------------------------------------------------------------------
(* The filter: pieces in the midst of the output                           *)

(* From place i on the output begins with the bytes of p.                  *)
Starts(p, bytes, i) ==
  /\ i \in 1 .. Len(bytes) + 1 /\ i + Len(p) - 1 <= Len(bytes)
  /\ \A j \in 1 .. Len(p) : bytes[i + j - 1] = p[j]

(* What can be said of a piece from its own bytes.                         *)
Telling(p) == Len(p) >= 2 \/ (Len(p) = 1 /\ p[1] # Esc)

LEMMA EndsThere ==
  ASSUME NEW bytes \in Seq(Bytes), NEW p \in Seq(Bytes), NEW i, Starts(p, bytes, i),
         NEW k \in 1 .. Len(p)
  PROVE  EndsCommand(bytes, i, i + k - 1) <=> EndsCommand(p, 1, k)
<1>1. Len(p) \in Nat /\ Len(bytes) \in Nat /\ i \in Nat \ {0} /\ k \in Nat \ {0}
  BY LenProperties DEF Starts
<1>2. bytes[i + k - 1] = p[k]
  BY DEF Starts
<1>3. k > 1 => k - 1 \in 1 .. Len(p) /\ i + (k - 1) - 1 = i + k - 1 - 1
  BY <1>1
<1>4. k > 1 => bytes[i + k - 1 - 1] = p[k - 1]
  BY <1>3 DEF Starts
<1>5. (i + k - 1 >= i + 2 <=> k >= 3) /\ (i + k - 1 > i + 2 <=> k > 3) /\ (k >= 3 => k > 1)
  BY <1>1
<1>6. (k >= 1 + 2 <=> k >= 3) /\ (k > 1 + 2 <=> k > 3)
  BY <1>1
<1> QED
  BY <1>1, <1>2, <1>4, <1>5, <1>6 DEF EndsCommand

LEMMA ClosesThere ==
  ASSUME NEW bytes \in Seq(Bytes), NEW p \in Seq(Bytes), NEW i, Starts(p, bytes, i), Telling(p),
         NEW k \in 1 .. Len(p)
  PROVE  Closes(bytes, i, i + k - 1) <=> Closes(p, 1, k)
<1>1. Len(p) \in Nat /\ Len(bytes) \in Nat /\ i \in Nat \ {0} /\ k \in Nat \ {0}
  BY LenProperties DEF Starts
<1>2. bytes[i + k - 1] = p[k]
  BY DEF Starts
<1>3. bytes[i] = p[1]
  <2>1. 1 \in 1 .. Len(p) /\ i + 1 - 1 = i
    BY <1>1
  <2> QED
    BY <2>1 DEF Starts
<1>4. EndsCommand(bytes, i, i + k - 1) <=> EndsCommand(p, 1, k)
  BY EndsThere
<1>5. (i + k - 1 = i <=> k = 1) /\ (i + k - 1 = i + 1 <=> k = 1 + 1)
      /\ (i + k - 1 = i + MaxBuffered <=> k = 1 + MaxBuffered)
  BY <1>1, BufferAssumption
<1>6. CASE Len(p) >= 2
  <2>1. bytes[i + 1] = p[1 + 1] /\ i < Len(bytes) /\ 1 < Len(p)
    <3>1. 2 \in 1 .. Len(p) /\ i + 2 - 1 = i + 1
      BY <1>1, <1>6
    <3>2. bytes[i + 2 - 1] = p[2] /\ i + Len(p) - 1 <= Len(bytes)
      BY <3>1 DEF Starts
    <3> QED
      BY <1>1, <1>6, <3>1, <3>2
  <2>2. IsCommand(bytes, i) <=> IsCommand(p, 1)
    BY <1>3, <2>1 DEF IsCommand
  <2> QED
    BY <1>2, <1>3, <1>4, <1>5, <2>1, <2>2 DEF Closes
<1>7. CASE ~(Len(p) >= 2)
  <2>1. Len(p) = 1 /\ p[1] # Esc /\ k = 1
    BY <1>1, <1>7 DEF Telling
  <2> QED
    BY <1>3, <1>5, <2>1 DEF Closes
<1> QED
  BY <1>6, <1>7

LEMMA SubSeqThere ==
  ASSUME NEW bytes \in Seq(Bytes), NEW p \in Seq(Bytes), NEW i, Starts(p, bytes, i),
         NEW k \in 1 .. Len(p)
  PROVE  SubSeq(bytes, i, i + k - 1) = SubSeq(p, 1, k) /\ SubSeq(p, 1, k) \in Seq(Bytes)
<1>1. Len(p) \in Nat /\ Len(bytes) \in Nat /\ i \in Nat \ {0} /\ k \in Nat \ {0}
  BY LenProperties DEF Starts
<1>2. i + Len(p) - 1 <= Len(bytes) /\ \A j \in 1 .. Len(p) : bytes[i + j - 1] = p[j]
  BY DEF Starts
<1>3. /\ \A j \in i .. i + k - 1 : bytes[j] \in Bytes
      /\ \A j \in 1 .. k : p[j] \in Bytes
  <2>1. \A j \in i .. i + k - 1 : j \in 1 .. Len(bytes)
    BY <1>1, <1>2
  <2>2. \A j \in 1 .. k : j \in 1 .. Len(p)
    BY <1>1
  <2> QED
    BY <2>1, <2>2, ElementOfSeq
<1>4. i \in Int /\ i + k - 1 \in Int /\ 1 \in Int /\ k \in Int /\ i <= i + k - 1 /\ 1 <= k
  BY <1>1
<1> DEFINE a == SubSeq(bytes, i, i + k - 1)
           b == SubSeq(p, 1, k)
<1>5. /\ a \in Seq(Bytes) /\ Len(a) = i + k - 1 - i + 1
      /\ \A j \in 1 .. i + k - 1 - i + 1 : a[j] = bytes[i + j - 1]
  BY <1>3, <1>4, SubSeqProperties
<1>6. /\ b \in Seq(Bytes) /\ Len(b) = k - 1 + 1 /\ \A j \in 1 .. k - 1 + 1 : b[j] = p[1 + j - 1]
  BY <1>3, <1>4, SubSeqProperties
<1>7. i + k - 1 - i + 1 = k /\ k - 1 + 1 = k /\ \A j \in 1 .. k : 1 + j - 1 = j /\ j \in 1 .. Len(p)
  BY <1>1
<1> HIDE DEF a, b
<1>8. Len(a) = Len(b) /\ \A j \in 1 .. Len(a) : a[j] = b[j]
  BY <1>2, <1>5, <1>6, <1>7
<1>9. a = b
  BY <1>5, <1>6, <1>8, SeqEqual
<1> QED
  BY <1>6, <1>9 DEF a, b

(* The filter has written what is left of the pieces before place i,       *)
(* whatever follows.                                                       *)
Agrees(bytes, out, i) ==
  \A more \in Seq(Bytes) :
    LET all == Left(bytes \o more)
    IN all[1].out = out \o all[i].out /\ all[1].held = all[i].held

LEMMA StartsGrown ==
  ASSUME NEW bytes \in Seq(Bytes), NEW p \in Seq(Bytes), NEW i, Starts(p, bytes, i),
         NEW more \in Seq(Bytes)
  PROVE  bytes \o more \in Seq(Bytes) /\ Starts(p, bytes \o more, i)
<1> DEFINE c == bytes \o more
<1>1. Len(p) \in Nat /\ Len(bytes) \in Nat /\ Len(more) \in Nat /\ i \in Nat \ {0}
  BY LenProperties DEF Starts
<1>2. /\ c \in Seq(Bytes) /\ Len(c) = Len(bytes) + Len(more)
      /\ \A j \in 1 .. Len(bytes) + Len(more) :
           c[j] = IF j <= Len(bytes) THEN bytes[j] ELSE more[j - Len(bytes)]
  BY ConcatProperties
<1> HIDE DEF c
<1>3. /\ i \in 1 .. Len(bytes) + 1 /\ i + Len(p) - 1 <= Len(bytes)
      /\ \A j \in 1 .. Len(p) : bytes[i + j - 1] = p[j]
  BY DEF Starts
<1>4. i \in 1 .. Len(c) + 1 /\ i + Len(p) - 1 <= Len(c)
  BY <1>1, <1>2, <1>3
<1>5. \A j \in 1 .. Len(p) : i + j - 1 \in 1 .. Len(bytes) + Len(more) /\ i + j - 1 <= Len(bytes)
  BY <1>1, <1>3
<1>6. \A j \in 1 .. Len(p) : c[i + j - 1] = p[j]
  BY <1>2, <1>3, <1>5
<1> QED
  BY <1>2, <1>4, <1>6 DEF Starts, c

(* A name for three sequences, which keeps the provers from joining others. *)
Joinable(a, b, c) == a \in Seq(Bytes) /\ b \in Seq(Bytes) /\ c \in Seq(Bytes)

LEMMA Reassociated ==
  ASSUME NEW a, NEW b, NEW c, Joinable(a, b, c)
  PROVE  (a \o b) \o c = a \o (b \o c)
BY ConcatAssociative DEF Joinable

(* A piece is complete: what the filter has written grows by it, if it is  *)
(* no title, and the next one begins behind it.                            *)
LEMMA Advance ==
  ASSUME NEW bytes \in Seq(Bytes), NEW out \in Seq(Bytes), NEW i, Agrees(bytes, out, i),
         NEW p \in Seq(Bytes), Starts(p, bytes, i), Telling(p),
         NEW k, EndsFirst(p, 1, k)
  PROVE  Agrees(bytes, IF IsTitle(p, 1, k) THEN out ELSE out \o SubSeq(p, 1, k), i + k)
<1>1. Len(p) \in Nat /\ i \in Nat \ {0} /\ k \in 1 .. Len(p) /\ Len(bytes) \in Nat
  BY LenProperties DEF Starts, EndsFirst
<1> DEFINE piece == SubSeq(p, 1, k)
<1> SUFFICES ASSUME NEW more \in Seq(Bytes)
             PROVE  LET all == Left(bytes \o more)
                        new == IF IsTitle(p, 1, k) THEN out ELSE out \o piece
                    IN all[1].out = new \o all[i + k].out /\ all[1].held = all[i + k].held
  BY DEF Agrees
<1> DEFINE c == bytes \o more
           all == Left(c)
<1>2. c \in Seq(Bytes) /\ Starts(p, c, i)
  BY StartsGrown
<1> HIDE DEF c
<1>3. Len(c) \in Nat /\ i + Len(p) - 1 <= Len(c)
  BY <1>2, LenProperties DEF Starts
<1>4. i \in 1 .. Len(c) /\ i \in 1 .. Len(c) + 1 /\ i + k \in 1 .. Len(c) + 1
      /\ i + k - 1 + 1 = i + k /\ i + k - 1 \in i .. Len(c)
  BY <1>1, <1>3
<1>5. EndsFirst(c, i, i + k - 1)
  <2>1. \A j \in 1 .. k : j \in 1 .. Len(p)
    BY <1>1
  <2>2. \A j \in 1 .. Len(p) : Closes(c, i, i + j - 1) <=> Closes(p, 1, j)
    BY <1>2, ClosesThere
  <2>3. Closes(c, i, i + k - 1)
    BY <1>1, <2>2 DEF EndsFirst
  <2>4. \A j \in 1 .. k - 1 : ~Closes(p, 1, j)
    BY DEF EndsFirst
  <2>5. ASSUME NEW j \in i .. i + k - 1 - 1 PROVE ~Closes(c, i, j)
    <3>1. j - i + 1 \in 1 .. k - 1 /\ j - i + 1 \in 1 .. Len(p) /\ i + (j - i + 1) - 1 = j
      BY <1>1
    <3>2. Closes(c, i, i + (j - i + 1) - 1) <=> Closes(p, 1, j - i + 1)
      BY <2>2, <3>1
    <3> QED
      BY <2>4, <3>1, <3>2
  <2> QED
    BY <1>4, <2>3, <2>5 DEF EndsFirst
<1>6. SubSeq(c, i, i + k - 1) = piece /\ piece \in Seq(Bytes)
  BY <1>1, <1>2, SubSeqThere, SMTT(30)
<1>7. IsTitle(c, i, i + k - 1) <=> IsTitle(p, 1, k)
  BY <1>1, <1>2, <1>6, EndsThere DEF IsTitle
<1>8. all[i] = LeftFrom(c, i, all)
  BY <1>2, <1>4, LeftIs
<1>9. all[i + k] \in Parts /\ all[i] \in Parts
  BY <1>2, <1>4, LeftIs
<1>10. all[1].out = out \o all[i].out /\ all[1].held = all[i].held
  BY DEF Agrees, c
<1> DEFINE end == i + k - 1
           rest == all[i + k].out
<1>11. all[i] = IF IsTitle(c, i, end) THEN all[end + 1]
                ELSE [out |-> SubSeq(c, i, end) \o all[end + 1].out, held |-> all[end + 1].held]
  <2>1. EndsFirst(c, i, end)
    BY <1>5
  <2>2. i \in 1 .. Len(c) /\ c \in Seq(Bytes)
    BY <1>2, <1>4
  <2> HIDE DEF all, end
  <2>3. \A left : LeftFrom(c, i, left) =
           IF IsTitle(c, i, end) THEN left[end + 1]
           ELSE [out |-> SubSeq(c, i, end) \o left[end + 1].out, held |-> left[end + 1].held]
    BY <2>1, <2>2, LeftClosed, Zenon
  <2> QED
    BY <1>8, <2>3, Zenon
<1> HIDE DEF all, piece
<1>12. all[i] = IF IsTitle(p, 1, k) THEN all[i + k]
                ELSE [out |-> piece \o rest, held |-> all[i + k].held]
  BY <1>4, <1>6, <1>7, <1>11
<1>13. rest \in Seq(Bytes)
  BY <1>9 DEF Parts
<1>14. (out \o piece) \o rest = out \o (piece \o rest)
  <2>1. Joinable(out, piece, rest)
    BY <1>6, <1>13 DEF Joinable
  <2> HIDE DEF rest, piece
  <2> QED
    BY <2>1, Reassociated
<1>15. CASE IsTitle(p, 1, k)
  BY <1>10, <1>12, <1>15 DEF all, c, piece
<1>16. CASE ~IsTitle(p, 1, k)
  <2> DEFINE here == all[i]
             held == all[i + k].held
             joined == piece \o rest
  <2>1. here = [out |-> joined, held |-> held]
    BY <1>12, <1>16
  <2>2. all[1].out = out \o here.out /\ all[1].held = here.held
    BY <1>10
  <2>3. (out \o piece) \o rest = out \o joined
    BY <1>14
  <2> HIDE DEF here, held, joined, rest
  <2>4. here.out = joined /\ here.held = held
    BY <2>1
  <2>5. all[1].out = (out \o piece) \o rest /\ all[1].held = held
    BY <2>2, <2>3, <2>4
  <2> QED
    BY <1>16, <2>5 DEF all, c, piece, held, rest
<1> QED
  BY <1>15, <1>16

(* One byte more: nothing changes for the pieces before.                   *)
LEMMA AgreesGrown ==
  ASSUME NEW bytes \in Seq(Bytes), NEW out, NEW i, Agrees(bytes, out, i), NEW value \in Bytes
  PROVE  Agrees(Append(bytes, value), out, i)
<1> SUFFICES ASSUME NEW more \in Seq(Bytes)
             PROVE  LET all == Left(Append(bytes, value) \o more)
                    IN all[1].out = out \o all[i].out /\ all[1].held = all[i].held
  BY DEF Agrees
<1>1. <<value>> \in Seq(Bytes) /\ <<value>> \o more \in Seq(Bytes)
  <2>1. <<value>> \in Seq(Bytes)
    OBVIOUS
  <2> QED
    BY <2>1, ConcatProperties
<1>2. Append(bytes, value) \o more = bytes \o (<<value>> \o more)
  <2>1. Append(bytes, value) = bytes \o <<value>>
    BY AppendIsConcat
  <2> QED
    BY <1>1, <2>1, ConcatAssociative
<1> QED
  BY <1>1, <1>2 DEF Agrees

-----------------------------------------------------------------------------
(* The filter: what it does with a byte                                    *)

(* A command under way: it has not ended and fits into the buffer.         *)
Open(q) ==
  /\ Len(q) >= 2 /\ Len(q) <= MaxBuffered /\ q[1] = Esc /\ q[2] = "]"
  /\ \A k \in 1 .. Len(q) : ~EndsCommand(q, 1, k)

States == {"text", "escape", "osc", "oscEscape"}

Filters == [state : States, sequence : Seq(Bytes), output : Seq(Bytes)]

(* What is held back in each state.                                        *)
Holds(state, q) ==
  /\ state \in States
  /\ state = "text" => q = <<>>
  /\ state = "escape" => q = <<Esc>>
  /\ state = "osc" => Open(q) /\ ~(Len(q) > 2 /\ q[Len(q)] = Esc)
  /\ state = "oscEscape" => Open(q) /\ Len(q) > 2 /\ q[Len(q)] = Esc

LEMMA Longer ==
  ASSUME NEW q \in Seq(Bytes), NEW value \in Bytes
  PROVE  LET p == Append(q, value)
         IN /\ p \in Seq(Bytes) /\ Len(q) \in Nat /\ Len(p) = Len(q) + 1
            /\ p[Len(p)] = value /\ \A j \in 1 .. Len(q) : p[j] = q[j]
BY AppendProperties, LenProperties

LEMMA OpenHere ==
  ASSUME NEW q \in Seq(Bytes), NEW value \in Bytes, Open(q), NEW p, p = Append(q, value)
  PROVE  /\ p[1] = Esc /\ p[2] = "]" /\ Len(p) >= 3 /\ Len(p) <= MaxBuffered + 1
         /\ \A k \in 1 .. Len(p) - 1 : ~EndsCommand(p, 1, k)
         /\ EndsCommand(p, 1, Len(p)) <=>
              \/ value = Bel /\ ~(Len(q) > 2 /\ q[Len(q)] = Esc)
              \/ value = "\\" /\ Len(q) > 2 /\ q[Len(q)] = Esc
<1>1. /\ p \in Seq(Bytes) /\ Len(q) \in Nat /\ Len(p) = Len(q) + 1
      /\ p[Len(p)] = value /\ \A j \in 1 .. Len(q) : p[j] = q[j]
  BY Longer
<1>2. Len(q) >= 2 /\ Len(q) <= MaxBuffered /\ q[1] = Esc /\ q[2] = "]"
  BY DEF Open
<1>3. p[1] = Esc /\ p[2] = "]" /\ Len(p) >= 3 /\ Len(p) <= MaxBuffered + 1
  BY <1>1, <1>2, BufferAssumption
<1>4. ASSUME NEW k \in 1 .. Len(p) - 1 PROVE ~EndsCommand(p, 1, k)
  <2>1. k \in 1 .. Len(q) /\ (k > 1 => k - 1 \in 1 .. Len(q)) /\ k \in Nat
    BY <1>1
  <2>2. p[k] = q[k] /\ (k > 1 => p[k - 1] = q[k - 1])
    BY <1>1, <2>1
  <2>3. ~EndsCommand(q, 1, k)
    BY <2>1 DEF Open
  <2> QED
    BY <2>1, <2>2, <2>3 DEF EndsCommand
<1>5. Len(p) - 1 = Len(q) /\ p[Len(p) - 1] = q[Len(q)] /\ Len(p) >= 1 + 2
      /\ (Len(p) > 1 + 2 <=> Len(q) > 2)
  <2>1. Len(p) - 1 = Len(q) /\ Len(q) \in 1 .. Len(q)
    BY <1>1, <1>2
  <2> QED
    BY <1>1, <1>2, <2>1
<1>6. EndsCommand(p, 1, Len(p)) <=>
        \/ value = Bel /\ ~(Len(q) > 2 /\ q[Len(q)] = Esc)
        \/ value = "\\" /\ Len(q) > 2 /\ q[Len(q)] = Esc
  BY <1>1, <1>5, Zenon DEF EndsCommand
<1> QED
  BY <1>3, <1>4, <1>6

(* A command that grows to the end or to more than the buffer holds.       *)
LEMMA CommandEnds ==
  ASSUME NEW q \in Seq(Bytes), NEW value \in Bytes, Open(q), NEW p, p = Append(q, value),
         EndsCommand(p, 1, Len(p)) \/ Len(p) > MaxBuffered
  PROVE  /\ Telling(p) /\ EndsFirst(p, 1, Len(p))
         /\ IsTitle(p, 1, Len(p)) <=> EndsCommand(p, 1, Len(p)) /\ isTitleOSC(p)
<1>1. p \in Seq(Bytes) /\ Len(p) \in Nat
  BY Longer, LenProperties
<1>2. /\ p[1] = Esc /\ p[2] = "]" /\ Len(p) >= 3 /\ Len(p) <= MaxBuffered + 1
      /\ \A k \in 1 .. Len(p) - 1 : ~EndsCommand(p, 1, k)
  BY OpenHere
<1>3. "]" # Esc
  BY DEF Esc
<1>4. IsCommand(p, 1) /\ p[1 + 1] = "]"
  BY <1>1, <1>2 DEF IsCommand
<1>5. EndsCommand(p, 1, Len(p)) \/ Len(p) = 1 + MaxBuffered
  BY <1>1, <1>2, BufferAssumption
<1>6. Closes(p, 1, Len(p))
  BY <1>4, <1>5 DEF Closes
<1>7. ASSUME NEW j \in 1 .. Len(p) - 1 PROVE ~Closes(p, 1, j)
  <2>1. ~EndsCommand(p, 1, j) /\ j # 1 + MaxBuffered
    BY <1>1, <1>2, BufferAssumption
  <2>2. j = 1 + 1 => p[j] = "]"
    BY <1>4
  <2>3. j = 1 => ~(p[1] = Esc => 1 < Len(p) /\ p[1 + 1] = Esc)
    BY <1>2, <1>3, <1>4
  <2> QED
    BY <2>1, <2>2, <2>3 DEF Closes
<1>8. Len(p) \in 1 .. Len(p)
  BY <1>1, <1>2
<1>9. SubSeq(p, 1, Len(p)) = p
  BY <1>1, SubSeqFull
<1>10. EndsFirst(p, 1, Len(p))
  BY <1>6, <1>7, <1>8 DEF EndsFirst
<1>11. Telling(p)
  BY <1>1, <1>2 DEF Telling
<1>12. IsTitle(p, 1, Len(p)) <=> EndsCommand(p, 1, Len(p)) /\ isTitleOSC(p)
  BY <1>9 DEF IsTitle
<1> QED
  BY <1>10, <1>11, <1>12

LEMMA CommandGoesOn ==
  ASSUME NEW q \in Seq(Bytes), NEW value \in Bytes, Open(q), NEW p, p = Append(q, value),
         ~EndsCommand(p, 1, Len(p)), Len(p) <= MaxBuffered
  PROVE  Open(p)
<1>1. Len(p) \in Nat
  BY Longer, LenProperties
<1>2. /\ p[1] = Esc /\ p[2] = "]" /\ Len(p) >= 3
      /\ \A k \in 1 .. Len(p) - 1 : ~EndsCommand(p, 1, k)
  BY OpenHere
<1>3. \A k \in 1 .. Len(p) : k \in 1 .. Len(p) - 1 \/ k = Len(p)
  BY <1>1
<1>4. \A k \in 1 .. Len(p) : ~EndsCommand(p, 1, k)
  BY <1>2, <1>3
<1> QED
  BY <1>1, <1>2, <1>4 DEF Open

(* What is held back closes no piece.                                      *)
LEMMA HeldIsOpen ==
  ASSUME NEW q \in Seq(Bytes), NEW state, Holds(state, q), Len(q) >= 2,
         NEW k \in 1 .. Len(q)
  PROVE  ~Closes(q, 1, k)
<1>1. Len(q) \in Nat /\ q # <<>> /\ q # <<Esc>>
  <2>1. q # <<>>
    OBVIOUS
  <2>2. ASSUME q = <<Esc>> PROVE FALSE
    <3>1. Len(q) = 1
      BY <2>2
    <3> QED
      BY <3>1
  <2> QED
    BY <2>1, <2>2, LenProperties
<1>2. Open(q)
  BY <1>1, Zenon DEF Holds, States
<1>3. ~EndsCommand(q, 1, k) /\ k # 1 + MaxBuffered
  BY <1>1, <1>2, BufferAssumption DEF Open
<1>4. "]" # Esc /\ q[1] = Esc /\ q[1 + 1] = "]"
  BY <1>2 DEF Open, Esc
<1> QED
  BY <1>3, <1>4 DEF Closes

(* A byte is held back with the others, ends a piece, or is an ESC that    *)
(* ends a piece and begins another.                                        *)
HeldBack(f, g, p) == g.sequence = p /\ g.output = f.output /\ Holds(g.state, p)

Ended(f, g, p) ==
  /\ g.state = "text" /\ g.sequence = <<>>
  /\ Telling(p) /\ EndsFirst(p, 1, Len(p))
  /\ g.output = IF IsTitle(p, 1, Len(p)) THEN f.output ELSE f.output \o p

BeganAnew(f, g, p) ==
  /\ p = <<Esc, Esc>>
  /\ g.state = "escape" /\ g.sequence = <<Esc>> /\ g.output = f.output \o <<Esc>>

IsStep(f, g, p) == g \in Filters /\ (HeldBack(f, g, p) \/ Ended(f, g, p) \/ BeganAnew(f, g, p))

(* Every record of the filter, and what its operators make of it.          *)
LEMMA Records ==
  ASSUME NEW f \in Filters
  PROVE  /\ \A state \in States : \A q \in Seq(Bytes) :
              Holding(f, state, q) = [state |-> state, sequence |-> q, output |-> f.output]
         /\ \A bytes \in Seq(Bytes) :
              Passing(f, bytes) = [state |-> "text", sequence |-> <<>>, output |-> f.output \o bytes]
<1>1. f = [state |-> f.state, sequence |-> f.sequence, output |-> f.output]
  BY DEF Filters
<1>2. ASSUME NEW state \in States, NEW q \in Seq(Bytes)
      PROVE  Holding(f, state, q) = [state |-> state, sequence |-> q, output |-> f.output]
  <2>1. Holding(f, state, q) = [[f EXCEPT !.state = state] EXCEPT !.sequence = q]
    BY DEF Holding
  <2> QED
    BY <2>1 DEF Filters
<1>3. ASSUME NEW bytes \in Seq(Bytes)
      PROVE  Passing(f, bytes) = [state |-> "text", sequence |-> <<>>, output |-> f.output \o bytes]
  <2> DEFINE g == Passing(f, bytes)
  <2>1. f.output \o bytes \in Seq(Bytes) /\ <<>> \in Seq(Bytes)
    BY ConcatProperties, EmptySeq DEF Filters
  <2>2. g = [[[f EXCEPT !.state = "text"] EXCEPT !.sequence = <<>>] EXCEPT !.output = f.output \o bytes]
    BY DEF Passing
  <2> QED
    BY <2>1, <2>2 DEF Filters
<1> QED
  BY <1>2, <1>3

LEMMA ByteDoes ==
  ASSUME NEW f \in Filters, Holds(f.state, f.sequence), NEW value \in Bytes
  PROVE  IsStep(f, Byte(f, value), Append(f.sequence, value))
<1> DEFINE q == f.sequence
           p == Append(q, value)
           g == Byte(f, value)
<1> SUFFICES IsStep(f, g, p)
  OBVIOUS
<1>1. q \in Seq(Bytes) /\ f.output \in Seq(Bytes)
  BY DEF Filters, States
<1>2. /\ p \in Seq(Bytes) /\ Len(q) \in Nat /\ Len(p) = Len(q) + 1
      /\ p[Len(p)] = value /\ \A j \in 1 .. Len(q) : p[j] = q[j]
  BY <1>1, Longer
<1>3. /\ <<>> \in Seq(Bytes) /\ <<Esc>> \in Seq(Bytes) /\ <<value>> \in Seq(Bytes)
  <2>1. Esc \in Bytes
    BY DEF Bytes
  <2>2. <<value>> \in Seq(Bytes)
    OBVIOUS
  <2>3. <<Esc>> \in Seq(Bytes)
    BY <2>1
  <2> QED
    BY <2>2, <2>3, EmptySeq
<1>20. Len(<<>>) = 0 /\ Len(<<Esc>>) = 1
  OBVIOUS
<1>22. "text" \in States /\ "escape" \in States /\ "osc" \in States /\ "oscEscape" \in States
  BY DEF States
<1>21. \A n \in {0, 1} : ~(n > MaxBuffered)
  BY BufferAssumption
<1>4. /\ \A state \in States : \A r \in Seq(Bytes) :
           Holding(f, state, r) = [state |-> state, sequence |-> r, output |-> f.output]
      /\ \A bytes \in Seq(Bytes) :
           Passing(f, bytes) = [state |-> "text", sequence |-> <<>>, output |-> f.output \o bytes]
  BY Records, Zenon
<1>5. f.output \o p \in Seq(Bytes) /\ f.output \o <<>> = f.output /\ f.output \o <<Esc>> \in Seq(Bytes)
  BY <1>1, <1>2, <1>3, ConcatProperties, ConcatEmptySeq
<1> HIDE DEF p, g, q
<1>13. Bel # Esc /\ "\\" # Esc /\ Bel # "\\" /\ "]" # Esc
  BY DEF Bel, Esc
(* A command that is kept after all, or taken out.                         *)
<1>6. ASSUME Telling(p), EndsFirst(p, 1, Len(p)), ~IsTitle(p, 1, Len(p)),
             g = [state |-> "text", sequence |-> <<>>, output |-> f.output \o p]
      PROVE  IsStep(f, g, p)
  BY <1>3, <1>5, <1>6 DEF IsStep, Ended, Filters, States
<1>7. ASSUME Telling(p), EndsFirst(p, 1, Len(p)), IsTitle(p, 1, Len(p)),
             g = [state |-> "text", sequence |-> <<>>, output |-> f.output]
      PROVE  IsStep(f, g, p)
  BY <1>1, <1>3, <1>7 DEF IsStep, Ended, Filters, States
<1>8. ASSUME NEW state \in States, Holds(state, p),
             g = [state |-> state, sequence |-> p, output |-> f.output]
      PROVE  IsStep(f, g, p)
  BY <1>1, <1>2, <1>8 DEF IsStep, HeldBack, Filters, States
<1>9. CASE f.state = "text"
  <2>1. q = <<>> /\ p = <<value>> /\ Len(p) = 1 /\ p[1] = value
    <3>1. q = <<>>
      BY <1>9 DEF Holds, q
    <3>2. p = <<value>>
      BY <3>1 DEF p
    <3> QED
      BY <3>1, <3>2
  <2>2. g = Bounded(Text(f, value))
    BY <1>9 DEF g, Byte
  <2>3. CASE value = Esc
    <3>1. Text(f, value) = [state |-> "escape", sequence |-> p, output |-> f.output]
      BY <1>3, <1>4, <1>22, <2>1, <2>3 DEF Text
    <3>2. g = [state |-> "escape", sequence |-> p, output |-> f.output]
      BY <2>1, <2>2, <3>1, <1>20, <1>21 DEF Bounded
    <3>3. Holds("escape", p)
      BY <2>1, <2>3 DEF Holds, States
    <3> QED
      BY <1>8, <1>22, <3>2, <3>3
  <2>4. CASE value # Esc
    <3>1. Text(f, value) = [state |-> "text", sequence |-> <<>>, output |-> f.output \o p]
      BY <1>3, <1>4, <2>1, <2>4 DEF Text
    <3>2. g = [state |-> "text", sequence |-> <<>>, output |-> f.output \o p]
      BY <1>3, <2>2, <3>1, <1>20, <1>21 DEF Bounded
    <3>3. Telling(p) /\ EndsFirst(p, 1, Len(p)) /\ ~IsTitle(p, 1, Len(p))
      BY <2>1, <2>4 DEF Telling, EndsFirst, Closes, IsTitle, EndsCommand
    <3> QED
      BY <1>6, <3>2, <3>3
  <2> QED
    BY <2>3, <2>4
<1>10. CASE f.state = "escape"
  <2>1. q = <<Esc>> /\ p = <<Esc, value>> /\ Len(p) = 2 /\ p[1] = Esc /\ p[2] = value
    <3>1. q = <<Esc>>
      BY <1>10 DEF Holds, q
    <3>2. Len(p) = 2 /\ p[1] = Esc /\ p[2] = value
      <4>1. q[1] = Esc /\ Len(q) = 1
        BY <3>1
      <4> QED
        BY <1>2, <4>1
    <3>3. p = <<Esc, value>>
      <4>1. Esc \in Bytes
        BY DEF Bytes
      <4>2. <<Esc, value>> \in Seq(Bytes)
        BY <4>1
      <4>3. Len(<<Esc, value>>) = 2 /\ <<Esc, value>>[1] = Esc /\ <<Esc, value>>[2] = value
        OBVIOUS
      <4>4. \A j \in 1 .. 2 : j = 1 \/ j = 2
        OBVIOUS
      <4> DEFINE pair == <<Esc, value>>
      <4>5. Len(pair) = 2 /\ pair \in Seq(Bytes) /\ pair[1] = Esc /\ pair[2] = value
        BY <4>2, <4>3
      <4> HIDE DEF pair
      <4>6. p = pair
        BY <1>2, <3>2, <4>4, <4>5, SeqEqual
      <4> QED
        BY <4>6 DEF pair
    <3> QED
      BY <3>1, <3>2, <3>3
  <2>2. g = Bounded(Escape(f, value))
    BY <1>10 DEF g, Byte
  <2>3. CASE value = Esc
    <3>1. Passing(f, q) = [state |-> "text", sequence |-> <<>>, output |-> f.output \o <<Esc>>]
      BY <1>1, <1>4, <2>1 DEF q
    <3>2. Passing(f, q) \in Filters
      BY <1>3, <1>5, <3>1 DEF Filters, States
    <3>3. Holding(Passing(f, q), "escape", <<Esc>>)
            = [state |-> "escape", sequence |-> <<Esc>>, output |-> f.output \o <<Esc>>]
      <4> DEFINE h == Passing(f, q)
      <4>1. h.output = f.output \o <<Esc>>
        BY <3>1
      <4>2. h \in Filters
        BY <3>2
      <4> HIDE DEF h
      <4>3. Holding(h, "escape", <<Esc>>)
              = [state |-> "escape", sequence |-> <<Esc>>, output |-> h.output]
        BY <1>3, <1>22, <4>2, Records
      <4> QED
        BY <4>1, <4>3 DEF h
    <3>4. Escape(f, value) = Holding(Passing(f, q), "escape", <<Esc>>)
      BY <1>13, <2>3 DEF Escape, q
    <3>5. g = [state |-> "escape", sequence |-> <<Esc>>, output |-> f.output \o <<Esc>>]
      <4>1. ~(Len(<<Esc>>) > MaxBuffered)
        BY <1>20, <1>21
      <4>2. Escape(f, value)
              = [state |-> "escape", sequence |-> <<Esc>>, output |-> f.output \o <<Esc>>]
        BY <3>3, <3>4
      <4> QED
        BY <2>2, <4>1, <4>2 DEF Bounded
    <3> QED
      BY <1>3, <1>5, <2>1, <2>3, <3>5 DEF IsStep, BeganAnew, Filters, States
  <2>4. CASE value = "]"
    <3>1. Escape(f, value) = [state |-> "osc", sequence |-> p, output |-> f.output]
      BY <1>2, <1>4, <1>13, <1>22, <2>4 DEF Escape, p, q
    <3>2. "]" # Esc /\ "]" # Bel
      BY DEF Esc, Bel
    <3>3. \A k \in 1 .. 2 : ~EndsCommand(p, 1, k)
      BY DEF EndsCommand
    <3>4. CASE MaxBuffered >= 2
      <4>1. g = [state |-> "osc", sequence |-> p, output |-> f.output]
        <5>1. ~(Len(p) > MaxBuffered)
          BY <2>1, <3>4, BufferAssumption
        <5> QED
          BY <2>2, <3>1, <5>1 DEF Bounded
      <4>2. Open(p)
        BY <2>1, <2>4, <3>3, <3>4 DEF Open
      <4>3. Holds("osc", p)
        BY <2>1, <4>2 DEF Holds, States
      <4> QED
        BY <1>8, <1>22, <4>1, <4>3
    <3>5. CASE ~(MaxBuffered >= 2)
      <4>1. MaxBuffered = 1
        BY <3>5, BufferAssumption
      <4>2. Escape(f, value) \in Filters
        BY <1>1, <1>2, <3>1 DEF Filters, States
      <4>3. Passing(Escape(f, value), p)
              = [state |-> "text", sequence |-> <<>>, output |-> f.output \o p]
        <5> DEFINE h == Escape(f, value)
        <5>1. h \in Filters /\ p \in Seq(Bytes) /\ h.output = f.output
          BY <1>2, <3>1, <4>2
        <5> HIDE DEF h
        <5>2. Passing(h, p) = [state |-> "text", sequence |-> <<>>, output |-> h.output \o p]
          BY <5>1, Records
        <5> QED
          BY <5>1, <5>2 DEF h
      <4>4. g = [state |-> "text", sequence |-> <<>>, output |-> f.output \o p]
        BY <2>1, <2>2, <3>1, <4>1, <4>3 DEF Bounded
      <4>5. IsCommand(p, 1) /\ Closes(p, 1, 2) /\ ~Closes(p, 1, 1)
        BY <2>1, <2>4, <3>2, <3>3, <4>1 DEF IsCommand, Closes
      <4>6. EndsFirst(p, 1, Len(p)) /\ Telling(p) /\ ~IsTitle(p, 1, Len(p))
        BY <2>1, <3>3, <4>5 DEF EndsFirst, Telling, IsTitle
      <4> QED
        BY <1>6, <4>4, <4>6
    <3> QED
      BY <3>4, <3>5
  <2>5. CASE value # Esc /\ value # "]"
    <3>1. Escape(f, value) = [state |-> "text", sequence |-> <<>>, output |-> f.output \o p]
      BY <1>2, <1>4, <2>5 DEF Escape, p, q
    <3>2. g = [state |-> "text", sequence |-> <<>>, output |-> f.output \o p]
      BY <1>3, <2>2, <3>1, <1>20, <1>21 DEF Bounded
    <3>3. ~IsCommand(p, 1) /\ Closes(p, 1, 2) /\ ~Closes(p, 1, 1)
      BY <2>1, <2>5 DEF IsCommand, Closes
    <3>4. ~EndsCommand(p, 1, 2)
      BY DEF EndsCommand
    <3>5. EndsFirst(p, 1, Len(p)) /\ Telling(p) /\ ~IsTitle(p, 1, Len(p))
      BY <2>1, <3>3, <3>4 DEF EndsFirst, Telling, IsTitle
    <3> QED
      BY <1>6, <3>2, <3>5
  <2> QED
    BY <2>3, <2>4, <2>5
<1>11. ASSUME Open(q), EndsCommand(p, 1, Len(p)), g = Bounded(finishOSC(f, p))
       PROVE  IsStep(f, g, p)
  <2>1. /\ Telling(p) /\ EndsFirst(p, 1, Len(p))
        /\ IsTitle(p, 1, Len(p)) <=> isTitleOSC(p)
    BY <1>1, <1>11, CommandEnds DEF p
  <2>2. CASE isTitleOSC(p)
    <3>1. finishOSC(f, p) = [state |-> "text", sequence |-> <<>>, output |-> f.output]
      BY <1>3, <1>4, <1>5, <2>2 DEF finishOSC
    <3>2. g = [state |-> "text", sequence |-> <<>>, output |-> f.output]
      BY <1>3, <1>11, <3>1, <1>20, <1>21 DEF Bounded
    <3> QED
      BY <1>7, <2>1, <2>2, <3>2
  <2>3. CASE ~isTitleOSC(p)
    <3>1. finishOSC(f, p) = [state |-> "text", sequence |-> <<>>, output |-> f.output \o p]
      BY <1>2, <1>4, <2>3 DEF finishOSC
    <3>2. g = [state |-> "text", sequence |-> <<>>, output |-> f.output \o p]
      BY <1>3, <1>11, <3>1, <1>20, <1>21 DEF Bounded
    <3> QED
      BY <1>6, <2>1, <2>3, <3>2
  <2> QED
    BY <2>2, <2>3
<1>12. ASSUME Open(q), ~EndsCommand(p, 1, Len(p)), NEW state \in {"osc", "oscEscape"},
              state = "oscEscape" <=> value = Esc,
              g = Bounded(Holding(f, state, p))
       PROVE  IsStep(f, g, p)
  <2>1. Holding(f, state, p) = [state |-> state, sequence |-> p, output |-> f.output]
    BY <1>2, <1>4, <1>22
  <2>2. CASE Len(p) > MaxBuffered
    <3>1. Holding(f, state, p) \in Filters
      BY <1>1, <1>2, <2>1 DEF Filters, States
    <3>2. Passing(Holding(f, state, p), p)
            = [state |-> "text", sequence |-> <<>>, output |-> f.output \o p]
      <4> DEFINE h == Holding(f, state, p)
      <4>1. h \in Filters /\ p \in Seq(Bytes) /\ h.output = f.output
        BY <1>2, <2>1, <3>1
      <4> HIDE DEF h
      <4>2. Passing(h, p) = [state |-> "text", sequence |-> <<>>, output |-> h.output \o p]
        BY <4>1, Records
      <4> QED
        BY <4>1, <4>2 DEF h
    <3>3. g = [state |-> "text", sequence |-> <<>>, output |-> f.output \o p]
      BY <1>12, <2>1, <2>2, <3>2 DEF Bounded
    <3>4. Telling(p) /\ EndsFirst(p, 1, Len(p)) /\ ~IsTitle(p, 1, Len(p))
      BY <1>1, <1>12, <2>2, CommandEnds DEF p
    <3> QED
      BY <1>6, <3>3, <3>4
  <2>3. CASE ~(Len(p) > MaxBuffered)
    <3>1. g = [state |-> state, sequence |-> p, output |-> f.output]
      BY <1>12, <2>1, <2>3 DEF Bounded
    <3>2. Open(p)
      <4>1. Len(p) <= MaxBuffered
        BY <1>2, <2>3, BufferAssumption
      <4> QED
        BY <1>1, <1>12, <4>1, CommandGoesOn DEF p
    <3>3. Len(p) > 2
      <4>1. Len(p) >= 3
        BY <1>1, <1>12, OpenHere DEF p
      <4> QED
        BY <1>2, <4>1
    <3>4. Holds(state, p)
      BY <1>2, <1>12, <3>2, <3>3 DEF Holds, States
    <3> QED
      BY <1>8, <1>22, <3>1, <3>4
  <2> QED
    BY <2>2, <2>3
<1>14. CASE f.state = "osc"
  <2>1. Open(q) /\ ~(Len(q) > 2 /\ q[Len(q)] = Esc)
    BY <1>14 DEF Holds, q
  <2>2. EndsCommand(p, 1, Len(p)) <=> value = Bel
    BY <1>1, <2>1, OpenHere DEF p
  <2>3. g = Bounded(OSC(f, value))
    BY <1>14 DEF g, Byte
  <2>4. CASE value = Bel
    <3>1. OSC(f, value) = finishOSC(f, p)
      BY <1>13, <2>4 DEF OSC, p, q
    <3> QED
      BY <1>11, <2>1, <2>2, <2>3, <2>4, <3>1
  <2>5. CASE value = Esc
    <3>1. OSC(f, value) = Holding(f, "oscEscape", p)
      BY <1>13, <2>5 DEF OSC, p, q
    <3> QED
      BY <1>12, <1>13, <2>1, <2>2, <2>3, <2>5, <3>1
  <2>6. CASE value # Bel /\ value # Esc
    <3>1. OSC(f, value) = Holding(f, "osc", p)
      BY <1>13, <2>6 DEF OSC, p, q
    <3> QED
      BY <1>12, <2>1, <2>2, <2>3, <2>6, <3>1
  <2> QED
    BY <2>4, <2>5, <2>6
<1>15. CASE f.state = "oscEscape"
  <2>1. Open(q) /\ Len(q) > 2 /\ q[Len(q)] = Esc
    BY <1>15 DEF Holds, q
  <2>2. EndsCommand(p, 1, Len(p)) <=> value = "\\"
    BY <1>1, <2>1, OpenHere DEF p
  <2>3. g = Bounded(OSCEscape(f, value))
    BY <1>15 DEF g, Byte
  <2>4. CASE value = "\\"
    <3>1. OSCEscape(f, value) = finishOSC(f, p)
      BY <1>13, <2>4 DEF OSCEscape, p, q
    <3> QED
      BY <1>11, <2>1, <2>2, <2>3, <2>4, <3>1
  <2>5. CASE value = Esc
    <3>1. OSCEscape(f, value) = Holding(f, "oscEscape", p)
      BY <1>13, <2>5 DEF OSCEscape, p, q
    <3> QED
      BY <1>12, <1>13, <2>1, <2>2, <2>3, <2>5, <3>1
  <2>6. CASE value # "\\" /\ value # Esc
    <3>1. OSCEscape(f, value) = Holding(f, "osc", p)
      BY <1>13, <2>6 DEF OSCEscape, p, q
    <3> QED
      BY <1>12, <2>1, <2>2, <2>3, <2>6, <3>1
  <2> QED
    BY <2>4, <2>5, <2>6
<1>16. f.state \in {"text", "escape", "osc", "oscEscape"}
  BY DEF Holds, States
<1> QED
  BY <1>9, <1>10, <1>14, <1>15, <1>16

-----------------------------------------------------------------------------
(* The filter: one byte after the other, one read after the other          *)

(* The bytes so far, what was written, and what is held back.              *)
Reads(bytes, out, state, q) ==
  /\ bytes \in Seq(Bytes) /\ out \in Seq(Bytes) /\ q \in Seq(Bytes)
  /\ Holds(state, q)
  /\ Starts(q, bytes, Len(bytes) - Len(q) + 1)
  /\ Agrees(bytes, out, Len(bytes) - Len(q) + 1)

LEMMA ReadsByte ==
  ASSUME NEW bytes, NEW base \in Seq(Bytes), NEW f \in Filters,
         Reads(bytes, base \o f.output, f.state, f.sequence), NEW value \in Bytes
  PROVE  /\ Byte(f, value) \in Filters
         /\ Reads(Append(bytes, value), base \o Byte(f, value).output,
                  Byte(f, value).state, Byte(f, value).sequence)
<1> DEFINE q == f.sequence
           p == Append(q, value)
           g == Byte(f, value)
           all == Append(bytes, value)
           i == Len(bytes) - Len(q) + 1
           out == base \o f.output
<1> SUFFICES g \in Filters /\ Reads(all, base \o g.output, g.state, g.sequence)
  OBVIOUS
<1>1. /\ bytes \in Seq(Bytes) /\ out \in Seq(Bytes) /\ q \in Seq(Bytes) /\ f.output \in Seq(Bytes)
      /\ Holds(f.state, q) /\ Starts(q, bytes, i) /\ Agrees(bytes, out, i)
  BY DEF Reads, Filters
<1>2. IsStep(f, g, p)
  BY <1>1, ByteDoes
<1>3. /\ p \in Seq(Bytes) /\ Len(q) \in Nat /\ Len(p) = Len(q) + 1
      /\ p[Len(p)] = value /\ \A j \in 1 .. Len(q) : p[j] = q[j]
  BY <1>1, Longer
<1>4. /\ all \in Seq(Bytes) /\ Len(bytes) \in Nat /\ Len(all) = Len(bytes) + 1
      /\ all[Len(all)] = value /\ \A j \in 1 .. Len(bytes) : all[j] = bytes[j]
  BY <1>1, Longer
<1> DEFINE n == Len(bytes)
<1>5. /\ i = n - Len(q) + 1 /\ n \in Nat
      /\ i \in 1 .. n + 1 /\ \A j \in 1 .. Len(q) : bytes[i + j - 1] = q[j]
  BY <1>1, <1>4 DEF Starts
<1>6. Agrees(all, out, i)
  <2> HIDE DEF i, out
  <2> QED
    BY <1>1, AgreesGrown
<1> HIDE DEF p, g, all, i, q, out
<1>7. Starts(p, all, i)
  <2>1. i \in 1 .. Len(all) + 1 /\ i + Len(p) - 1 = Len(all)
    BY <1>3, <1>4, <1>5
  <2>2. ASSUME NEW j \in 1 .. Len(p) PROVE all[i + j - 1] = p[j]
    <3>1. CASE j = Len(p)
      BY <1>3, <1>4, <2>1, <3>1
    <3>2. CASE j # Len(p)
      <4>1. j \in 1 .. Len(q) /\ i + j - 1 \in 1 .. Len(bytes)
        BY <1>3, <1>4, <1>5, <3>2
      <4> QED
        BY <1>3, <1>4, <1>5, <4>1
    <3> QED
      BY <3>1, <3>2
  <2> QED
    BY <1>3, <1>4, <2>1, <2>2 DEF Starts
<1>8. g \in Filters
  BY <1>2 DEF IsStep
<1>9. g.output \in Seq(Bytes) /\ g.sequence \in Seq(Bytes) /\ base \o g.output \in Seq(Bytes)
  BY <1>8, ConcatProperties DEF Filters
<1>10. CASE HeldBack(f, g, p)
  <2>1. Len(all) - Len(p) + 1 = i
    BY <1>3, <1>4, <1>5
  <2>2. g.sequence = p /\ base \o g.output = out /\ Holds(g.state, p)
    BY <1>10 DEF HeldBack, out
  <2> QED
    BY <1>3, <1>4, <1>6, <1>7, <1>8, <1>9, <2>1, <2>2 DEF Reads
<1>11. CASE Ended(f, g, p)
  <2>1. g.sequence = <<>> /\ g.state = "text" /\ Telling(p) /\ EndsFirst(p, 1, Len(p))
    BY <1>11 DEF Ended
  <2>2. Agrees(all, IF IsTitle(p, 1, Len(p)) THEN out ELSE out \o SubSeq(p, 1, Len(p)),
               i + Len(p))
    BY <1>1, <1>3, <1>4, <1>6, <1>7, <2>1, Advance
  <2>3. SubSeq(p, 1, Len(p)) = p
    BY <1>3, SubSeqFull
  <2>4. (base \o f.output) \o p = base \o (f.output \o p)
    <3> DEFINE now == f.output
    <3>1. Joinable(base, now, p)
      BY <1>1, <1>3 DEF Joinable
    <3> HIDE DEF now
    <3>2. (base \o now) \o p = base \o (now \o p)
      BY <3>1, Reassociated
    <3> QED
      BY <3>2 DEF now
  <2>5. base \o g.output = IF IsTitle(p, 1, Len(p)) THEN out ELSE out \o SubSeq(p, 1, Len(p))
    BY <1>11, <2>3, <2>4 DEF Ended, out
  <2>6. Len(<<>>) = 0
    OBVIOUS
  <2>7. Len(all) - Len(<<>>) + 1 = i + Len(p) /\ Len(all) - Len(<<>>) + 1 = Len(all) + 1
    BY <1>3, <1>4, <1>5, <2>6
  <2>8. Starts(<<>>, all, Len(all) + 1)
    BY <1>4, <2>6 DEF Starts
  <2>9. Holds("text", <<>>)
    BY DEF Holds, States
  <2> QED
    BY <1>4, <1>8, <1>9, <2>1, <2>2, <2>5, <2>7, <2>8, <2>9 DEF Reads
<1>12. CASE BeganAnew(f, g, p)
  <2>1. /\ p = <<Esc, Esc>> /\ g.state = "escape" /\ g.sequence = <<Esc>>
        /\ g.output = f.output \o <<Esc>>
    BY <1>12 DEF BeganAnew
  <2>2. Len(p) = 2 /\ p[1] = Esc /\ p[2] = Esc /\ Len(<<Esc>>) = 1 /\ <<Esc>>[1] = Esc
    BY <2>1
  <2>3. <<Esc>> \in Seq(Bytes)
    BY <1>9, <2>1
  <2>4. Telling(p) /\ EndsFirst(p, 1, 1) /\ ~IsTitle(p, 1, 1)
    BY <2>2 DEF Telling, EndsFirst, Closes, IsTitle, EndsCommand
  <2>5. SubSeq(p, 1, 1) = <<Esc>>
    <3> DEFINE a == SubSeq(p, 1, 1)
               b == <<Esc>>
    <3>1. \A j \in 1 .. 1 : p[j] \in Bytes
      BY <1>3, <2>2, ElementOfSeq
    <3>2. a \in Seq(Bytes) /\ Len(a) = 1 /\ \A j \in 1 .. 1 : a[j] = p[1 + j - 1]
      BY <3>1, SubSeqProperties
    <3>3. b \in Seq(Bytes) /\ Len(b) = 1 /\ b[1] = Esc
      BY <2>2, <2>3
    <3> HIDE DEF a, b
    <3>4. \A j \in 1 .. 1 : a[j] = b[j]
      BY <2>2, <3>2, <3>3
    <3>5. a = b
      BY <3>2, <3>3, <3>4, SeqEqual
    <3> QED
      BY <3>5 DEF a, b
  <2>6. Agrees(all, out \o <<Esc>>, i + 1)
    BY <1>1, <1>3, <1>4, <1>6, <1>7, <2>4, <2>5, Advance
  <2>7. base \o g.output = out \o <<Esc>>
    <3> DEFINE now == f.output
               b == <<Esc>>
    <3>1. Joinable(base, now, b)
      BY <1>1, <2>3 DEF Joinable
    <3> HIDE DEF now, b
    <3>2. (base \o now) \o b = base \o (now \o b)
      BY <3>1, Reassociated
    <3> QED
      BY <2>1, <3>2, Zenon DEF out, now, b
  <2>8. Len(all) - Len(<<Esc>>) + 1 = i + 1 /\ Len(all) - Len(<<Esc>>) + 1 = Len(all)
    <3> DEFINE b == <<Esc>>
    <3>1. Len(b) = 1
      BY <2>2
    <3> HIDE DEF b
    <3>2. Len(p) = 2
      BY <2>2
    <3>3. Len(q) = 1
      <4> DEFINE m == Len(q)
                 l == Len(p)
      <4>1. l = m + 1 /\ m \in Nat
        BY <1>3
      <4>2. l = 2
        BY <3>2
      <4> HIDE DEF m, l
      <4>3. m = 1
        BY <4>1, <4>2
      <4> QED
        BY <4>3 DEF m
    <3>4. Len(all) = Len(bytes) + 1 /\ i = Len(bytes) - Len(q) + 1 /\ Len(bytes) \in Nat
      BY <1>4, <1>5
    <3>5. Len(all) - Len(b) + 1 = i + 1 /\ Len(all) - Len(b) + 1 = Len(all)
      BY <3>1, <3>3, <3>4
    <3> QED
      BY <3>5 DEF b
  <2>9. Starts(<<Esc>>, all, Len(all))
    <3>1. all[Len(all)] = Esc
      BY <1>3, <1>4, <2>2
    <3>2. \A j \in 1 .. 1 : j = 1 /\ Len(all) + j - 1 = Len(all)
      BY <1>4
    <3>3. Len(all) \in 1 .. Len(all) + 1 /\ Len(all) + 1 - 1 <= Len(all)
      BY <1>4
    <3> DEFINE b == <<Esc>>
    <3>4. Len(b) = 1 /\ b[1] = Esc
      BY <2>2
    <3> HIDE DEF b
    <3>5. Starts(b, all, Len(all))
      BY <3>1, <3>2, <3>3, <3>4 DEF Starts
    <3> QED
      BY <3>5 DEF b
  <2>10. Holds("escape", <<Esc>>)
    BY DEF Holds, States
  <2> QED
    BY <1>4, <1>8, <1>9, <2>1, <2>6, <2>7, <2>8, <2>9, <2>10 DEF Reads
<1> QED
  BY <1>2, <1>10, <1>11, <1>12 DEF IsStep

(* What the values of Running are: the recursion is well-founded.          *)
IsRun(run, f, input, last) ==
  run = [n \in 0 .. last |-> IF n = 0 THEN f ELSE Byte(run[n - 1], input[n])]

LEMMA RunUpTo ==
  ASSUME NEW f, NEW input, NEW last \in Nat
  PROVE  \E run : IsRun(run, f, input, last)
<1> DEFINE Bad == {m \in Nat : ~ \E run : IsRun(run, f, input, m)}
<1>1. SUFFICES ASSUME Bad # {} PROVE FALSE
  OBVIOUS
<1>2. PICK m \in Bad : \A k \in Bad : m <= k
  <2>1. Bad \in SUBSET Nat
    OBVIOUS
  <2> HIDE DEF Bad
  <2> QED
    BY <1>1, <2>1, LeastNumber
<1>3. m \in Nat /\ ~ \E run : IsRun(run, f, input, m)
  OBVIOUS
<1>4. CASE m = 0
  <2>1. IsRun([n \in 0 .. 0 |-> f], f, input, 0)
    BY DEF IsRun
  <2> QED
    BY <1>3, <1>4, <2>1
<1>5. CASE m # 0
  <2>1. m - 1 \in Nat /\ m \in 0 .. m
    BY <1>3, <1>5
  <2>2. m - 1 \notin Bad
    <3>1. ~(m <= m - 1)
      BY <1>3
    <3> HIDE DEF Bad
    <3> QED
      BY <1>2, <3>1
  <2>3. PICK run : IsRun(run, f, input, m - 1)
    BY <2>1, <2>2
  <2> DEFINE g == [n \in 0 .. m |-> IF n = 0 THEN f ELSE Byte(run[n - 1], input[n])]
  <2>4. ASSUME NEW n \in 0 .. m, n # 0 PROVE g[n - 1] = run[n - 1]
    <3>1. n - 1 \in 0 .. m /\ n - 1 \in 0 .. m - 1
      BY <1>3, <2>4
    <3> QED
      BY <2>3, <3>1 DEF IsRun
  <2>5. g = [n \in 0 .. m |-> g[n]]
        /\ \A n \in 0 .. m : g[n] = IF n = 0 THEN f ELSE Byte(run[n - 1], input[n])
    OBVIOUS
  <2> HIDE DEF g
  <2>6. \A n \in 0 .. m : g[n] = IF n = 0 THEN f ELSE Byte(g[n - 1], input[n])
    BY <2>4, <2>5
  <2>7. IsRun(g, f, input, m)
    BY <2>5, <2>6 DEF IsRun
  <2> QED
    BY <1>3, <2>7
<1> QED
  BY <1>4, <1>5

LEMMA RunningIs ==
  ASSUME NEW f, NEW input \in Seq(Bytes)
  PROVE  IsRun(Running(f, input), f, input, Len(input))
<1>1. Len(input) \in Nat
  BY LenProperties
<1>2. \E run : IsRun(run, f, input, Len(input))
  BY <1>1, RunUpTo
<1>3. Running(f, input) =
        CHOOSE run : run = [n \in 0 .. Len(input) |-> IF n = 0 THEN f ELSE Byte(run[n - 1], input[n])]
  BY DEF Running
<1> QED
  BY <1>2, <1>3 DEF IsRun

(* After n bytes of a read.                                                *)
ReadUpTo(run, input, base, written0, n) ==
  /\ run[n] \in Filters
  /\ Reads(base \o SubSeq(input, 1, n), written0 \o run[n].output, run[n].state, run[n].sequence)

LEMMA ReadsAll ==
  ASSUME NEW base \in Seq(Bytes), NEW out \in Seq(Bytes), NEW input \in Seq(Bytes),
         NEW run, NEW f, IsRun(run, f, input, Len(input)), ReadUpTo(run, input, base, out, 0)
  PROVE  ReadUpTo(run, input, base, out, Len(input))
<1> DEFINE Bad == {n \in 0 .. Len(input) : ~ReadUpTo(run, input, base, out, n)}
<1>0. Len(input) \in Nat
  BY LenProperties
<1>1. CASE Bad = {}
  <2>1. Len(input) \in 0 .. Len(input)
    BY <1>0
  <2> QED
    BY <1>1, <2>1
<1>2. CASE Bad # {}
  <2>1. Bad \in SUBSET Nat
    BY <1>0
  <2>2. PICK n \in Bad : \A m \in Bad : n <= m
    <3> HIDE DEF Bad
    <3> QED
      BY <1>2, <2>1, LeastNumber
  <2>3. n \in 0 .. Len(input) /\ ~ReadUpTo(run, input, base, out, n)
    OBVIOUS
  <2>4. n # 0
    BY <2>3
  <2>5. n - 1 \in 0 .. Len(input) /\ ~(n <= n - 1) /\ n \in 1 .. Len(input)
    BY <1>0, <2>3, <2>4
  <2>6. ReadUpTo(run, input, base, out, n - 1)
    <3>1. n - 1 \notin Bad
      <4> HIDE DEF Bad
      <4> QED
        BY <2>2, <2>5
    <3> QED
      BY <2>5, <3>1
  <2> HIDE DEF Bad
  <2>7. run[n] = Byte(run[n - 1], input[n])
    BY <2>3, <2>4 DEF IsRun
  <2>8. input[n] \in Bytes
    BY <2>5, ElementOfSeq
  <2> DEFINE before == SubSeq(input, 1, n - 1)
  <2>9. before \in Seq(Bytes)
    <3>1. \A j \in 1 .. n - 1 : input[j] \in Bytes
      BY <1>0, <2>5, ElementOfSeq
    <3> QED
      BY <2>5, <3>1, SubSeqProperties
  <2>10. SubSeq(input, 1, n) = before \o <<input[n]>>
    <3>1. 1 \in 1 .. Len(input) /\ n \in 1 .. Len(input)
      BY <1>0, <2>5
    <3> QED
      BY <3>1, SubSeqRecursiveSecond
  <2> HIDE DEF before
  <2>11. base \o SubSeq(input, 1, n) = Append(base \o before, input[n])
    <3>1. <<input[n]>> \in Seq(Bytes)
      BY <2>8
    <3>2. (base \o before) \o <<input[n]>> = base \o (before \o <<input[n]>>)
      <4> DEFINE last == <<input[n]>>
      <4>1. Joinable(base, before, last)
        BY <2>9, <3>1 DEF Joinable
      <4> HIDE DEF last
      <4>2. (base \o before) \o last = base \o (before \o last)
        BY <4>1, Reassociated, SMTT(30)
      <4> QED
        BY <4>2 DEF last
    <3>3. base \o before \in Seq(Bytes)
      BY <2>9, ConcatProperties
    <3>4. Append(base \o before, input[n]) = (base \o before) \o <<input[n]>>
      BY <2>8, <3>3, AppendIsConcat
    <3> QED
      BY <2>10, <3>2, <3>4
  <2>12. /\ run[n - 1] \in Filters
         /\ Reads(base \o before, out \o run[n - 1].output, run[n - 1].state, run[n - 1].sequence)
    BY <2>6 DEF ReadUpTo, before
  <2>13. ReadUpTo(run, input, base, out, n)
    BY <2>7, <2>8, <2>11, <2>12, ReadsByte DEF ReadUpTo
  <2> QED
    BY <2>3, <2>13
<1> QED
  BY <1>1, <1>2

FilterInv ==
  /\ filter = [state |-> filter.state, sequence |-> filter.sequence]
  /\ Reads(raw, written, filter.state, filter.sequence)

LEMMA FilterStep ==
  ASSUME FilterInv, NEW input \in Chunks, readOutput(input)
  PROVE  FilterInv'
<1> DEFINE f == [state |-> filter.state, sequence |-> filter.sequence, output |-> <<>>]
           run == Running(f, input)
           g == run[Len(input)]
<1>1. input \in Seq(Bytes)
  <2>1. PICK n \in 1 .. MaxRead : input \in [1 .. n -> Bytes]
    BY DEF Chunks
  <2> QED
    BY <2>1, SeqDef
<1>2. /\ Reads(raw, written, filter.state, filter.sequence)
      /\ raw \in Seq(Bytes) /\ written \in Seq(Bytes) /\ filter.sequence \in Seq(Bytes)
      /\ filter.state \in States
  BY DEF FilterInv, Reads, Holds
<1>3. f \in Filters
  BY <1>2, EmptySeq DEF Filters
<1>4. IsRun(run, f, input, Len(input)) /\ Len(input) \in Nat
  BY <1>1, RunningIs, LenProperties
<1>5. filter' = [state |-> g.state, sequence |-> g.sequence]
      /\ written' = written \o g.output /\ raw' = raw \o input
  BY DEF readOutput, Filter
<1>6. run[0] = f
  <2> HIDE DEF run, f
  <2> QED
    BY <1>4 DEF IsRun
<1>7. raw \o SubSeq(input, 1, 0) = raw /\ written \o f.output = written
  <2>1. SubSeq(input, 1, 0) = <<>>
    BY SubSeqEmpty
  <2> QED
    BY <1>2, <2>1, ConcatEmptySeq
<1>8. f.state = filter.state /\ f.sequence = filter.sequence
  OBVIOUS
<1> HIDE DEF f, run, g
<1>9. ReadUpTo(run, input, raw, written, 0)
  BY <1>2, <1>3, <1>6, <1>7, <1>8 DEF ReadUpTo
<1>10. ReadUpTo(run, input, raw, written, Len(input))
  BY <1>1, <1>2, <1>4, <1>9, ReadsAll
<1>11. SubSeq(input, 1, Len(input)) = input
  BY <1>1, SubSeqFull
<1>12. Reads(raw \o input, written \o g.output, g.state, g.sequence)
  BY <1>10, <1>11 DEF ReadUpTo, g
<1> QED
  BY <1>5, <1>12 DEF FilterInv

LEMMA FilterAtStart == FilterInit => FilterInv
<1> SUFFICES ASSUME FilterInit PROVE FilterInv
  OBVIOUS
<1>1. filter = [state |-> "text", sequence |-> <<>>] /\ raw = <<>> /\ written = <<>>
  BY DEF FilterInit, Idle
<1>2. <<>> \in Seq(Bytes) /\ Len(<<>>) = 0
  BY EmptySeq
<1>3. Starts(<<>>, <<>>, 1) /\ Holds("text", <<>>) /\ Len(<<>>) - Len(<<>>) + 1 = 1
  BY <1>2 DEF Starts, Holds, States
<1>4. Agrees(<<>>, <<>>, 1)
  <2> SUFFICES ASSUME NEW more \in Seq(Bytes)
               PROVE  LET all == Left(<<>> \o more)
                      IN all[1].out = <<>> \o all[1].out /\ all[1].held = all[1].held
    BY DEF Agrees
  <2>1. <<>> \o more = more
    BY ConcatEmptySeq
  <2>2. 1 \in 1 .. Len(more) + 1
    BY LenProperties
  <2>3. Left(more)[1].out \in Seq(Bytes)
    BY <2>2, LeftIs DEF Parts
  <2> QED
    BY <2>1, <2>3, ConcatEmptySeq
<1> QED
  BY <1>1, <1>2, <1>3, <1>4 DEF FilterInv, Reads

LEMMA EndThere ==
  ASSUME NEW bytes \in Seq(Bytes), NEW p \in Seq(Bytes), NEW i, Starts(p, bytes, i), Len(p) # 0
  PROVE  SubSeq(bytes, i, i + Len(p) - 1) = p
<1> DEFINE m == Len(p)
<1>1. m \in 1 .. Len(p)
  BY LenProperties
<1>2. SubSeq(p, 1, m) = p
  BY SubSeqFull
<1>3. i \in Nat \ {0} /\ Len(bytes) \in Nat /\ m \in Nat
  BY LenProperties DEF Starts
<1> HIDE DEF m
<1>4. SubSeq(bytes, i, i + m - 1) = SubSeq(p, 1, m)
  BY <1>1, <1>3, SubSeqThere
<1> QED
  BY <1>2, <1>4 DEF m

(* When no more follows, what is held back is what is left.                *)
LEMMA ReadsShown ==
  ASSUME NEW bytes, NEW out, NEW state, NEW q, Reads(bytes, out, state, q)
  PROVE  out = Left(bytes)[1].out /\ q = Left(bytes)[1].held
<1> DEFINE i == Len(bytes) - Len(q) + 1
           all == Left(bytes)
<1>1. /\ bytes \in Seq(Bytes) /\ out \in Seq(Bytes) /\ q \in Seq(Bytes) /\ Holds(state, q)
      /\ Starts(q, bytes, i) /\ Agrees(bytes, out, i)
  BY DEF Reads
<1>2. Len(bytes) \in Nat /\ Len(q) \in Nat
  BY <1>1, LenProperties
<1>3. i \in 1 .. Len(bytes) + 1 /\ i + Len(q) - 1 = Len(bytes)
  BY <1>1, <1>2 DEF Starts
<1>4. all[1].out = out \o all[i].out /\ all[1].held = all[i].held
  <2>1. <<>> \in Seq(Bytes) /\ bytes \o <<>> = bytes
    BY <1>1, EmptySeq, ConcatEmptySeq
  <2> HIDE DEF i
  <2> QED
    BY <1>1, <2>1 DEF Agrees
<1> HIDE DEF i
<1>5. NeverEnds(bytes, i)
  <2> SUFFICES ASSUME NEW k \in i .. Len(bytes) PROVE ~Closes(bytes, i, k)
    BY DEF NeverEnds
  <2>2. k - i + 1 \in 1 .. Len(q) /\ i + (k - i + 1) - 1 = k
    BY <1>2, <1>3
  <2>3. CASE Len(q) >= 2
    <3>1. Telling(q) /\ ~Closes(q, 1, k - i + 1)
      BY <1>1, <2>2, <2>3, HeldIsOpen DEF Telling
    <3>2. Closes(bytes, i, i + (k - i + 1) - 1) <=> Closes(q, 1, k - i + 1)
      BY <1>1, <2>2, <3>1, ClosesThere
    <3> QED
      BY <2>2, <3>1, <3>2
  <2>4. CASE ~(Len(q) >= 2)
    <3>1. Len(q) = 1 /\ k = i /\ i = Len(bytes)
      <4>1. Len(q) = 1
        <5> DEFINE m == Len(q)
                   d == k - i + 1
        <5>1. d \in 1 .. m /\ m \in Nat /\ ~(m >= 2)
          BY <1>2, <2>2, <2>4
        <5> HIDE DEF m, d
        <5>2. m = 1
          BY <5>1
        <5> QED
          BY <5>2 DEF m
      <4>2. i = Len(bytes) /\ k = i
        BY <1>2, <1>3, <4>1
      <4> QED
        BY <4>1, <4>2
    <3>2. q[1] = Esc
      <4>1. q # <<>>
        BY <3>1
      <4>2. ~Open(q)
        BY <3>1 DEF Open
      <4>3. q = <<Esc>>
        BY <1>1, <4>1, <4>2, Zenon DEF Holds, States
      <4> QED
        BY <4>3
    <3>3. bytes[i] = Esc
      <4>1. 1 \in 1 .. Len(q) /\ i + 1 - 1 = i
        BY <1>3, <3>1
      <4> QED
        BY <1>1, <3>2, <4>1 DEF Starts
    <3>4. ~(i < Len(bytes)) /\ ~(k = i + 1) /\ i \in Nat
      BY <1>2, <3>1
    <3> QED
      BY <3>3, <3>4 DEF Closes, IsCommand
  <2> QED
    BY <2>3, <2>4
<1>6. all[i] = [out |-> <<>>, held |-> SubSeq(bytes, i, Len(bytes))]
  <2>1. all[i] = LeftFrom(bytes, i, all)
    <3>1. all = [j \in 1 .. Len(bytes) + 1 |-> LeftFrom(bytes, j, all)]
      BY <1>1, LeftIs
    <3> HIDE DEF all
    <3> QED
      BY <1>3, <3>1
  <2> QED
    BY <1>5, <2>1, LeftOpen
<1>7. out \o <<>> = out
  BY <1>1, ConcatEmptySeq
<1>8. q = SubSeq(bytes, i, Len(bytes))
  <2>1. CASE Len(q) = 0
    <3>1. Len(bytes) < i /\ i \in Int /\ Len(bytes) \in Int
      BY <1>2, <1>3, <2>1
    <3>2. SubSeq(bytes, i, Len(bytes)) = <<>>
      BY <3>1, SubSeqEmpty
    <3>3. q = <<>>
      BY <1>1, <2>1
    <3> QED
      BY <3>2, <3>3
  <2>2. CASE Len(q) # 0
    <3>1. bytes \in Seq(Bytes) /\ q \in Seq(Bytes) /\ Starts(q, bytes, i)
      BY <1>1
    <3>2. SubSeq(bytes, i, i + Len(q) - 1) = q
      BY <2>2, <3>1, EndThere
    <3> QED
      BY <1>3, <3>2
  <2> QED
    BY <2>1, <2>2
<1>9. all[i].out = <<>> /\ all[i].held = SubSeq(bytes, i, Len(bytes))
  <2> DEFINE here == all[i]
             rest == SubSeq(bytes, i, Len(bytes))
  <2>1. here = [out |-> <<>>, held |-> rest]
    BY <1>6
  <2> HIDE DEF here, rest
  <2>2. here.out = <<>> /\ here.held = rest
    BY <2>1
  <2> QED
    BY <2>2 DEF here, rest
<1> HIDE DEF all
<1>10. all[1].out = out /\ all[1].held = q
  BY <1>4, <1>7, <1>8, <1>9
<1> QED
  BY <1>10 DEF all

(* However the output is cut into reads, however long it is and however    *)
(* much the buffer holds, the emulator gets all of it in order but the     *)
(* complete titles (Filter in output_filter.go).                           *)
THEOREM FilterSafety == FilterSpec => []TitlesOnlyRemoved
<1>1. FilterInv /\ [FilterNext]_filterVars => FilterInv'
  <2>1. ASSUME FilterInv, FilterNext PROVE FilterInv'
    BY <2>1, FilterStep DEF FilterNext
  <2>2. ASSUME FilterInv, UNCHANGED filterVars PROVE FilterInv'
    BY <2>2 DEF FilterInv, filterVars
  <2> QED
    BY <2>1, <2>2
<1>2. FilterInv => TitlesOnlyRemoved
  BY ReadsShown DEF FilterInv, TitlesOnlyRemoved
<1> QED
  BY <1>1, <1>2, FilterAtStart, PTL DEF FilterSpec

=============================================================================
