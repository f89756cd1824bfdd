------------------------------ MODULE LayoutTree ------------------------------
(***************************************************************************)
(* The layout of a project (src/internal/layout): a binary tree whose      *)
(* leaves are panes and whose inner nodes split a rectangle in columns or  *)
(* rows at a ratio.  A tree is a function from paths: the root is <<>>,    *)
(* First and Second of the node at q are at Append(q, 1) and Append(q, 2). *)
(* A ratio is an exact fraction <<n, d>>.  A rectangle has a position and  *)
(* an extent along each axis.                                              *)
(***************************************************************************)
EXTENDS Integers, FiniteSets, SequencesExt, TLC

CONSTANTS
  Panes,          \* ids of panes
  MinPaneWidth,   \* least width and height that SplitSizes leaves to a pane
  MinPaneHeight,
  Widths,         \* bound: widths and heights of the workspace
  Heights,
  Lines           \* bound: coordinates to which a divider is dragged

None == 0

ASSUME PanesAssumption == None \notin Panes
ASSUME LeastAssumption == MinPaneWidth \in Nat \ {0} /\ MinPaneHeight \in Nat \ {0}
ASSUME AreaAssumption == Widths \subseteq Nat /\ Heights \subseteq Nat /\ Lines \subseteq Int

VARIABLES
  tree,  \* tab.root
  area   \* Model.workspaceRect

layoutVars == <<tree, area>>

Gap == 1
Axes == {"columns", "rows"}
Sides == {1, 2}
Edges == {"right", "left", "bottom", "top"}
Directions == {"left", "right", "up", "down"}
LargerOf(a, b) == IF a < b THEN b ELSE a
SmallerOf(a, b) == IF a < b THEN a ELSE b
MinPane(axis) == IF axis = "columns" THEN MinPaneWidth ELSE MinPaneHeight

Leaf(p) == [pane |-> p, axis |-> "none", ratio |-> <<1, 2>>]
Divider(axis) == [pane |-> None, axis |-> axis, ratio |-> <<1, 2>>]

IsLeaf(t, q) == t[q].pane # None
LeafPaths(t) == {q \in DOMAIN t : IsLeaf(t, q)}
Below(t, q) == {r \in DOMAIN t : IsPrefix(q, r)}
LeavesBelow(t, q) == Below(t, q) \cap LeafPaths(t)
PathToPane(t, p) == CHOOSE q \in DOMAIN t : t[q].pane = p
PanesOf(t) == {t[q].pane : q \in LeafPaths(t)}

(* Leaves: the panes from the first child to the second. *)
Before(q, r) ==
  \E i \in DOMAIN q : /\ i \in DOMAIN r /\ q[i] < r[i]
                      /\ \A j \in 1 .. i - 1 : q[j] = r[j]
Leaves(t) == LET leaves == LeafPaths(t)
                 place(q) == Cardinality({r \in leaves : Before(r, q)}) + 1
             IN [i \in 1 .. Cardinality(leaves) |->
                   t[CHOOSE q \in leaves : place(q) = i].pane]

----------------------------------------------------------------------------
(* Changing the tree                                                       *)

(* A plausible slip: the new pane takes the first place. *)
SplitBefore(t, p, new, axis) ==
  LET at == PathToPane(t, p)
  IN [q \in DOMAIN t \cup {Append(at, 1), Append(at, 2)} |->
        IF q = at THEN Divider(axis)
        ELSE IF q = Append(at, 1) THEN Leaf(new)
        ELSE IF q = Append(at, 2) THEN Leaf(p)
        ELSE t[q]]

Split(t, p, new, axis) ==
  LET at == PathToPane(t, p)
  IN [q \in DOMAIN t \cup {Append(at, 1), Append(at, 2)} |->
        IF q = at THEN Divider(axis)
        ELSE IF q = Append(at, 1) THEN Leaf(p)
        ELSE IF q = Append(at, 2) THEN Leaf(new)
        ELSE t[q]]

(* The sibling of the pane takes the place of their parent. *)
RemovePane(t, p) ==
  LET at == PathToPane(t, p)
      parent == Front(at)
      sibling == Append(parent, 3 - Last(at))
      Beyond(q, r) == SubSeq(r, Len(q) + 1, Len(r))
  IN [q \in (DOMAIN t \ Below(t, parent))
              \cup {parent \o Beyond(sibling, r) : r \in Below(t, sibling)} |->
        IF IsPrefix(parent, q) THEN t[sibling \o Beyond(parent, q)] ELSE t[q]]

Swap(t, p, other) ==
  [t EXCEPT ![PathToPane(t, p)].pane = other, ![PathToPane(t, other)].pane = p]

(* Equalize: every divider shares by the number of panes on its sides. *)
Equalize(t) ==
  [q \in DOMAIN t |->
     IF IsLeaf(t, q) THEN t[q]
     ELSE [t[q] EXCEPT !.ratio = <<Cardinality(LeavesBelow(t, Append(q, 1))),
                                   Cardinality(LeavesBelow(t, q))>>]]

----------------------------------------------------------------------------
(* Rectangles                                                              *)

(* SplitSizes along one axis: what the first and the second child get. *)
FirstSize(axis, total, ratio) ==
  LET available == LargerOf(0, total - Gap)
      share == (available * ratio[1]) \div ratio[2]
      least == MinPane(axis)
  IN IF available >= 2 * least
       THEN LargerOf(least, SmallerOf(share, available - least))
       ELSE available \div 2
SecondSize(axis, total, ratio) ==
  LargerOf(0, total - Gap) - FirstSize(axis, total, ratio)

(* A plausible slip: the second child begins where the first one ends. *)
ChildTouching(rect, node, side) ==
  LET total == rect.extent[node.axis]
      first == FirstSize(node.axis, total, node.ratio)
  IN IF side = 1
       THEN [rect EXCEPT !.extent[node.axis] = first]
       ELSE [rect EXCEPT !.at[node.axis] = @ + first,
                         !.extent[node.axis] = SecondSize(node.axis, total, node.ratio)]

Child(rect, node, side) ==
  LET total == rect.extent[node.axis]
      first == FirstSize(node.axis, total, node.ratio)
  IN IF side = 1
       THEN [rect EXCEPT !.extent[node.axis] = first]
       ELSE [rect EXCEPT !.at[node.axis] = @ + first + Gap,
                         !.extent[node.axis] = SecondSize(node.axis, total, node.ratio)]

(* fillRects; what has no width or no height is not drawn, nor is what it     *)
(* would hold.                                                               *)
Rects(t, whole) ==
  LET rect[q \in DOMAIN t] == IF q = <<>> THEN whole
                              ELSE Child(rect[Front(q)], t[Front(q)], Last(q))
  IN [q \in DOMAIN t |-> rect[q]]
IsDrawn(rect) == rect.extent["columns"] > 0 /\ rect.extent["rows"] > 0
DrawnPaths(t, rects) == {q \in LeafPaths(t) : IsDrawn(rects[q])}

(* Neighbor: of the panes whose centre lies that way, those nearest first     *)
(* across and then along the direction; which one of a tie is not defined.   *)
Center(rect, axis) == rect.at[axis] + (rect.extent[axis] \div 2)
Distance(a, b) == IF a < b THEN b - a ELSE a - b
Along(direction) == IF direction \in {"left", "right"} THEN "columns" ELSE "rows"
Across(direction) == IF direction \in {"left", "right"} THEN "rows" ELSE "columns"

(* A plausible slip: what lies below is looked for above. *)
NeighborsAbove(t, rects, q, direction) ==
  LET Here(axis) == Center(rects[q], axis)
      There(r, axis) == Center(rects[r], axis)
      ahead == {r \in DrawnPaths(t, rects) \ {q} :
                  IF direction # "right"
                    THEN There(r, Along(direction)) < Here(Along(direction))
                    ELSE There(r, Along(direction)) > Here(Along(direction))}
      Score(r) == 10000 * Distance(Here(Across(direction)), There(r, Across(direction)))
                  + Distance(Here(Along(direction)), There(r, Along(direction)))
  IN {r \in ahead : \A s \in ahead : Score(r) <= Score(s)}

Neighbors(t, rects, q, direction) ==
  LET Here(axis) == Center(rects[q], axis)
      There(r, axis) == Center(rects[r], axis)
      ahead == {r \in DrawnPaths(t, rects) \ {q} :
                  IF direction \in {"left", "up"}
                    THEN There(r, Along(direction)) < Here(Along(direction))
                    ELSE There(r, Along(direction)) > Here(Along(direction))}
      Score(r) == 10000 * Distance(Here(Across(direction)), There(r, Across(direction)))
                  + Distance(Here(Along(direction)), There(r, Along(direction)))
  IN {r \in ahead : \A s \in ahead : Score(r) <= Score(s)}

----------------------------------------------------------------------------
(* Resizing by the mouse                                                   *)

EdgeAxis(edge) == IF edge \in {"right", "left"} THEN "columns" ELSE "rows"
IsFar(edge) == edge \in {"right", "bottom"}

(* minExtent *)
MinExtent(t, axis) ==
  LET least[q \in DOMAIN t] ==
        IF IsLeaf(t, q) THEN MinPane(axis)
        ELSE LET first == least[Append(q, 1)]
                 second == least[Append(q, 2)]
             IN IF t[q].axis = axis THEN first + Gap + second ELSE LargerOf(first, second)
  IN [q \in DOMAIN t |-> least[q]]

(* resizeOwner: the nearest divider at that edge of the pane, if any. *)
Owners(t, p, edge) ==
  LET path == PathToPane(t, p)
  IN {q \in DOMAIN t : /\ IsStrictPrefix(q, path) /\ t[q].axis = EdgeAxis(edge)
                       /\ IsFar(edge) <=> path[Len(q) + 1] = 1}
Nearest(paths) == CHOOSE q \in paths : \A r \in paths : Len(r) <= Len(q)
CanResize(t, p, edge) == Owners(t, p, edge) # {}

(* The positions a divider at q can take, and the one a drag to pos asks for. *)
LowLine(t, rects, q) == rects[q].at[t[q].axis] + MinExtent(t, t[q].axis)[Append(q, 1)]
HighLine(t, rects, q) ==
  rects[q].at[t[q].axis] + rects[q].extent[t[q].axis] - Gap
    - MinExtent(t, t[q].axis)[Append(q, 2)]
Line(t, rects, q, edge, pos) ==
  LargerOf(LowLine(t, rects, q),
           SmallerOf(IF IsFar(edge) THEN pos ELSE pos - Gap, HighLine(t, rects, q)))

(* A plausible slip: the divider itself counts as room to share. *)
ResizeWithGap(t, rects, q, edge, pos) ==
  [t EXCEPT ![q].ratio =
     <<2 * (Line(t, rects, q, edge, pos) - rects[q].at[t[q].axis]) + 1,
       2 * rects[q].extent[t[q].axis]>>]

(* ResizeSplit: the divider at q is dragged to pos, if it can move. *)
Movable(t, rects, q) == LowLine(t, rects, q) <= HighLine(t, rects, q)
ResizeSplit(t, rects, q, edge, pos) ==
  [t EXCEPT ![q].ratio =
     <<2 * (Line(t, rects, q, edge, pos) - rects[q].at[t[q].axis]) + 1,
       2 * (rects[q].extent[t[q].axis] - Gap)>>]

----------------------------------------------------------------------------
Areas == {[at |-> [axis \in Axes |-> 0],
            extent |-> [axis \in Axes |-> IF axis = "columns" THEN width ELSE height]] :
            width \in Widths, height \in Heights}

LayoutInit ==
  /\ \E p \in Panes : tree = [q \in {<<>>} |-> Leaf(p)]
  /\ area \in Areas

(* splitActive hands in a pane that is new. *)
SplitPane(p, new, axis) ==
  /\ p \in PanesOf(tree) /\ new \notin PanesOf(tree)
  /\ tree' = Split(tree, p, new, axis)
  /\ UNCHANGED area

ClosePane(p) ==
  /\ p \in PanesOf(tree) /\ PanesOf(tree) # {p}
  /\ tree' = RemovePane(tree, p)
  /\ UNCHANGED area

SwapPanes ==
  /\ LET rects == Rects(tree, area)
     IN \E q \in DrawnPaths(tree, rects), direction \in Directions :
          \E r \in Neighbors(tree, rects, q, direction) :
            tree' = Swap(tree, tree[q].pane, tree[r].pane)
  /\ UNCHANGED area

Balance == tree' = Equalize(tree) /\ UNCHANGED area

DragDivider(p, edge, pos) ==
  /\ p \in PanesOf(tree) /\ CanResize(tree, p, edge)
  /\ LET rects == Rects(tree, area)
         q == Nearest(Owners(tree, p, edge))
     IN /\ Movable(tree, rects, q)
        /\ tree' = ResizeSplit(tree, rects, q, edge, pos)
  /\ UNCHANGED area

WindowSize == area' \in Areas /\ UNCHANGED tree

LayoutNext ==
  \/ \E p, new \in Panes, axis \in Axes : SplitPane(p, new, axis)
  \/ \E p \in Panes : ClosePane(p)
  \/ SwapPanes
  \/ Balance
  \/ \E p \in Panes, edge \in Edges, pos \in Lines : DragDivider(p, edge, pos)
  \/ WindowSize

LayoutSpec == LayoutInit /\ [][LayoutNext]_layoutVars

----------------------------------------------------------------------------
(* Properties                                                              *)

(* The paths form a finite binary tree with a pane at every leaf, each pane   *)
(* once, and no ratio is one that SplitSizes would put aside (layout.go:187). *)
Nodes == [pane : Panes \cup {None}, axis : Axes \cup {"none"}, ratio : Nat \X Nat]
IsTree(t) ==
  /\ t \in [DOMAIN t -> Nodes] /\ DOMAIN t \subseteq Seq(Sides) /\ IsFiniteSet(DOMAIN t)
  /\ <<>> \in DOMAIN t
  /\ \A q \in DOMAIN t \ {<<>>} : Front(q) \in DOMAIN t /\ ~IsLeaf(t, Front(q))
  /\ \A q \in DOMAIN t \ LeafPaths(t) :
       /\ t[q].axis \in Axes /\ 0 < t[q].ratio[1] /\ t[q].ratio[1] < t[q].ratio[2]
       /\ \A side \in Sides : Append(q, side) \in DOMAIN t
  /\ \A q, r \in LeafPaths(t) : t[q].pane = t[r].pane => q = r
LayoutTypeOK == IsTree(tree) /\ area \in Areas

(* The rectangles tile the workspace (Rects): they lie in it, no two of them  *)
(* touch, and what a divider hands to its sides is all there was.            *)
Within(inner, outer) ==
  \A axis \in Axes : /\ inner.at[axis] >= outer.at[axis]
                     /\ inner.at[axis] + inner.extent[axis] <= outer.at[axis] + outer.extent[axis]
Apart(one, other) ==
  \E axis \in Axes : \/ one.at[axis] + one.extent[axis] + Gap <= other.at[axis]
                     \/ other.at[axis] + other.extent[axis] + Gap <= one.at[axis]
Tiled ==
  LET rects == Rects(tree, area)
      drawn == DrawnPaths(tree, rects)
  IN /\ \A q \in drawn : Within(rects[q], area)
     /\ \A q, r \in drawn : q # r => Apart(rects[q], rects[r])
     /\ \A q \in DOMAIN tree \ LeafPaths(tree) :
          LET axis == tree[q].axis
              Size(r) == rects[r].extent[axis]
          IN Size(q) > Gap => Size(Append(q, 1)) + Gap + Size(Append(q, 2)) = Size(q)

(* A dragged divider lands on the cell it was dragged to, or the nearest one  *)
(* that leaves both sides their least extent (the half cell in ResizeSplit),  *)
(* and no pane outside the two sides moves.                                  *)
Dragged == {d \in (DOMAIN tree \ LeafPaths(tree)) \X Edges :
              \E p \in PanesOf(tree) : LET paths == Owners(tree, p, d[2])
                                     IN paths # {} /\ d[1] = Nearest(paths)}
DividerLands ==
  LET before == Rects(tree, area)
  IN \A d \in Dragged, pos \in Lines :
       LET q == d[1]
           first == Append(q, 1)
           axis == tree[q].axis
           after == Rects(ResizeSplit(tree, before, q, d[2], pos), area)
       IN Movable(tree, before, q) =>
            /\ after[first].at[axis] + after[first].extent[axis]
                 = Line(tree, before, q, d[2], pos)
            /\ \A r \in LeafPaths(tree) \ Below(tree, q) : after[r] = before[r]

(* A pane that lies beyond another one in a direction is missed by no key: it *)
(* is never said that there is none (model.go:533, and the entries of the     *)
(* menu, context_menu.go:123), and as long as another pane is drawn some key  *)
(* leads out of each, however they overlap and whatever their centres are.    *)
LiesTo(r, q, direction) ==
  LET axis == Along(direction)
  IN IF direction \in {"left", "up"} THEN r.at[axis] + r.extent[axis] <= q.at[axis]
                                     ELSE q.at[axis] + q.extent[axis] <= r.at[axis]
FocusMoves ==
  LET rects == Rects(tree, area)
      drawn == DrawnPaths(tree, rects)
      Leads(q, direction) == Neighbors(tree, rects, q, direction) # {}
  IN \A q, r \in drawn :
       /\ \A direction \in Directions :
            LiesTo(rects[r], rects[q], direction) => Leads(q, direction)
       /\ q # r => \E direction \in Directions : Leads(q, direction)

(* The list of panes that the workspace sees is that of PaneOrder.           *)
Order == INSTANCE PaneOrder WITH Panes <- Panes, order <- Leaves(tree)
OrderSpec == Order!Spec

=============================================================================
