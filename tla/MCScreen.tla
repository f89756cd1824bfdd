------------------------------- MODULE MCScreen -------------------------------
(***************************************************************************)
(* What comes to the screen: how the panes share it (LayoutTree), what one *)
(* of them shows of its history (TerminalHistory), and what of the output  *)
(* gets there (OutputFilter).  They have no variable in common, so a       *)
(* behaviour moves one of them and the others stay as they began.          *)
(***************************************************************************)
EXTENDS TerminalHistory, LayoutTree, OutputFilter

VARIABLE part   \* the part that moves

Symmetry == Permutations(Panes)

InLayout(step) == part = "layout" /\ step /\ UNCHANGED <<part, vars, filterVars>>
InHistory(step) == part = "history" /\ step /\ UNCHANGED <<part, tree, area, filterVars>>
InFilter(step) == part = "filter" /\ step /\ UNCHANGED <<part, vars, tree, area>>

ScreenInit ==
  /\ Init /\ LayoutInit /\ FilterInit
  /\ part \in {"layout", "history", "filter"}
  /\ part # "layout" => area = CHOOSE a \in Areas : TRUE

ScreenNext ==
  \/ \E p \in Panes, new \in Panes, axis \in Axes :
       InLayout(SplitPane(p, new, axis))
  \/ \E p \in Panes : InLayout(ClosePane(p))
  \/ InLayout(SwapPanes)
  \/ InLayout(Balance)
  \/ \E p \in Panes, edge \in Edges, pos \in Lines : InLayout(DragDivider(p, edge, pos))
  \/ InLayout(WindowSize)
  \/ InHistory(Output)
  \/ InHistory(AltScreen)
  \/ \E mode \in {"mouse", "alternateScroll"} : InHistory(setTerminalMode(mode))
  \/ InHistory(Type)
  \/ InHistory(TypeResume)
  \/ InHistory(Resize)
  \/ InHistory(HandleWheel)
  \/ InHistory(Copy)
  \/ InHistory(Dismiss)
  \/ \E x \in Columns, y \in 0..Height - 1 : InHistory(BeginSelection(x, y))
  \/ \E x \in Columns, y \in 0..Height - 1 : InHistory(UpdateSelection(x, y))
  \/ \E x \in Columns, y \in 0..Height - 1 : InHistory(EndSelection(x, y))
  \/ \E input \in Chunks : InFilter(readOutput(input))

ScreenSpec == ScreenInit /\ [][ScreenNext]_<<part, tree, area, vars, filterVars>>

=============================================================================
