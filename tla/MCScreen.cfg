SPECIFICATION ScreenSpec
CONSTANTS
  Panes = {p1, p2, p3}
  MinPaneWidth = 12
  MinPaneHeight = 5
  Widths = {24, 60}
  Heights = {30}
  Lines = {0, 20, 70}
  Capacity = 3
  Height = 2
  Width = 2
  WheelLines = 2
  MaxPushed = 4
  MaxBuffered = 5
  MaxRead = 2
  MaxRaw = 6
SYMMETRY Symmetry
INVARIANTS
  CopiesHighlighted
  SelectionFollows
  Tiled
  DividerLands
  FocusMoves
  TitlesOnlyRemoved
PROPERTIES
  OrderSpec
CHECK_DEADLOCK FALSE
