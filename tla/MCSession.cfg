SPECIFICATION Spec
CONSTANTS
  Clients = {c1, c2}
  NoClient = NoClient
  MaxInputs = 2
  WireCap = 1
  MaxOutput = 0
  MayHold = FALSE
SYMMETRY Symmetry
INVARIANTS
  DetachedIsClean
  NoInputIgnored
  ShownUiIsOwn
  ClipboardStaysHome
  ClipboardInOrder
PROPERTIES
  FarewellArrives
  LeaseSpec
CHECK_DEADLOCK FALSE
