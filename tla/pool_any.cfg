SPECIFICATION Spec
CONSTANTS
  p1 = p1
  p2 = p2
  p3 = p3
  NULL = NULL
  Bulk <- MCBulk
  PageSlots <- MCPageSlots
  MaxPage <- MCMaxPage
  LargeBlock = {L1}
  Owner <- MCOwner
  Request <- MCRequest
  FinalizeWhen = "any"
SYMMETRY Symmetry
INVARIANT ThreeConditions
