CONSTANTS
  h1 = h1
  h2 = h2
  h3 = h3
  h4 = h4
  Handles <- MCFourHandles
  MaxPages = 4
  PageSize <- MCPageSize
  WordSize <- MCWordSize
  Sizes <- MCSizes
SPECIFICATION Spec
SYMMETRY MCSymmetry
INVARIANTS TypeOK GrantFits PagesPartitioned TLBHasRoom OwnersNeverAbort
PROPERTIES KeepsPromise
CHECK_DEADLOCK FALSE
