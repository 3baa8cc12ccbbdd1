\* Two processes, two writes, one reset, no context: the receipts and the cursor,
\* which catches up.
SPECIFICATION FairSpec
CONSTANTS
  m1 = m1
  m2 = m2
  k1 = k1
  k2 = k2
  None = None
  Memories = {}
  Keys = {}
  Sections <- NoSections
  TooLarge = {}
  Hooks = {}
  Procs = {p1, p2}
  MaxReceipts = 2
  MaxEpochs = 1
  MaxFaults = 1
INVARIANTS
  CursorIsIndexed
PROPERTIES
  CursorNeverBack
  WritesAreRefreshed
