\* Two hooks at once, two context losses or resets, no writes: what the model
\* is shown.
SPECIFICATION Spec
CONSTANTS
  m1 = m1
  m2 = m2
  k1 = k1
  k2 = k2
  None = None
  Memories = {m1, m2}
  Keys = {k1, k2}
  Sections <- Overlapping
  TooLarge = {m2}
  Hooks = {"start", "prompt"}
  Procs = {p1, p2}
  MaxReceipts = 0
  MaxEpochs = 2
  MaxFaults = 1
INVARIANTS
  SuppressedIsVisible
  KeyMeansComplete
  TopicOfThisEpoch
