\* One memory with an event, two processes, a lock file that is removed once.
SPECIFICATION Spec
CONSTANTS
  r1 = r1
  p1 = p1
  p2 = p2
  Records = {r1}
  Paired = {r1}
  Procs = {p1, p2}
  MayFlicker = FALSE
  MaxVersion = 1
  MaxInodes = 2
  MaxFaults = 1
SYMMETRY ProcSymmetry
INVARIANTS
  LockIsExclusive
  CompleteIsExact
  UnwarnedReadIsCurrent
PROPERTIES
  NothingForgotten
CHECK_DEADLOCK FALSE
