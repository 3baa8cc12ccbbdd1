\* Two processes and one memory with an event, two stores
\* without hard links; one fault.
SPECIFICATION Spec
CONSTANTS
  a1 = a1
  a2 = a2
  r1 = r1
  r2 = r2
  None = None
  Items = {i1}
  EventItems = {i1}
  Aliases = {a1, a2}
  Roots = {r1, r2}
  Procs = {p1, p2}
  InitConfig <- TwoStores
  Declared <- NoneDeclared
  InitIdentities <- SomeSeen
  Links = FALSE
  StableMounts = TRUE
  SerialBind = TRUE
  MayRepoint = FALSE
  MaxFaults = 1
INVARIANTS
  NeverForeign
  SingleHome
  ArchivedBeforeRemoved
PROPERTIES
  PublishedIsStable
  KeepsPromise
CHECK_DEADLOCK FALSE
