\* Two memories (one with an event), one alias that is re-pointed, two stores
\* without hard links, one process at a time dying once: what a later flush
\* must repair.
SPECIFICATION FairSpec
CONSTANTS
  a1 = a1
  a2 = a2
  r1 = r1
  r2 = r2
  None = None
  Items = {i1, i2}
  EventItems = {i2}
  Aliases = {a1}
  Roots = {r1, r2}
  Procs = {p1}
  InitConfig <- OneAlias
  Declared <- OneUndeclared
  InitIdentities <- OneSeen
  Links = FALSE
  StableMounts = TRUE
  SerialBind = TRUE
  MayRepoint = TRUE
  MaxFaults = 1
INVARIANTS
  NoLoss
PROPERTIES
  
  PendingLeaves
CHECK_DEADLOCK FALSE
