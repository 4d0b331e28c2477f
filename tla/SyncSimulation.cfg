\* Two peers, deliveries in every order, repeated, offline and replayed.
CONSTANTS
  a = a
  b = b
  v = v
  f = f
  x = x
  y = y
  k = k
  Peers = {a, b}
  Events = {v}
  Fields = {f}
  Values = {x, y}
  SharedKeys = {k}
  Schemas = {1, 2}
  Supported <- OneUpgraded
  Calls <- Story
  Lapsing <- Lapse
  Roaming = {b}
  MaxQueue = 1
  Strays <- Reused
  MaxEmit <- TwoAndOne
SPECIFICATION Spec
INVARIANTS
  TypeOK
  CursorIsGaplessPrefix
  JudgedOnce
  DivergenceIsExplained
  ConvergenceMeansDeleted
  MergeIsByGeneration
PROPERTIES
  DeletedStaysDeleted
  RevokedStaysOut
CHECK_DEADLOCK FALSE
