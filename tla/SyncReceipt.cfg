\* A tombstone that was refused, delivered again, is acknowledged.
CONSTANTS
  a = a
  b = b
  v = v
  f = f
  x = x
  y = y
  k = k
  Peers = {a, b}
  Events = {v}
  Fields = {f}
  Values = {x, y}
  SharedKeys = {k}
  Schemas = {1, 2}
  Supported <- OneUpgraded
  Calls <- Story
  Lapsing <- Lapse
  Roaming = {b}
  MaxQueue = 1
  Strays <- Elsewhere
  MaxEmit <- TwoAndOne
SPECIFICATION Spec
INVARIANT ProofMeansApplied
CHECK_DEADLOCK FALSE
