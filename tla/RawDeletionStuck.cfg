\* A lost ciphertext file makes its source impossible to delete.
CONSTANTS
  s1 = s1
  s2 = s2
  r1 = r1
  r2 = r2
  r3 = r3
  p1 = p1
  Sources = {s1}
  Raws = {r1, r2, r3}
  Replicas = {p1}
  SourceOf <- OneSource
  Expiring = {r1}
  Quota = 2
  CleanupMayFail = FALSE
  FilesMayVanish = TRUE
SPECIFICATION Spec
INVARIANT
  EverySourceDeletable
