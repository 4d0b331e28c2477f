\* What a deletion promises, and that it is kept in the end: more objects than
\* the quota holds, files that vanish, and a store whose rollback works.
CONSTANTS
  s1 = s1
  s2 = s2
  r1 = r1
  r2 = r2
  r3 = r3
  p1 = p1
  Sources = {s1}
  Raws = {r1, r2, r3}
  Replicas = {p1}
  SourceOf <- OneSource
  Expiring = {r1}
  Quota = 2
  CleanupMayFail = FALSE
  FilesMayVanish = TRUE
SPECIFICATION FairSpec
INVARIANT
  DiskWithinQuota
PROPERTIES
  DeletionFinishes
  ImplementsPromise
