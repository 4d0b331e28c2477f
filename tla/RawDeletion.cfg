\* Crashes and faults at every step, failing rollback included.
CONSTANTS
  s1 = s1
  s2 = s2
  r1 = r1
  r2 = r2
  r3 = r3
  p1 = p1
  Sources = {s1, s2}
  Raws = {r1, r2, r3}
  Replicas = {p1}
  SourceOf <- TwoAndOne
  Expiring = {r1, r3}
  Quota = 3
  CleanupMayFail = TRUE
  FilesMayVanish = FALSE
SPECIFICATION Spec
INVARIANTS
  VaultAgrees
  CompletedJobIsClean
  DeletedSourceUnreadable
  OutcomeIsNotStolen
