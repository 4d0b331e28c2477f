\* One event under two texts, two revisions that compete, a report, a note, and one
\* fault at any step.
CONSTANTS
  k1 = k1
  k2 = k2
  k3 = k3
  a = a
  b = b
  events = events
  revisions = revisions
  Keys = {k1, k2, k3}
  Texts = {a, b}
  Calls <- Story
  Grants = {events, revisions}
  ReadGrants = {events}
  Lapsing = {revisions}
  MaxFaults = 1
SPECIFICATION FairSpec
INVARIANTS
  TypeOK
  StoresAgree
  OneEffectPerKey
PROPERTIES
  ImplementsPromise
  ContextIsRightful
  CapturesSettle
CHECK_DEADLOCK FALSE
