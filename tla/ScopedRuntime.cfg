\* Two callers and two purposes of one space, under two generations.
CONSTANTS
  c1 = c1
  c2 = c2
  s1 = s1
  p1 = p1
  p2 = p2
  e1 = e1
  e2 = e2
  Callers = {c1, c2}
  Spaces = {s1}
  Purposes = {p1, p2}
  Evidence = {e1, e2}
  Policies = {1, 2}
  Revocations = {1, 2}
  Bundles = {{e1, e2}}
  Contexts <- MCContexts
  MaxBudget = 1
  MaxKept = 2
SYMMETRY Symmetry
SPECIFICATION Spec
INVARIANT NothingForbiddenIsKept
INVARIANT DraftIsRightful
INVARIANT DrainIsCurrent
INVARIANT BudgetIsKept
