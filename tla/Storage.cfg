SPECIFICATION Spec

CONSTANTS
  c1 = c1
  c2 = c2
  p1 = p1
  p2 = p2
  report = report
  evidence = evidence
  Completers = {c1, c2}
  Publishers = {p1, p2}
  Kinds = {report, evidence}
  MaxRaises = 1
  MaxCrashes = 1

SYMMETRY Interchangeable

INVARIANTS
  RowsAreTrue
  WholeSet
  NoOrphans

CHECK_DEADLOCK FALSE
