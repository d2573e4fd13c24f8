SPECIFICATION HistorySpec
CONSTANTS
  Client = {c1, c2}
  UserId = {u1}
  Username = {ann, bob}
  Email = {e1, e2}
  Password = {p1, p2}
  VmName = {}
  Lifespan = 1
  MaxTime = 0
  Faults = TRUE
  Deletions = FALSE
  None = None
  Deleted = Deleted
SYMMETRY Symmetry
INVARIANT UndisturbedSessionMatches
PROPERTY SessionsAreProven
